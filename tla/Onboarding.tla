----------------------------- MODULE Onboarding -----------------------------
(***************************************************************************)
(* How a company comes to the platform: the request of a prospect, its     *)
(* approval or rejection by a superadmin, the owner's account, the company *)
(* with its first warehouse, and the invitation that is mailed             *)
(* (saas/application/prospect.go, security/application/invite*.go,         *)
(* register.go and company/application/create.go).                         *)
(*                                                                         *)
(* Approve is a chain of statements in four schemas, without a transaction *)
(* around them; each may fail or be applied and its reply lost, the mail   *)
(* may not go out, and the request may die between any two.                *)
(***************************************************************************)
EXTENDS Integers, FiniteSets

CONSTANTS
  Prospects, \* identifiers of requests for access
  Emails,    \* addresses of people, the unique key of a user
  Nits,      \* tax numbers, the unique key of a company
  Clerks,    \* goroutines that serve requests
  Duties,    \* goroutine -> the requests it serves
  Faults,    \* goroutine -> what it meets: "crash", it dies; "database", a statement
             \* fails, or is applied and its reply lost; "mail", the mail server fails
  MaxTokens, \* bound on the tokens of invitations
  NoProspect, NoEmail, NoNit

Requests == {"submit", "approve", "reject", "register", "company", "invite", "accept"}

ASSUME OnboardingAssumption ==
  /\ Duties \in [Clerks -> SUBSET Requests]
  /\ Faults \in [Clerks -> SUBSET {"crash", "database", "mail"}]
  /\ MaxTokens \in Nat
  /\ NoProspect \notin Prospects /\ NoEmail \notin Emails /\ NoNit \notin Nits

VARIABLES
  prospects, \* saas.prospects
  users,     \* security.users: "none", no row yet; "invited", no password yet; "active"
  members,   \* security.user_companies
  companies, \* company.companies: the tax numbers that have a row
  warehouses,\* the companies that have their default warehouse
  mails,     \* invitations that went out: [to, token]
  lastToken, \* tokens made so far; uuid.New() never gives one twice
  pc,        \* request -> the statement it is at
  job        \* request -> its local variables

database == <<prospects, users, members, companies, warehouses, mails, lastToken>>
vars == <<prospects, users, members, companies, warehouses, mails, lastToken, pc, job>>

ProspectRows == [status : {"none", "pending", "approved", "rejected"},
                 email : Emails \cup {NoEmail}, nit : Nits \cup {NoNit}]
\* token: invite_token; 0 is NULL.
Users   == [status : {"none", "invited", "active"}, token : Nat]
Members == [email : Emails, nit : Nits, role : {"owner", "member"}]
Mails   == [to : Emails, token : Nat]

Steps == {"idle", "user", "owner", "memberships", "token", "nit", "company", "link",
          "warehouse", "mail", "approve", "reject", "register", "invite", "member", "password"}

Jobs == [prospect : Prospects \cup {NoProspect}, email : Emails \cup {NoEmail},
         nit : Nits \cup {NoNit}, token : Nat]

Idle == [prospect |-> NoProspect, email |-> NoEmail, nit |-> NoNit, token |-> 0]

Init ==
  /\ prospects = [p \in Prospects |-> [status |-> "none", email |-> NoEmail, nit |-> NoNit]]
  /\ users = [e \in Emails |-> [status |-> "none", token |-> 0]]
  /\ members = {} /\ companies = {} /\ warehouses = {} /\ mails = {}
  /\ lastToken = 0
  /\ pc = [w \in Clerks |-> "idle"]
  /\ job = [w \in Clerks |-> Idle]

Goto(w, step) == pc' = [pc EXCEPT ![w] = step]

End(w) ==
  /\ Goto(w, "idle")
  /\ job' = [job EXCEPT ![w] = Idle]

\* A statement that is applied may still end the request: its reply was lost.
Lost(w) == "database" \in Faults[w] /\ End(w)

\* A statement was applied and the request goes on with the next.
Goes(w, step) == (Goto(w, step) /\ UNCHANGED job) \/ Lost(w)

Takes(w, request) == pc[w] = "idle" /\ request \in Duties[w]

\* A request begins at a step; j are the locals it has by then.
Begin(w, step, j) ==
  /\ Goto(w, step)
  /\ job' = [job EXCEPT ![w] = j]
  /\ UNCHANGED database

-----------------------------------------------------------------------------
(* Prospects.                                                              *)

\* email is UNIQUE: a second request with the same address is turned away.
Submit(p, e, n) ==
  /\ prospects[p].status = "none"
  /\ \A q \in Prospects : prospects[q].email # e
  /\ prospects' = [prospects EXCEPT ![p] = [status |-> "pending", email |-> e, nit |-> n]]
  /\ UNCHANGED <<users, members, companies, warehouses, mails, lastToken, pc, job>>

handleSubmitProspect(w, p, e, n) == Takes(w, "submit") /\ Submit(p, e, n)

Approve(w, p) ==
  /\ prospects[p].status = "pending"
  /\ Begin(w, "user", [Idle EXCEPT !.prospect = p, !.email = prospects[p].email,
                                   !.nit = prospects[p].nit])

handleApproveProspect(w, p) == Takes(w, "approve") /\ Approve(w, p)

Reject(w, p) ==
  /\ prospects[p].status = "pending"
  /\ Begin(w, "reject", [Idle EXCEPT !.prospect = p])

handleRejectProspect(w, p) == Takes(w, "reject") /\ Reject(w, p)

\* UpdateStatus does not look at the status again.
Decide(w, step, status) ==
  /\ pc[w] = step
  /\ prospects' = [prospects EXCEPT ![job[w].prospect].status = status]
  /\ End(w)
  /\ UNCHANGED <<users, members, companies, warehouses, mails, lastToken>>

ApproveStatus(w) == Decide(w, "approve", "approved")
RejectStatus(w)  == Decide(w, "reject", "rejected")

-----------------------------------------------------------------------------
(* InviteOwner: a new user, or a new token for one that is not in use yet. *)

InviteOwner(w) ==
  /\ pc[w] = "user"
  /\ LET status == users[job[w].email].status IN
     \/ status = "none" /\ Goto(w, "owner") /\ UNCHANGED job
     \/ status = "invited" /\ Goto(w, "memberships") /\ UNCHANGED job
     \/ status = "active" /\ End(w)
  /\ UNCHANGED database

CompaniesOf(e) == {m \in members : m.email = e}

ListCompanyIDs(w) ==
  /\ pc[w] = "memberships"
  /\ \/ CompaniesOf(job[w].email) = {} /\ Goto(w, "token") /\ UNCHANGED job
     \/ CompaniesOf(job[w].email) # {} /\ End(w)
  /\ UNCHANGED database

\* The user row is written with a new token, and the request goes on.
WriteToken(w, u, step) ==
  /\ lastToken < MaxTokens
  /\ lastToken' = lastToken + 1
  /\ users' = [users EXCEPT ![job[w].email] = u]
  /\ \/ Goto(w, step) /\ job' = [job EXCEPT ![w].token = lastToken + 1]
     \/ Lost(w)

\* email is UNIQUE: of two that save the same user one fails.
SaveOwner(w) ==
  /\ pc[w] = "owner"
  /\ \/ /\ users[job[w].email].status = "none"
        /\ WriteToken(w, [status |-> "invited", token |-> lastToken + 1], "nit")
     \/ users[job[w].email].status # "none" /\ End(w) /\ UNCHANGED <<users, lastToken>>
  /\ UNCHANGED <<prospects, members, companies, warehouses, mails>>

\* Variant: the token that is answered is not the one in the row.
SetInviteTokenForgotten(w) ==
  /\ pc[w] = "token"
  /\ WriteToken(w, users[job[w].email], "nit")
  /\ UNCHANGED <<prospects, members, companies, warehouses, mails>>

\* UpdateProfile and SetInviteToken.
SetInviteToken(w) ==
  /\ pc[w] = "token"
  /\ WriteToken(w, [users[job[w].email] EXCEPT !.token = lastToken + 1], "nit")
  /\ UNCHANGED <<prospects, members, companies, warehouses, mails>>

-----------------------------------------------------------------------------
(* The company of an owner: from Approve, or asked for by a user.          *)

CreateCompany(w, e, n) ==
  /\ users[e].status = "active"
  /\ Begin(w, "nit", [Idle EXCEPT !.email = e, !.nit = n])

handleCreate(w, e, n) == Takes(w, "company") /\ CreateCompany(w, e, n)

GetByNIT(w) ==
  /\ pc[w] = "nit"
  /\ \/ job[w].nit \notin companies /\ Goto(w, "company") /\ UNCHANGED job
     \/ job[w].nit \in companies /\ End(w)
  /\ UNCHANGED database

\* Variant: the row is there, and nit is not UNIQUE.
SaveCompanyAgain(w) ==
  /\ pc[w] = "company"
  /\ companies' = companies \cup {job[w].nit}
  /\ Goes(w, "link")
  /\ UNCHANGED <<prospects, users, members, warehouses, mails, lastToken>>

SaveCompany(w) ==
  /\ pc[w] = "company"
  /\ \/ /\ job[w].nit \notin companies
        /\ companies' = companies \cup {job[w].nit}
        /\ Goes(w, "link")
     \/ job[w].nit \in companies /\ End(w) /\ UNCHANGED companies
  /\ UNCHANGED <<prospects, users, members, warehouses, mails, lastToken>>

\* ON CONFLICT (user_id, company_id) DO NOTHING.
MembersWith(w, role) ==
  IF \E m \in members : m.email = job[w].email /\ m.nit = job[w].nit THEN members
  ELSE members \cup {[email |-> job[w].email, nit |-> job[w].nit, role |-> role]}

AddCompany(w) ==
  /\ pc[w] = "link"
  /\ members' = MembersWith(w, "owner")
  /\ Goes(w, "warehouse")
  /\ UNCHANGED <<prospects, users, companies, warehouses, mails, lastToken>>

\* Variant: an error of the warehouse does not stop the request.
GetOrCreateDefaultIgnored(w) ==
  /\ pc[w] = "warehouse"
  /\ warehouses' = warehouses \cup {job[w].nit} \/ warehouses' = warehouses
  /\ IF job[w].prospect = NoProspect THEN End(w) ELSE Goes(w, "mail")
  /\ UNCHANGED <<prospects, users, members, companies, mails, lastToken>>

GetOrCreateDefault(w) ==
  /\ pc[w] = "warehouse"
  /\ warehouses' = warehouses \cup {job[w].nit}
  /\ IF job[w].prospect = NoProspect THEN End(w) ELSE Goes(w, "mail")
  /\ UNCHANGED <<prospects, users, members, companies, mails, lastToken>>

\* The mail goes out, or does not; an error ends the request in both cases.
SendInvitation(w) ==
  /\ pc[w] = "mail"
  /\ \/ /\ mails' = mails \cup {[to |-> job[w].email, token |-> job[w].token]}
        /\ \/ Goto(w, "approve") /\ UNCHANGED job
           \/ "mail" \in Faults[w] /\ End(w)
     \/ "mail" \in Faults[w] /\ End(w) /\ UNCHANGED mails
  /\ UNCHANGED <<prospects, users, members, companies, warehouses, lastToken>>

-----------------------------------------------------------------------------
(* Other ways to an account.                                               *)

Register(w, e) ==
  /\ users[e].status = "none"
  /\ Begin(w, "register", [Idle EXCEPT !.email = e])

handleRegister(w, e) == Takes(w, "register") /\ Register(w, e)

SaveRegistered(w) ==
  /\ pc[w] = "register"
  /\ users' = IF users[job[w].email].status = "none"
              THEN [users EXCEPT ![job[w].email] = [status |-> "active", token |-> 0]]
              ELSE users
  /\ End(w)
  /\ UNCHANGED <<prospects, members, companies, warehouses, mails, lastToken>>

\* A member of a company invites another to it.
InviteUser(w, e, n) ==
  /\ \E m \in members : m.nit = n
  /\ users[e].status = "none"
  /\ Begin(w, "invite", [Idle EXCEPT !.email = e, !.nit = n])

handleInvite(w, e, n) == Takes(w, "invite") /\ InviteUser(w, e, n)

SaveInvited(w) ==
  /\ pc[w] = "invite"
  /\ \/ /\ users[job[w].email].status = "none"
        /\ WriteToken(w, [status |-> "invited", token |-> lastToken + 1], "member")
     \/ users[job[w].email].status # "none" /\ End(w) /\ UNCHANGED <<users, lastToken>>
  /\ UNCHANGED <<prospects, members, companies, warehouses, mails>>

AddMember(w) ==
  /\ pc[w] = "member"
  /\ members' = MembersWith(w, "member")
  /\ End(w)
  /\ UNCHANGED <<prospects, users, companies, warehouses, mails, lastToken>>

\* With the token that is in the row, before it expires.
AcceptInvite(w, e) ==
  /\ users[e].token # 0
  /\ Begin(w, "password", [Idle EXCEPT !.email = e])

handleAcceptInvite(w, e) == Takes(w, "accept") /\ AcceptInvite(w, e)

\* By the id of the user: the token is not looked at again.
SetPassword(w) ==
  /\ pc[w] = "password"
  /\ users' = [users EXCEPT ![job[w].email] = [status |-> "active", token |-> 0]]
  /\ End(w)
  /\ UNCHANGED <<prospects, members, companies, warehouses, mails, lastToken>>

-----------------------------------------------------------------------------

\* A statement is not applied and the request answers with its error.
StatementFails(w) ==
  /\ "database" \in Faults[w]
  /\ pc[w] # "idle"
  /\ End(w)
  /\ UNCHANGED database

Crash(w) ==
  /\ "crash" \in Faults[w]
  /\ pc[w] # "idle"
  /\ End(w)
  /\ UNCHANGED database

ProspectStep(w) ==
  \/ \E p \in Prospects :
       \/ \E e \in Emails, n \in Nits : handleSubmitProspect(w, p, e, n)
       \/ handleApproveProspect(w, p) \/ handleRejectProspect(w, p)
  \/ ApproveStatus(w) \/ RejectStatus(w)

OwnerStep(w) ==
  \/ InviteOwner(w) \/ ListCompanyIDs(w) \/ SaveOwner(w) \/ SetInviteToken(w)

CompanyStep(w) ==
  \/ \E e \in Emails, n \in Nits : handleCreate(w, e, n)
  \/ GetByNIT(w) \/ SaveCompany(w) \/ AddCompany(w) \/ GetOrCreateDefault(w)
  \/ SendInvitation(w)

AccountStep(w) ==
  \/ \E e \in Emails : \/ handleRegister(w, e) \/ handleAcceptInvite(w, e)
                       \/ \E n \in Nits : handleInvite(w, e, n)
  \/ SaveRegistered(w) \/ SaveInvited(w) \/ AddMember(w) \/ SetPassword(w)

Failure(w) == StatementFails(w) \/ Crash(w)

Next ==
  \E w \in Clerks : \/ ProspectStep(w) \/ OwnerStep(w) \/ CompanyStep(w)
                    \/ AccountStep(w) \/ Failure(w)

Spec == Init /\ [][Next]_vars

-----------------------------------------------------------------------------
(* Properties.                                                             *)

TypeOK ==
  /\ prospects \in [Prospects -> ProspectRows]
  /\ users \in [Emails -> Users]
  /\ members \subseteq Members
  /\ companies \subseteq Nits /\ warehouses \subseteq Nits
  /\ mails \subseteq Mails
  /\ lastToken \in Nat
  /\ pc \in [Clerks -> Steps]
  /\ job \in [Clerks -> Jobs]

\* Whoever is approved has all of it, whatever failed on the way and whoever else
\* made accounts and companies meanwhile: the user, the company, which is his as the
\* owner, its warehouse and an invitation.
Provisioned(e, n) ==
  /\ users[e].status # "none"
  /\ n \in warehouses
  /\ [email |-> e, nit |-> n, role |-> "owner"] \in members

ApprovedIsProvisioned ==
  \A p \in Prospects : prospects[p].status = "approved" =>
    /\ Provisioned(prospects[p].email, prospects[p].nit)
    /\ \E m \in mails : m.to = prospects[p].email

\* A company has one owner, and members only once it has a row; there is a warehouse
\* only for a company that has its owner.
OneOwner ==
  /\ \A l, m \in members : l.nit = m.nit /\ l.role = "owner" /\ m.role = "owner" => l = m
  /\ \A m \in members : m.nit \in companies
  /\ \A n \in warehouses : \E m \in members : m.nit = n /\ m.role = "owner"

\* One goroutine at a time decides on prospects.  The code does not see to it.
OneReviewer ==
  \A v, w \in Clerks :
    {"approve", "reject"} \cap Duties[v] # {} /\ {"approve", "reject"} \cap Duties[w] # {} => v = w

\* The owner of an approved company can enter: the token of an invitation that was
\* mailed is the one in his row, whatever attempts failed before, or he has a
\* password.  Nobody can mail it again: Approve refuses what is not pending.
OwnerCanEnter ==
  OneReviewer =>
    \A p \in Prospects : prospects[p].status = "approved" =>
      LET u == users[prospects[p].email] IN
      u.status = "active" \/ [to |-> prospects[p].email, token |-> u.token] \in mails

\* What was decided on a prospect stays: nobody is approved who was rejected.
DecidedOnce ==
  [][OneReviewer => \A p \in Prospects : prospects[p].status \in {"approved", "rejected"} =>
       prospects'[p] = prospects[p]]_vars

-----------------------------------------------------------------------------
(* The inductive invariant.                                                *)

Reviewing(w) == job[w].prospect # NoProspect
Creating(w)  == pc[w] \in {"nit", "company", "link", "warehouse", "mail", "approve"}
OwnerOf(w)   == [email |-> job[w].email, nit |-> job[w].nit, role |-> "owner"]

LocalsOK ==
  \A w \in Clerks :
    /\ pc[w] \notin {"idle", "reject"} => job[w].email \in Emails
    /\ pc[w] \notin {"idle", "reject", "register", "password"} => job[w].nit \in Nits
    /\ pc[w] \in {"user", "owner", "memberships", "token", "mail", "approve", "reject"} => Reviewing(w)
    /\ pc[w] \in {"idle", "register", "invite", "member", "password"} => ~Reviewing(w)
    /\ Reviewing(w) =>
         /\ Duties[w] \cap {"approve", "reject"} # {}
         /\ prospects[job[w].prospect].status # "none"
         /\ pc[w] # "reject" => /\ job[w].email = prospects[job[w].prospect].email
                                /\ job[w].nit = prospects[job[w].prospect].nit
    /\ Creating(w) \/ pc[w] \in {"memberships", "token"} => users[job[w].email].status # "none"

ProspectInv ==
  /\ \A p \in Prospects : prospects[p].status # "none" =>
       prospects[p].email \in Emails /\ prospects[p].nit \in Nits
  /\ \A p, q \in Prospects : prospects[p].status # "none" /\ prospects[q].status # "none"
                               /\ prospects[p].email = prospects[q].email => p = q

\* Who creates a company has seen to all of it up to where he is, and a company that
\* has no owner yet has no members at all.
CompanyInv ==
  /\ OneOwner
  /\ \A w \in Clerks :
       /\ pc[w] = "link" =>
            /\ job[w].nit \in companies
            /\ \A m \in members : m.nit # job[w].nit
            /\ \A v \in Clerks : pc[v] = "link" /\ job[v].nit = job[w].nit => v = w
       /\ pc[w] \in {"warehouse", "mail", "approve"} => OwnerOf(w) \in members
       /\ pc[w] \in {"mail", "approve"} => job[w].nit \in warehouses
       /\ pc[w] = "approve" => \E m \in mails : m.to = job[w].email
       /\ pc[w] \in {"invite", "member"} => \E m \in members : m.nit = job[w].nit

\* The reviewer decides on a prospect that is pending, and the token it is about to
\* mail, or has mailed, is the one in the row.
ReviewerInv ==
  /\ OwnerCanEnter
  /\ \A w \in Clerks : Reviewing(w) =>
       /\ prospects[job[w].prospect].status = "pending"
       /\ Creating(w) => LET u == users[job[w].email] IN
            \/ u.status = "active"
            \/ u.token = job[w].token /\ (pc[w] = "approve" => [to |-> job[w].email, token |-> u.token] \in mails)

OnboardingInv ==
  /\ TypeOK
  /\ LocalsOK
  /\ ProspectInv
  /\ ApprovedIsProvisioned
  /\ CompanyInv
  /\ (OneReviewer => ReviewerInv)
=============================================================================
