---------------------------- MODULE Subscriptions ----------------------------
(***************************************************************************)
(* The plans of the platform and the subscriptions of its companies        *)
(* (saas/application/plan.go, subscription.go and their repositories).     *)
(*                                                                         *)
(* Nothing here is a transaction over two statements: a change of plan     *)
(* cancels and then creates, a renewal reads the subscription, reads the   *)
(* plan and writes, and an increment writes the whole row of a plan as it  *)
(* was read.  Time is counted in months and stands still between ticks.    *)
(***************************************************************************)
EXTENDS Desks, Integers, FiniteSets

CONSTANTS
  Companies, Plans,
  Subs,      \* identifiers of subscriptions
  Offers,    \* the rows a superadmin writes for a plan
  Increment, \* annual_increment_pct, above zero
  MaxPrice,  \* bound on increments
  MaxMonth,  \* bound on the clock
  MaxEnd,    \* bound on the renewals: the latest end they reach
  NoCompany, NoPlan, NoSub

PlanRequests == {"update", "increment", "assign", "renew"}

\* length: months of a period, by billing_cycle; certificate: its price, 0 when the
\* plan requires none.
PlanRows == [price : Nat, certificate : Nat, length : Nat \ {0}, active : BOOLEAN]

ASSUME SubscriptionsAssumption ==
  /\ Offers \subseteq PlanRows
  /\ Increment \in Nat \ {0} /\ MaxPrice \in Nat /\ MaxMonth \in Nat /\ MaxEnd \in Nat
  /\ NoCompany \notin Companies /\ NoPlan \notin Plans /\ NoSub \notin Subs

VARIABLES
  plans,  \* saas.plans
  subs,   \* saas.subscriptions
  now

saas == <<plans, subs, now>>
subscriptionsVars == <<duties, plans, subs, now, pc, job>>

SubRows == [status : {"none", "active", "cancelled"}, company : Companies \cup {NoCompany},
            plan : Plans \cup {NoPlan}, own : BOOLEAN, price : Nat, end : Nat]

NoSubRow == [status |-> "none", company |-> NoCompany, plan |-> NoPlan, own |-> FALSE,
             price |-> 0, end |-> 0]

SubSteps == {"idle", "write", "cancel", "create", "plan", "renew"}

\* months: the length of a period, as it was read; row: a plan as it was read.
SubJobs == [company : Companies \cup {NoCompany}, plan : Plans \cup {NoPlan},
            sub : Subs \cup {NoSub}, own : BOOLEAN, price : Nat, end : Nat, months : Nat,
            row : PlanRows]

Blank == [price |-> 0, certificate |-> 0, length |-> 1, active |-> FALSE]
NoJob == [company |-> NoCompany, plan |-> NoPlan, sub |-> NoSub, own |-> FALSE,
          price |-> 0, end |-> 0, months |-> 0, row |-> Blank]

SubscriptionsInit ==
  /\ duties \in Shifts
  /\ plans \in [Plans -> {o \in Offers : o.active}]
  /\ subs = [s \in Subs |-> NoSubRow]
  /\ now = 0
  /\ pc = [w \in Clerks |-> "idle"]
  /\ job = [w \in Clerks |-> NoJob]

Finish(w) == Goes(w, "idle", NoJob)

-----------------------------------------------------------------------------
(* Plans.                                                                  *)

\* Every column, in one transaction.
UpdatePlan(p, o) ==
  /\ plans' = [plans EXCEPT ![p] = o]
  /\ UNCHANGED <<subs, now, pc, job>>

handleUpdatePlan(w, p, o) == Takes(w, "update") /\ UpdatePlan(p, o)

ApplyIncrement(w, p) ==
  /\ Goes(w, "write", [NoJob EXCEPT !.plan = p, !.row = plans[p]])
  /\ UNCHANGED saas

handleApplyIncrement(w, p) == Takes(w, "increment") /\ ApplyIncrement(w, p)

\* The fraction of a cent is cut off.
Raised(price) == price + (price * Increment) \div 100

\* The whole row goes back as it was read.
WriteIncrement(w) ==
  /\ pc[w] = "write"
  /\ Raised(job[w].row.price) <= MaxPrice
  /\ plans' = [plans EXCEPT ![job[w].plan] =
                 [job[w].row EXCEPT !.price = Raised(job[w].row.price)]]
  /\ Finish(w)
  /\ UNCHANGED <<subs, now>>

-----------------------------------------------------------------------------
(* Subscriptions.                                                          *)

Active(c) == {s \in Subs : subs[s].status = "active" /\ subs[s].company = c}

\* A certificate that the company brings is not charged.
ContractedPrice(row, own) == row.price + IF own THEN 0 ELSE row.certificate

Later(a, b) == IF a > b THEN a ELSE b

Assign(w, c, p, own) ==
  /\ plans[p].active
  /\ Goes(w, "cancel", [NoJob EXCEPT !.company = c, !.plan = p, !.own = own,
                                     !.months = plans[p].length,
                                     !.price = ContractedPrice(plans[p], own)])
  /\ UNCHANGED saas

handleAssignSubscription(w, c, p, own) == Takes(w, "assign") /\ Assign(w, c, p, own)

\* Whatever is active of the company.  The clock is read when the statement is back.
CancelActive(w) ==
  /\ pc[w] = "cancel"
  /\ subs' = [s \in Subs |-> IF s \in Active(job[w].company)
                             THEN [subs[s] EXCEPT !.status = "cancelled"] ELSE subs[s]]
  /\ \/ Goes(w, "create", [job[w] EXCEPT !.end = now + job[w].months])
     \/ "failure" \in Faults[w] /\ Finish(w)
  /\ UNCHANGED <<plans, now>>

NewSub(j) == [status |-> "active", company |-> j.company, plan |-> j.plan, own |-> j.own,
              price |-> j.price, end |-> j.end]

\* Variant: there is no index.
CreateSubAgain(w) ==
  /\ pc[w] = "create"
  /\ \E s \in Subs : /\ subs[s].status = "none"
                     /\ subs' = [subs EXCEPT ![s] = NewSub(job[w])]
  /\ Finish(w)
  /\ UNCHANGED <<plans, now>>

\* uq_saas_subscriptions_active_company turns a second active row away.
CreateSub(w) ==
  /\ pc[w] = "create"
  /\ \/ /\ Active(job[w].company) = {}
        /\ \E s \in Subs : /\ subs[s].status = "none"
                           /\ subs' = [subs EXCEPT ![s] = NewSub(job[w])]
     \/ Active(job[w].company) # {} /\ UNCHANGED subs
  /\ Finish(w)
  /\ UNCHANGED <<plans, now>>

Renew(w, c) ==
  /\ \E s \in Active(c) :
       Goes(w, "plan", [NoJob EXCEPT !.company = c, !.sub = s, !.plan = subs[s].plan,
                                     !.own = subs[s].own, !.end = subs[s].end])
  /\ UNCHANGED saas

handleRenewSubscription(w, c) == Takes(w, "renew") /\ Renew(w, c)

\* Variant: the new period begins today.
RenewedPeriodFromToday(w) ==
  /\ pc[w] = "plan"
  /\ LET row == plans[job[w].plan] IN
     Goes(w, "renew", [job[w] EXCEPT !.price = ContractedPrice(row, job[w].own),
                                     !.end = now + row.length])
  /\ UNCHANGED saas

\* From the end of the paid period, or from today if that has passed, at the plan's
\* price of today; the plan may be inactive by now.
RenewedPeriod(w) ==
  /\ pc[w] = "plan"
  /\ LET row == plans[job[w].plan] IN
     Goes(w, "renew", [job[w] EXCEPT !.price = ContractedPrice(row, job[w].own),
                                     !.end = Later(job[w].end, now) + row.length])
  /\ UNCHANGED saas

Renewed(j) == [subs[j.sub] EXCEPT !.status = "active", !.price = j.price, !.end = j.end]

\* By id: a subscription that was cancelled meanwhile is active again, unless the
\* index turns it away because another one is.
RenewSub(w) ==
  /\ pc[w] = "renew"
  /\ job[w].end <= MaxEnd
  /\ \/ /\ Active(job[w].company) \subseteq {job[w].sub}
        /\ subs' = [subs EXCEPT ![job[w].sub] = Renewed(job[w])]
     \/ ~(Active(job[w].company) \subseteq {job[w].sub}) /\ UNCHANGED subs
  /\ Finish(w)
  /\ UNCHANGED <<plans, now>>

-----------------------------------------------------------------------------

\* A statement is not applied and the request answers with its error; one whose reply
\* is lost was the last of its request, or ends it (CancelActive).
StatementFails(w) ==
  /\ "failure" \in Faults[w]
  /\ pc[w] # "idle"
  /\ Finish(w)
  /\ UNCHANGED saas

SubscriptionCrash(w) ==
  /\ "crash" \in Faults[w]
  /\ pc[w] # "idle"
  /\ Finish(w)
  /\ UNCHANGED saas

Tick ==
  /\ now < MaxMonth
  /\ now' = now + 1
  /\ UNCHANGED <<plans, subs, pc, job>>

PlanStep(w) ==
  \/ \E p \in Plans : handleApplyIncrement(w, p) \/ (\E o \in Offers : handleUpdatePlan(w, p, o))
  \/ WriteIncrement(w)

SubscriptionStep(w) ==
  \/ \E c \in Companies : \/ handleRenewSubscription(w, c)
                          \/ \E p \in Plans, own \in BOOLEAN : handleAssignSubscription(w, c, p, own)
  \/ CancelActive(w) \/ CreateSub(w) \/ RenewedPeriod(w) \/ RenewSub(w)

SubscriptionFailure(w) == StatementFails(w) \/ SubscriptionCrash(w)

SubscriptionsNext ==
  /\ Tick \/ \E w \in Clerks : PlanStep(w) \/ SubscriptionStep(w) \/ SubscriptionFailure(w)
  /\ UNCHANGED duties

SubscriptionsSpec == SubscriptionsInit /\ [][SubscriptionsNext]_subscriptionsVars

-----------------------------------------------------------------------------
(* Properties.                                                             *)

SubscriptionsTypeOK ==
  /\ duties \in Shifts
  /\ plans \in [Plans -> PlanRows]
  /\ subs \in [Subs -> SubRows]
  /\ now \in Nat
  /\ pc \in [Clerks -> SubSteps]
  /\ job \in [Clerks -> SubJobs]

Changing(c) == \E w \in Clerks : pc[w] = "create" /\ job[w].company = c

\* Whoever changes the plan of a company does it to the end.  A crash or a failure
\* between the two statements leaves the company without a plan.
ChangesComplete == \A w \in Clerks : "assign" \in duties[w] => Faults[w] = {}

\* A company that has had a plan has exactly one, whoever else changes or renews it at
\* the same time, except between the two statements of a change.
AlwaysOnePlan ==
  \A c \in Companies :
    /\ \A s, t \in Active(c) : s = t
    /\ ChangesComplete /\ ~Changing(c) /\ (\E s \in Subs : subs[s].company = c) => Active(c) # {}

\* A period that is paid for is never taken back, and its price does not change: what
\* a subscription costs changes only with a later end (plan.go:58, "no es retroactivo").
\* Two renewals at a time may write the same end with two prices, or an earlier one.
NotRetroactive ==
  [][OneAt({"renew"}) => \A s \in Subs :
       subs[s].status # "none" /\ (subs'[s].price # subs[s].price \/ subs'[s].end # subs[s].end)
         => subs'[s].end > subs[s].end]_subscriptionsVars

\* With all requests served one at a time, a subscription is made or renewed at what
\* its plan costs then, and made only of a plan that is on offer.  With an increment
\* or an edit between the reading of the plan and the write it is not.
PriceIsCurrent ==
  [][OneAt(PlanRequests) => \A s \in Subs :
       subs'[s].end # subs[s].end =>
         LET row == plans[subs'[s].plan] IN
         /\ subs'[s].price = ContractedPrice(row, subs'[s].own)
         /\ subs[s].status = "none" => row.active]_subscriptionsVars

\* An increment leaves everything of the plan but the price as it is, and never lowers
\* that.  With an edit in between it undoes the edit: a plan withdrawn is on offer again.
IncrementOnlyRaises ==
  [][OneAt({"update", "increment"}) =>
       \A p \in Plans : (\E w \in Clerks : WriteIncrement(w)) =>
         /\ [plans'[p] EXCEPT !.price = 0] = [plans[p] EXCEPT !.price = 0]
         /\ plans'[p].price >= plans[p].price]_subscriptionsVars

-----------------------------------------------------------------------------
(* The inductive invariant.                                                *)

\* Who is at which step, and whose rows it has read.
LocalsOK ==
  \A w \in Clerks :
    /\ pc[w] = "write" => job[w].plan \in Plans /\ "increment" \in duties[w]
    /\ pc[w] \in {"cancel", "create"} =>
         job[w].company \in Companies /\ job[w].plan \in Plans /\ "assign" \in duties[w]
    /\ pc[w] = "cancel" => job[w].months > 0
    /\ pc[w] \in {"plan", "renew"} =>
         /\ "renew" \in duties[w]
         /\ job[w].sub \in Subs /\ job[w].plan \in Plans
         /\ LET s == subs[job[w].sub] IN
            s.status # "none" /\ s.company = job[w].company /\ s.plan = job[w].plan /\ s.own = job[w].own

RowsOK ==
  \A s \in Subs : (subs[s].status = "none" <=> subs[s].company = NoCompany)
                 /\ (subs[s].status # "none" => subs[s].plan \in Plans)

\* Nobody else renews what a request that renews has read.
RenewalsInv ==
  \A w \in Clerks :
    /\ pc[w] = "plan" => subs[job[w].sub].end = job[w].end
    /\ pc[w] = "renew" => subs[job[w].sub].end < job[w].end

\* Nobody else touches a plan that an increment has read.
IncrementsInv == \A w \in Clerks : pc[w] = "write" => job[w].row = plans[job[w].plan]

\* Nor one that a subscription is about to be priced by.
PricesInv ==
  \A w \in Clerks : pc[w] \in {"cancel", "create", "renew"} =>
    LET row == plans[job[w].plan] IN
    /\ job[w].price = ContractedPrice(row, job[w].own)
    /\ pc[w] # "renew" => row.active

SubscriptionsInv ==
  /\ SubscriptionsTypeOK
  /\ LocalsOK
  /\ RowsOK
  /\ AlwaysOnePlan
  /\ (OneAt({"renew"}) => RenewalsInv)
  /\ (OneAt({"update", "increment"}) => IncrementsInv)
  /\ (OneAt(PlanRequests) => PricesInv)
=============================================================================
