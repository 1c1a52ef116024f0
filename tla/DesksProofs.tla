----------------------------- MODULE DesksProofs -----------------------------
(***************************************************************************)
(* Theorems about Subscriptions and FrontOffice, the modules built on      *)
(* Desks: for every number of rows of each kind and of concurrent          *)
(* requests, every division of the requests among the goroutines and every *)
(* choice of Faults.                                                       *)
(***************************************************************************)
EXTENDS Subscriptions, FrontOffice, TLAPS

\* A step of w leaves the locals of all other requests alone.
Others(w) == \A v \in Clerks \ {w} : pc'[v] = pc[v] /\ job'[v] = job[v]

-----------------------------------------------------------------------------
(* Plans and subscriptions.                                                *)

PlatformStep(w) == PlanStep(w) \/ SubscriptionStep(w) \/ SubscriptionFailure(w)

\* What a step does to the request that takes it keeps the types.
Moved(w) ==
  /\ pc' \in [Clerks -> SubSteps] /\ job' \in [Clerks -> SubJobs]
  /\ Others(w)

LEMMA IdleType == NoJob \in SubJobs
BY DEF NoJob, SubJobs, Blank, PlanRows

LEMMA FinishMoves ==
  ASSUME SubscriptionsTypeOK, NEW w \in Clerks, Finish(w)
  PROVE  Moved(w) /\ pc'[w] = "idle" /\ job'[w] = NoJob
BY IdleType DEF SubscriptionsTypeOK, Finish, Goes, Goto, Moved, Others, SubSteps

LEMMA GoesMoves ==
  ASSUME SubscriptionsTypeOK, NEW w \in Clerks, NEW p \in SubSteps, NEW j \in SubJobs, Goes(w, p, j)
  PROVE  Moved(w) /\ pc'[w] = p /\ job'[w] = j
BY DEF SubscriptionsTypeOK, Goes, Goto, Moved, Others

-----------------------------------------------------------------------------
(* Each action, with what it does to the request that takes it: these are  *)
(* the only facts about the actions that the invariants below rely on.     *)

LEMMA Price ==
  ASSUME NEW row \in PlanRows, NEW own \in BOOLEAN
  PROVE  ContractedPrice(row, own) \in Nat
BY DEF PlanRows, ContractedPrice

LEMMA RaisedPrice ==
  ASSUME NEW price \in Nat
  PROVE  Raised(price) \in Nat /\ Raised(price) >= price
<1>1. Increment \in Nat
  BY SubscriptionsAssumption
<1>2. price * Increment \in Nat
  BY <1>1
<1>3. (price * Increment) \div 100 \in Nat
  BY <1>2
<1> QED
  BY <1>3 DEF Raised

LEMMA ApplyIncrementMoves ==
  ASSUME SubscriptionsTypeOK, NEW w \in Clerks, NEW p \in Plans, handleApplyIncrement(w, p)
  PROVE  /\ Moved(w) /\ UNCHANGED saas
         /\ pc'[w] = "write" /\ job'[w] = [NoJob EXCEPT !.plan = p, !.row = plans[p]]
<1>1. [NoJob EXCEPT !.plan = p, !.row = plans[p]] \in SubJobs /\ "write" \in SubSteps
  BY IdleType DEF SubscriptionsTypeOK, SubJobs, NoJob, SubSteps
<1> QED
  BY <1>1, GoesMoves DEF handleApplyIncrement, ApplyIncrement

LEMMA AssignMoves ==
  ASSUME SubscriptionsTypeOK, NEW w \in Clerks, NEW c \in Companies, NEW p \in Plans,
         \E own \in BOOLEAN : handleAssignSubscription(w, c, p, own)
  PROVE  /\ Moved(w) /\ UNCHANGED saas
         /\ pc[w] = "idle" /\ "assign" \in duties[w] /\ plans[p].active
         /\ pc'[w] = "cancel"
         /\ job'[w].company = c /\ job'[w].plan = p
         /\ job'[w].months = plans[p].length /\ job'[w].months > 0
         /\ job'[w].price = ContractedPrice(plans[p], job'[w].own)
<1>1. plans[p] \in PlanRows /\ plans[p].length \in Nat /\ plans[p].length > 0
  BY DEF SubscriptionsTypeOK, PlanRows
<1>2. PICK own \in BOOLEAN : handleAssignSubscription(w, c, p, own)
  OBVIOUS
<1>3. ContractedPrice(plans[p], own) \in Nat
  BY <1>1, <1>2, Price
<1> DEFINE j == [NoJob EXCEPT !.company = c, !.plan = p, !.own = own, !.months = plans[p].length,
                             !.price = ContractedPrice(plans[p], own)]
<1>4. j \in SubJobs /\ "cancel" \in SubSteps
  BY <1>1, <1>2, <1>3, IdleType DEF SubJobs, NoJob, SubSteps
<1>5. /\ j.company = c /\ j.plan = p /\ j.own = own
      /\ j.months = plans[p].length /\ j.price = ContractedPrice(plans[p], own)
  BY DEF NoJob
<1>6. Goes(w, "cancel", j) /\ UNCHANGED saas
  BY <1>2 DEF handleAssignSubscription, Assign
<1> HIDE DEF j
<1>7. Moved(w) /\ pc'[w] = "cancel" /\ job'[w] = j
  BY <1>4, <1>6, GoesMoves
<1> QED
  BY <1>1, <1>2, <1>5, <1>6, <1>7 DEF handleAssignSubscription, Assign, Takes

LEMMA RenewMoves ==
  ASSUME SubscriptionsTypeOK, RowsOK, NEW w \in Clerks, NEW c \in Companies,
         handleRenewSubscription(w, c)
  PROVE  /\ Moved(w) /\ UNCHANGED saas
         /\ pc'[w] = "plan"
         /\ \E s \in Active(c) :
              job'[w] = [NoJob EXCEPT !.company = c, !.sub = s, !.plan = subs[s].plan,
                                     !.own = subs[s].own, !.end = subs[s].end]
<1>1. PICK s \in Active(c) :
        Goes(w, "plan", [NoJob EXCEPT !.company = c, !.sub = s, !.plan = subs[s].plan,
                                     !.own = subs[s].own, !.end = subs[s].end])
  BY DEF handleRenewSubscription, Renew
<1>2. s \in Subs /\ subs[s] \in SubRows
  BY <1>1 DEF Active, SubscriptionsTypeOK
<1>3. [NoJob EXCEPT !.company = c, !.sub = s, !.plan = subs[s].plan, !.own = subs[s].own,
                   !.end = subs[s].end] \in SubJobs /\ "plan" \in SubSteps
  BY <1>2, IdleType DEF SubJobs, NoJob, SubSteps, SubRows
<1>4. /\ Moved(w) /\ pc'[w] = "plan"
      /\ job'[w] = [NoJob EXCEPT !.company = c, !.sub = s, !.plan = subs[s].plan,
                                !.own = subs[s].own, !.end = subs[s].end]
  BY <1>1, <1>3, GoesMoves
<1> QED
  BY <1>1, <1>4 DEF handleRenewSubscription, Renew

LEMMA CancelActiveMoves ==
  ASSUME SubscriptionsTypeOK, NEW w \in Clerks, CancelActive(w)
  PROVE  /\ Moved(w)
         /\ \/ /\ pc'[w] = "create"
               /\ job'[w] = [job[w] EXCEPT !.end = now + job[w].months]
            \/ "failure" \in Faults[w] /\ pc'[w] = "idle" /\ job'[w] = NoJob
<1>1. [job[w] EXCEPT !.end = now + job[w].months] \in SubJobs /\ "create" \in SubSteps
  BY DEF SubscriptionsTypeOK, SubJobs, SubSteps
<1> QED
  BY <1>1, GoesMoves, FinishMoves DEF CancelActive

LEMMA RenewedPeriodMoves ==
  ASSUME SubscriptionsTypeOK, LocalsOK, NEW w \in Clerks, RenewedPeriod(w)
  PROVE  /\ Moved(w) /\ UNCHANGED saas
         /\ pc'[w] = "renew"
         /\ job'[w] = [job[w] EXCEPT
                         !.price = ContractedPrice(plans[job[w].plan], job[w].own),
                         !.end = Later(job[w].end, now) + plans[job[w].plan].length]
         /\ job'[w].end > job[w].end
<1>1. job[w] \in SubJobs /\ job[w].plan \in Plans /\ now \in Nat
  BY DEF SubscriptionsTypeOK, LocalsOK, RenewedPeriod
<1>2. plans[job[w].plan] \in PlanRows
  BY <1>1 DEF SubscriptionsTypeOK
<1>3. ContractedPrice(plans[job[w].plan], job[w].own) \in Nat
  BY <1>1, <1>2, Price DEF SubJobs
<1>4. Later(job[w].end, now) \in Nat /\ Later(job[w].end, now) >= job[w].end
  BY <1>1 DEF Later, SubJobs
<1>5. plans[job[w].plan].length \in Nat /\ plans[job[w].plan].length > 0
  BY <1>2 DEF PlanRows
<1> DEFINE j == [job[w] EXCEPT !.price = ContractedPrice(plans[job[w].plan], job[w].own),
                               !.end = Later(job[w].end, now) + plans[job[w].plan].length]
<1>6. j \in SubJobs /\ "renew" \in SubSteps
  <2>1. Later(job[w].end, now) + plans[job[w].plan].length \in Nat
    BY <1>4, <1>5
  <2> QED
    BY <1>1, <1>3, <2>1 DEF SubJobs, SubSteps
<1>7. j.end > job[w].end
  BY <1>1, <1>4, <1>5 DEF SubJobs
<1>8. Goes(w, "renew", j) /\ UNCHANGED saas
  BY DEF RenewedPeriod
<1> HIDE DEF j
<1>9. Moved(w) /\ pc'[w] = "renew" /\ job'[w] = j
  BY <1>6, <1>8, GoesMoves
<1> QED
  BY <1>7, <1>8, <1>9 DEF j

LEMMA PlanStepTypes ==
  ASSUME SubscriptionsTypeOK, LocalsOK, NEW w \in Clerks, PlanStep(w), UNCHANGED duties
  PROVE  SubscriptionsTypeOK' /\ Others(w)
<1>1. ASSUME NEW p \in Plans, handleApplyIncrement(w, p) PROVE SubscriptionsTypeOK' /\ Others(w)
  BY <1>1, ApplyIncrementMoves DEF Moved, saas, SubscriptionsTypeOK
<1>2. ASSUME NEW p \in Plans, NEW o \in Offers, handleUpdatePlan(w, p, o)
      PROVE SubscriptionsTypeOK' /\ Others(w)
  BY <1>2, SubscriptionsAssumption DEF handleUpdatePlan, UpdatePlan, SubscriptionsTypeOK, Others
<1>3. CASE WriteIncrement(w)
  <2>1. job[w].plan \in Plans /\ job[w].row \in PlanRows
    BY <1>3 DEF WriteIncrement, LocalsOK, SubscriptionsTypeOK, SubJobs
  <2>2. Raised(job[w].row.price) \in Nat
    BY <2>1, RaisedPrice DEF PlanRows
  <2>3. [job[w].row EXCEPT !.price = Raised(job[w].row.price)] \in PlanRows
    BY <2>1, <2>2 DEF PlanRows
  <2> QED
    BY <1>3, <2>1, <2>3, FinishMoves DEF WriteIncrement, SubscriptionsTypeOK, Moved
<1> QED
  BY <1>1, <1>2, <1>3 DEF PlanStep

LEMMA SubscriptionStepTypes ==
  ASSUME SubscriptionsTypeOK, LocalsOK, RowsOK, NEW w \in Clerks, SubscriptionStep(w),
         UNCHANGED duties
  PROVE  SubscriptionsTypeOK' /\ Others(w)
<1>1. ASSUME NEW c \in Companies, handleRenewSubscription(w, c)
      PROVE  SubscriptionsTypeOK' /\ Others(w)
  BY <1>1, RenewMoves DEF Moved, saas, SubscriptionsTypeOK
<1>2. ASSUME NEW c \in Companies, NEW p \in Plans,
             \E own \in BOOLEAN : handleAssignSubscription(w, c, p, own)
      PROVE  SubscriptionsTypeOK' /\ Others(w)
  <2>1. Moved(w) /\ UNCHANGED saas
    BY <1>2, AssignMoves
  <2> QED
    BY <2>1 DEF Moved, saas, SubscriptionsTypeOK
<1>3. CASE CancelActive(w)
  <2>1. subs' \in [Subs -> SubRows]
    BY <1>3 DEF CancelActive, SubscriptionsTypeOK, SubRows
  <2> QED
    BY <1>3, <2>1, CancelActiveMoves DEF CancelActive, Moved, SubscriptionsTypeOK
<1>4. CASE CreateSub(w)
  <2>1. NewSub(job[w]) \in SubRows
    BY DEF NewSub, SubRows, SubscriptionsTypeOK, SubJobs
  <2>2. subs' \in [Subs -> SubRows]
    BY <1>4, <2>1 DEF CreateSub, SubscriptionsTypeOK
  <2> QED
    BY <1>4, <2>2, FinishMoves DEF CreateSub, Moved, SubscriptionsTypeOK
<1>5. CASE RenewedPeriod(w)
  BY <1>5, RenewedPeriodMoves DEF Moved, saas, SubscriptionsTypeOK
<1>6. CASE RenewSub(w)
  <2>1. job[w].sub \in Subs
    BY <1>6 DEF RenewSub, LocalsOK
  <2>2. Renewed(job[w]) \in SubRows
    <3>1. subs[job[w].sub] \in SubRows /\ job[w].price \in Nat /\ job[w].end \in Nat
      BY <2>1 DEF SubscriptionsTypeOK, SubJobs
    <3> QED
      BY <3>1 DEF Renewed, SubRows
  <2>3. subs' \in [Subs -> SubRows]
    BY <1>6, <2>2 DEF RenewSub, SubscriptionsTypeOK
  <2> QED
    BY <1>6, <2>3, FinishMoves DEF RenewSub, Moved, SubscriptionsTypeOK
<1> QED
  BY <1>1, <1>2, <1>3, <1>4, <1>5, <1>6 DEF SubscriptionStep

LEMMA SubscriptionFailureMoves ==
  ASSUME SubscriptionsTypeOK, NEW w \in Clerks, SubscriptionFailure(w), UNCHANGED duties
  PROVE  /\ SubscriptionsTypeOK' /\ Others(w) /\ UNCHANGED saas
         /\ pc'[w] = "idle" /\ Faults[w] # {}
BY FinishMoves DEF SubscriptionFailure, StatementFails, SubscriptionCrash, Moved, saas,
   SubscriptionsTypeOK

LEMMA StepTypes ==
  ASSUME SubscriptionsTypeOK, LocalsOK, RowsOK, NEW w \in Clerks, PlatformStep(w), UNCHANGED duties
  PROVE  SubscriptionsTypeOK' /\ Others(w)
BY PlanStepTypes, SubscriptionStepTypes, SubscriptionFailureMoves DEF PlatformStep

-----------------------------------------------------------------------------
(* Rows and locals.                                                        *)

\* A subscription that was made stays, with its company, its plan and its certificate.
SubsKept ==
  \A s \in Subs : subs[s].status # "none" =>
    /\ subs'[s].status # "none"
    /\ subs'[s].company = subs[s].company /\ subs'[s].plan = subs[s].plan
    /\ subs'[s].own = subs[s].own

\* Only three statements write a subscription.
LEMMA SubsUnchanged ==
  ASSUME SubscriptionsTypeOK, LocalsOK, RowsOK, NEW w \in Clerks, PlatformStep(w),
         ~CancelActive(w), ~CreateSub(w), ~RenewSub(w)
  PROVE  UNCHANGED subs
BY DEF PlatformStep, PlanStep, SubscriptionStep, SubscriptionFailure, handleApplyIncrement,
   ApplyIncrement,
   handleUpdatePlan, UpdatePlan, WriteIncrement, handleRenewSubscription, Renew,
   handleAssignSubscription, Assign, RenewedPeriod, StatementFails, SubscriptionCrash, saas

LEMMA RowsStep ==
  ASSUME SubscriptionsTypeOK, LocalsOK, RowsOK, NEW w \in Clerks, PlatformStep(w)
  PROVE  SubsKept /\ RowsOK'
<1> USE DEF SubsKept, RowsOK
<1>1. CASE CancelActive(w)
  BY <1>1 DEF CancelActive, Active, SubscriptionsTypeOK, SubRows
<1>2. CASE CreateSub(w)
  <2>1. job[w].company \in Companies /\ job[w].plan \in Plans
    BY <1>2 DEF CreateSub, LocalsOK
  <2>2. NewSub(job[w]).status # "none" /\ NewSub(job[w]).company # NoCompany
        /\ NewSub(job[w]).plan \in Plans
    BY <2>1, SubscriptionsAssumption DEF NewSub
  <2> QED
    BY <1>2, <2>2 DEF CreateSub, SubscriptionsTypeOK
<1>3. CASE RenewSub(w)
  <2>1. job[w].sub \in Subs /\ subs[job[w].sub].status # "none"
    BY <1>3 DEF RenewSub, LocalsOK
  <2>2. subs[job[w].sub] \in SubRows
    BY <2>1 DEF SubscriptionsTypeOK
  <2>3. /\ Renewed(job[w]).status = "active" /\ Renewed(job[w]).company = subs[job[w].sub].company
        /\ Renewed(job[w]).plan = subs[job[w].sub].plan /\ Renewed(job[w]).own = subs[job[w].sub].own
    BY <2>2 DEF Renewed, SubRows
  <2> QED
    BY <1>3, <2>1, <2>3 DEF RenewSub, SubscriptionsTypeOK
<1> QED
  BY <1>1, <1>2, <1>3, SubsUnchanged

\* What LocalsOK says of one request.
LocalOK(w) ==
  /\ pc[w] = "write" => job[w].plan \in Plans /\ "increment" \in duties[w]
  /\ pc[w] \in {"cancel", "create"} =>
       job[w].company \in Companies /\ job[w].plan \in Plans /\ "assign" \in duties[w]
  /\ pc[w] = "cancel" => job[w].months > 0
  /\ pc[w] \in {"plan", "renew"} =>
       /\ "renew" \in duties[w]
       /\ job[w].sub \in Subs /\ job[w].plan \in Plans
       /\ LET s == subs[job[w].sub] IN
          s.status # "none" /\ s.company = job[w].company /\ s.plan = job[w].plan /\ s.own = job[w].own

LEMMA LocalsStep ==
  ASSUME SubscriptionsTypeOK, LocalsOK, RowsOK, NEW w \in Clerks, PlatformStep(w), UNCHANGED duties
  PROVE  LocalsOK'
<1>1. SubsKept /\ Others(w)
  BY RowsStep, StepTypes
<1>2. \A v \in Clerks : LocalOK(v)
  BY DEF LocalsOK, LocalOK
<1>3. ASSUME NEW v \in Clerks, v # w PROVE LocalOK(v)'
  BY <1>1, <1>2, <1>3 DEF LocalOK, Others, SubsKept
<1>4. SUFFICES LocalOK(w)'
  BY <1>3 DEF LocalsOK, LocalOK
<1>5. ASSUME NEW p \in Plans, handleApplyIncrement(w, p) PROVE LocalOK(w)'
  <2>1. pc'[w] = "write" /\ job'[w] = [NoJob EXCEPT !.plan = p, !.row = plans[p]]
    BY <1>5, ApplyIncrementMoves
  <2>2. job'[w].plan = p
    BY <2>1 DEF NoJob
  <2> QED
    BY <1>5, <2>1, <2>2 DEF handleApplyIncrement, ApplyIncrement, Takes, LocalOK
<1>6. ASSUME NEW p \in Plans, NEW o \in Offers, handleUpdatePlan(w, p, o) PROVE LocalOK(w)'
  BY <1>6 DEF handleUpdatePlan, UpdatePlan, Takes, LocalOK
<1>7. CASE WriteIncrement(w)
  BY <1>7, FinishMoves DEF WriteIncrement, LocalOK
<1>8. ASSUME NEW c \in Companies, handleRenewSubscription(w, c) PROVE LocalOK(w)'
  <2>1. PICK s \in Active(c) :
          job'[w] = [NoJob EXCEPT !.company = c, !.sub = s, !.plan = subs[s].plan,
                                 !.own = subs[s].own, !.end = subs[s].end]
    BY <1>8, RenewMoves
  <2>2. s \in Subs /\ subs[s].status = "active" /\ subs[s].company = c /\ subs[s].plan \in Plans
    BY <2>1 DEF Active, RowsOK
  <2>3. /\ job'[w].company = c /\ job'[w].sub = s
        /\ job'[w].plan = subs[s].plan /\ job'[w].own = subs[s].own
    BY <2>1 DEF NoJob
  <2>4. pc'[w] = "plan" /\ subs' = subs /\ "renew" \in duties[w]
    BY <1>8, RenewMoves DEF saas, handleRenewSubscription, Renew, Takes
  <2> QED
    BY <2>2, <2>3, <2>4 DEF LocalOK
<1>9. ASSUME NEW c \in Companies, NEW p \in Plans,
             \E own \in BOOLEAN : handleAssignSubscription(w, c, p, own)
      PROVE  LocalOK(w)'
  BY <1>9, AssignMoves DEF LocalOK
<1>10. CASE CancelActive(w)
  <2>1. LocalOK(w) /\ pc[w] = "cancel" /\ job[w] \in SubJobs
    BY <1>2, <1>10 DEF CancelActive, SubscriptionsTypeOK
  <2>2. CASE pc'[w] = "create" /\ job'[w] = [job[w] EXCEPT !.end = now + job[w].months]
    <3>1. job'[w].company = job[w].company /\ job'[w].plan = job[w].plan
      BY <2>1, <2>2 DEF SubJobs
    <3>2. duties' = duties
      OBVIOUS
    <3> QED
      BY <2>1, <2>2, <3>1, <3>2 DEF LocalOK
  <2>3. CASE pc'[w] = "idle"
    BY <2>3 DEF LocalOK
  <2> QED
    BY <1>10, <2>2, <2>3, CancelActiveMoves
<1>11. CASE CreateSub(w)
  BY <1>11, FinishMoves DEF CreateSub, LocalOK
<1>12. CASE RenewedPeriod(w)
  <2>1. LocalOK(w) /\ pc[w] = "plan" /\ job[w] \in SubJobs
    BY <1>2, <1>12 DEF RenewedPeriod, SubscriptionsTypeOK
  <2>2. /\ job'[w].company = job[w].company /\ job'[w].plan = job[w].plan
        /\ job'[w].sub = job[w].sub /\ job'[w].own = job[w].own
    BY <1>12, <2>1, RenewedPeriodMoves DEF SubJobs
  <2>3. pc'[w] = "renew" /\ subs' = subs /\ duties' = duties
    BY <1>12, RenewedPeriodMoves DEF saas
  <2> QED
    BY <2>1, <2>2, <2>3 DEF LocalOK
<1>13. CASE RenewSub(w)
  BY <1>13, FinishMoves DEF RenewSub, LocalOK
<1>14. CASE SubscriptionFailure(w)
  BY <1>14, SubscriptionFailureMoves DEF LocalOK
<1> QED
  BY <1>5, <1>6, <1>7, <1>8, <1>9, <1>10, <1>11, <1>12, <1>13, <1>14
     DEF PlatformStep, PlanStep, SubscriptionStep

-----------------------------------------------------------------------------
(* One plan.                                                               *)

LEMMA OnePlanStep ==
  ASSUME SubscriptionsTypeOK, LocalsOK, RowsOK, AlwaysOnePlan, NEW w \in Clerks, PlatformStep(w),
         UNCHANGED duties
  PROVE  AlwaysOnePlan'
<1>1. SubsKept /\ RowsOK' /\ Others(w)
  BY RowsStep, StepTypes
<1> SUFFICES ASSUME NEW c \in Companies
             PROVE  /\ \A s, t \in Active(c)' : s = t
                    /\ ChangesComplete' /\ ~Changing(c)' /\ (\E s \in Subs : subs'[s].company = c)
                         => Active(c)' # {}
  BY DEF AlwaysOnePlan
<1>2. ChangesComplete' <=> ChangesComplete
  BY DEF ChangesComplete
<1>3. \A s \in Subs : s \in Active(c) <=> subs[s].status = "active" /\ subs[s].company = c
  BY DEF Active
<1>4. \A s \in Subs : s \in Active(c)' <=> subs'[s].status = "active" /\ subs'[s].company = c
  BY DEF Active
<1>5. Active(c) \subseteq Subs /\ Active(c)' \subseteq Subs
  BY DEF Active
<1>6. \A s, t \in Active(c) : s = t
  BY DEF AlwaysOnePlan
<1>7. ChangesComplete /\ ~Changing(c) /\ (\E s \in Subs : subs[s].company = c) => Active(c) # {}
  BY DEF AlwaysOnePlan
\* As long as the rows stay, all depends on who is in the middle of a change.
<1>8. ASSUME UNCHANGED subs, ~Changing(c)' => ~ChangesComplete \/ ~Changing(c)
      PROVE  /\ \A s, t \in Active(c)' : s = t
             /\ ChangesComplete' /\ ~Changing(c)' /\ (\E s \in Subs : subs'[s].company = c)
                  => Active(c)' # {}
  <2>1. Active(c)' = Active(c)
    BY <1>3, <1>4, <1>5, <1>8
  <2> QED
    BY <1>2, <1>6, <1>7, <1>8, <2>1
<1>9. ASSUME pc[w] # "create" PROVE ~Changing(c)' => ~Changing(c)
  BY <1>1, <1>9 DEF Changing, Others
<1>10. CASE CancelActive(w)
  <2>1. pc[w] = "cancel" /\ "assign" \in duties[w] /\ job[w] \in SubJobs
    BY <1>10 DEF CancelActive, LocalsOK, SubscriptionsTypeOK
  <2>2. CASE job[w].company = c
    <3>1. \A s \in Subs : ~(subs'[s].status = "active" /\ subs'[s].company = c)
      BY <1>10, <2>2, <1>3 DEF CancelActive, SubscriptionsTypeOK, SubRows
    <3>2. Active(c)' = {}
      BY <1>4, <1>5, <3>1
    <3>3. Changing(c)' \/ ~ChangesComplete
      <4>1. CASE pc'[w] = "create" /\ job'[w] = [job[w] EXCEPT !.end = now + job[w].months]
        <5>1. job'[w].company = c
          BY <2>1, <2>2, <4>1 DEF SubJobs
        <5> QED
          BY <4>1, <5>1 DEF Changing
      <4>2. CASE "failure" \in Faults[w]
        BY <2>1, <4>2 DEF ChangesComplete
      <4> QED
        BY <1>10, <4>1, <4>2, CancelActiveMoves
    <3> QED
      BY <1>2, <3>2, <3>3
  <2>3. CASE job[w].company # c
    <3>1. \A s \in Subs : /\ subs'[s].status = "active" /\ subs'[s].company = c
                             <=> subs[s].status = "active" /\ subs[s].company = c
                          /\ subs'[s].company = subs[s].company
      BY <1>10, <2>3 DEF CancelActive, Active, SubscriptionsTypeOK, SubRows
    <3>2. Active(c)' = Active(c)
      BY <1>3, <1>4, <1>5, <3>1
    <3> QED
      BY <1>2, <1>6, <1>7, <1>9, <2>1, <3>1, <3>2
  <2> QED
    BY <2>2, <2>3
<1>11. CASE CreateSub(w)
  <2>1. pc[w] = "create" /\ job[w].company \in Companies
    BY <1>11 DEF CreateSub, LocalsOK
  <2>2. CASE subs' = subs /\ Active(job[w].company) # {}
    <3>1. Active(c)' = Active(c)
      BY <1>3, <1>4, <1>5, <2>2
    <3>2. job[w].company # c => (~Changing(c)' => ~Changing(c))
      BY <1>1 DEF Changing, Others
    <3> QED
      BY <1>2, <1>6, <1>7, <2>2, <3>1, <3>2
  <2>3. ASSUME NEW s \in Subs, subs[s].status = "none", Active(job[w].company) = {},
               subs' = [subs EXCEPT ![s] = NewSub(job[w])]
        PROVE  /\ \A q, t \in Active(c)' : q = t
               /\ ChangesComplete' /\ ~Changing(c)' /\ (\E q \in Subs : subs'[q].company = c)
                    => Active(c)' # {}
    <3>1. subs'[s].status = "active" /\ subs'[s].company = job[w].company
      BY <2>3 DEF NewSub, SubscriptionsTypeOK
    <3>2. \A t \in Subs \ {s} : subs'[t] = subs[t]
      BY <2>3 DEF SubscriptionsTypeOK
    <3>3. CASE job[w].company = c
      BY <1>3, <1>4, <1>5, <2>3, <3>1, <3>2, <3>3
    <3>4. CASE job[w].company # c
      <4>1. subs[s].company # c
        BY <2>3, SubscriptionsAssumption DEF RowsOK
      <4>2. Active(c)' = Active(c)
        BY <1>3, <1>4, <1>5, <3>1, <3>2, <3>4, <4>1
      <4>3. ~Changing(c)' => ~Changing(c)
        BY <1>1, <3>4 DEF Changing, Others
      <4>4. (\E q \in Subs : subs'[q].company = c) => \E q \in Subs : subs[q].company = c
        BY <3>1, <3>2, <3>4
      <4> QED
        BY <1>2, <1>6, <1>7, <4>2, <4>3, <4>4
    <3> QED
      BY <3>3, <3>4
  <2> QED
    BY <1>11, <2>2, <2>3 DEF CreateSub
<1>12. CASE RenewSub(w)
  <2>1. /\ pc[w] = "renew" /\ job[w].sub \in Subs
        /\ subs[job[w].sub].status # "none" /\ subs[job[w].sub].company = job[w].company
    BY <1>12 DEF RenewSub, LocalsOK
  <2>2. CASE UNCHANGED subs
    BY <1>8, <1>9, <2>1, <2>2
  <2>3. CASE Active(job[w].company) \subseteq {job[w].sub}
             /\ subs' = [subs EXCEPT ![job[w].sub] = Renewed(job[w])]
    <3>1. subs[job[w].sub] \in SubRows
      BY <2>1 DEF SubscriptionsTypeOK
    <3>2. subs'[job[w].sub].status = "active" /\ subs'[job[w].sub].company = job[w].company
      BY <2>1, <2>3, <3>1 DEF Renewed, SubscriptionsTypeOK, SubRows
    <3>3. \A t \in Subs \ {job[w].sub} : subs'[t] = subs[t]
      BY <2>3 DEF SubscriptionsTypeOK
    <3>4. CASE job[w].company = c
      BY <1>3, <1>4, <1>5, <2>1, <2>3, <3>2, <3>3, <3>4
    <3>5. CASE job[w].company # c
      <4>1. Active(c)' = Active(c)
        <5>1. \A s \in Subs : s \in Active(c)' <=> s \in Active(c)
          BY <1>3, <1>4, <2>1, <3>2, <3>3, <3>5
        <5> QED
          BY <1>5, <5>1
      <4>2. (\E q \in Subs : subs'[q].company = c) => \E q \in Subs : subs[q].company = c
        BY <2>1, <3>2, <3>3, <3>5
      <4> QED
        BY <1>2, <1>6, <1>7, <1>9, <2>1, <4>1, <4>2
    <3> QED
      BY <3>4, <3>5
  <2> QED
    BY <1>12, <2>2, <2>3 DEF RenewSub
<1>13. CASE SubscriptionFailure(w)
  <2>1. UNCHANGED subs /\ Faults[w] # {}
    BY <1>13, SubscriptionFailureMoves DEF saas
  <2>2. pc[w] = "create" => ~ChangesComplete
    BY <2>1 DEF LocalsOK, ChangesComplete
  <2> QED
    BY <1>8, <1>9, <2>1, <2>2
<1>14. CASE ~CancelActive(w) /\ ~CreateSub(w) /\ ~RenewSub(w) /\ ~SubscriptionFailure(w)
  <2>1. UNCHANGED subs
    BY <1>14, SubsUnchanged
  <2>2. pc[w] # "create"
    BY <1>14 DEF PlatformStep, PlanStep, SubscriptionStep, handleApplyIncrement, ApplyIncrement,
       handleUpdatePlan, UpdatePlan, WriteIncrement, handleRenewSubscription, Renew,
       handleAssignSubscription, Assign, RenewedPeriod, Takes
  <2> QED
    BY <1>8, <1>9, <2>1, <2>2
<1> QED
  BY <1>10, <1>11, <1>12, <1>13, <1>14

-----------------------------------------------------------------------------
(* Renewals.                                                               *)

\* Only a renewal changes what a subscription costs and when it ends.
LEMMA EndsKept ==
  ASSUME SubscriptionsTypeOK, LocalsOK, RowsOK, NEW w \in Clerks, PlatformStep(w), ~RenewSub(w),
         NEW s \in Subs, subs[s].status # "none"
  PROVE  subs'[s].end = subs[s].end /\ subs'[s].price = subs[s].price
<1>1. CASE CancelActive(w)
  BY <1>1 DEF CancelActive, SubscriptionsTypeOK, SubRows
<1>2. CASE CreateSub(w)
  BY <1>2 DEF CreateSub, SubscriptionsTypeOK
<1> QED
  BY <1>1, <1>2, SubsUnchanged

\* What the last statement of a renewal writes.
LEMMA RenewSubWrites ==
  ASSUME SubscriptionsTypeOK, LocalsOK, NEW w \in Clerks, RenewSub(w), NEW s \in Subs,
         subs'[s] # subs[s]
  PROVE  /\ pc[w] = "renew" /\ s = job[w].sub
         /\ subs[s].status # "none" /\ subs'[s].price = job[w].price /\ subs'[s].end = job[w].end
         /\ subs'[s].plan = job[w].plan /\ subs'[s].own = job[w].own
<1>1. /\ pc[w] = "renew" /\ job[w].sub \in Subs /\ subs[job[w].sub].status # "none"
      /\ subs[job[w].sub].plan = job[w].plan /\ subs[job[w].sub].own = job[w].own
  BY DEF RenewSub, LocalsOK
<1>2. subs' = [subs EXCEPT ![job[w].sub] = Renewed(job[w])]
  BY DEF RenewSub
<1>3. s = job[w].sub /\ subs'[s] = Renewed(job[w]) /\ subs[s] \in SubRows
  BY <1>1, <1>2 DEF SubscriptionsTypeOK
<1>4. /\ Renewed(job[w]).price = job[w].price /\ Renewed(job[w]).end = job[w].end
      /\ Renewed(job[w]).plan = subs[s].plan /\ Renewed(job[w]).own = subs[s].own
  BY <1>3 DEF Renewed, SubRows
<1> QED
  BY <1>1, <1>3, <1>4

LEMMA RenewalsStep ==
  ASSUME SubscriptionsTypeOK, LocalsOK, RowsOK, OneAt({"renew"}), RenewalsInv,
         NEW w \in Clerks, PlatformStep(w), UNCHANGED duties
  PROVE  RenewalsInv'
<1>1. Others(w)
  BY StepTypes
<1> SUFFICES ASSUME NEW v \in Clerks
             PROVE  /\ pc'[v] = "plan" => subs'[job'[v].sub].end = job'[v].end
                    /\ pc'[v] = "renew" => subs'[job'[v].sub].end < job'[v].end
  BY DEF RenewalsInv
<1>2. CASE v # w
  <2>1. pc'[v] = pc[v] /\ job'[v] = job[v]
    BY <1>1, <1>2 DEF Others
  <2>2. CASE pc[v] \in {"plan", "renew"}
    <3>1. "renew" \in duties[v] /\ job[v].sub \in Subs /\ subs[job[v].sub].status # "none"
      BY <2>2 DEF LocalsOK
    <3>2. ~RenewSub(w)
      BY <1>2, <3>1 DEF OneAt, RenewSub, LocalsOK
    <3>3. subs'[job[v].sub].end = subs[job[v].sub].end
      BY <3>1, <3>2, EndsKept
    <3> QED
      BY <2>1, <3>3 DEF RenewalsInv
  <2> QED
    BY <2>1, <2>2
<1>3. CASE v = w
  <2>1. ASSUME NEW c \in Companies, handleRenewSubscription(w, c)
        PROVE  pc'[w] = "plan" /\ subs'[job'[w].sub].end = job'[w].end
    <3>1. PICK s \in Active(c) :
            job'[w] = [NoJob EXCEPT !.company = c, !.sub = s, !.plan = subs[s].plan,
                                   !.own = subs[s].own, !.end = subs[s].end]
      BY <2>1, RenewMoves
    <3>2. job'[w].sub = s /\ job'[w].end = subs[s].end
      BY <3>1 DEF NoJob
    <3> QED
      BY <2>1, <3>2, RenewMoves DEF saas
  <2>2. ASSUME RenewedPeriod(w)
        PROVE  pc'[w] = "renew" /\ subs'[job'[w].sub].end < job'[w].end
    <3>1. pc[w] = "plan" /\ job[w] \in SubJobs
      BY <2>2 DEF RenewedPeriod, SubscriptionsTypeOK
    <3>2. subs[job[w].sub].end = job[w].end /\ job[w].sub \in Subs
      BY <3>1 DEF RenewalsInv, LocalsOK
    <3>3. job'[w].sub = job[w].sub
      BY <2>2, <3>1, RenewedPeriodMoves DEF SubJobs
    <3>4. pc'[w] = "renew" /\ subs' = subs /\ job'[w].end > job[w].end
      BY <2>2, RenewedPeriodMoves DEF saas
    <3>5. job'[w].end \in Nat /\ job[w].end \in Nat
      BY <3>1, StepTypes DEF SubscriptionsTypeOK, SubJobs
    <3> QED
      BY <3>2, <3>3, <3>4, <3>5
  <2>3. CASE ~RenewedPeriod(w) /\ \A c \in Companies : ~handleRenewSubscription(w, c)
    <3> SUFFICES pc'[w] \notin {"plan", "renew"}
      BY <1>3
    <3>1. ASSUME NEW p \in Plans, handleApplyIncrement(w, p) PROVE pc'[w] = "write"
      BY <3>1, ApplyIncrementMoves
    <3>2. ASSUME NEW p \in Plans, NEW o \in Offers, handleUpdatePlan(w, p, o)
          PROVE pc'[w] = "idle"
      BY <3>2 DEF handleUpdatePlan, UpdatePlan, Takes
    <3>3. ASSUME NEW c \in Companies, NEW p \in Plans,
                 \E own \in BOOLEAN : handleAssignSubscription(w, c, p, own)
          PROVE  pc'[w] = "cancel"
      BY <3>3, AssignMoves
    <3>4. CASE CancelActive(w)
      BY <3>4, CancelActiveMoves
    <3>5. CASE WriteIncrement(w) \/ CreateSub(w) \/ RenewSub(w)
      BY <3>5, FinishMoves DEF WriteIncrement, CreateSub, RenewSub
    <3>6. CASE SubscriptionFailure(w)
      BY <3>6, SubscriptionFailureMoves
    <3> QED
      BY <2>3, <3>1, <3>2, <3>3, <3>4, <3>5, <3>6 DEF PlatformStep, PlanStep, SubscriptionStep
  <2> QED
    BY <1>3, <2>1, <2>2, <2>3
<1> QED
  BY <1>2, <1>3

-----------------------------------------------------------------------------
(* Increments.                                                             *)

LEMMA PlansUnchanged ==
  ASSUME NEW w \in Clerks, PlatformStep(w), ~WriteIncrement(w),
         \A p \in Plans, o \in Offers : ~handleUpdatePlan(w, p, o)
  PROVE  UNCHANGED plans
BY DEF PlatformStep, PlanStep, SubscriptionStep, SubscriptionFailure, handleApplyIncrement,
   ApplyIncrement,
   handleRenewSubscription, Renew, handleAssignSubscription, Assign, CancelActive,
   CreateSub, RenewedPeriod, RenewSub, StatementFails, SubscriptionCrash, saas

LEMMA IncrementsStep ==
  ASSUME SubscriptionsTypeOK, LocalsOK, RowsOK, OneAt({"update", "increment"}), IncrementsInv,
         NEW w \in Clerks, PlatformStep(w), UNCHANGED duties
  PROVE  IncrementsInv'
<1>1. Others(w)
  BY StepTypes
<1> SUFFICES ASSUME NEW v \in Clerks, pc'[v] = "write"
             PROVE  job'[v].row = plans'[job'[v].plan]
  BY DEF IncrementsInv
<1>2. CASE v # w
  <2>1. pc[v] = "write" /\ job'[v] = job[v] /\ "increment" \in duties[v]
    BY <1>1, <1>2 DEF Others, LocalsOK
  <2>2. "update" \notin duties[w] /\ "increment" \notin duties[w]
    BY <1>2, <2>1 DEF OneAt
  <2>3. UNCHANGED plans
    BY <2>2, PlansUnchanged DEF handleUpdatePlan, UpdatePlan, WriteIncrement, Takes, LocalsOK
  <2> QED
    BY <2>1, <2>3 DEF IncrementsInv
<1>3. CASE v = w
  <2>1. ASSUME NEW p \in Plans, handleApplyIncrement(w, p)
        PROVE job'[w].row = plans'[job'[w].plan]
    <3>1. job'[w] = [NoJob EXCEPT !.plan = p, !.row = plans[p]] /\ plans' = plans
      BY <2>1, ApplyIncrementMoves DEF saas
    <3>2. job'[w].plan = p /\ job'[w].row = plans[p]
      BY <3>1 DEF NoJob
    <3> QED
      BY <3>1, <3>2
  <2>2. ASSUME NEW p \in Plans, NEW o \in Offers, handleUpdatePlan(w, p, o) PROVE FALSE
    BY <1>3, <2>2 DEF handleUpdatePlan, UpdatePlan, Takes
  <2>3. CASE WriteIncrement(w) \/ CreateSub(w) \/ RenewSub(w)
    BY <1>3, <2>3, FinishMoves DEF WriteIncrement, CreateSub, RenewSub
  <2>4. CASE CancelActive(w) \/ RenewedPeriod(w)
    BY <1>3, <2>4, CancelActiveMoves, RenewedPeriodMoves
  <2>5. CASE SubscriptionFailure(w)
    BY <1>3, <2>5, SubscriptionFailureMoves
  <2>6. ASSUME NEW c \in Companies, handleRenewSubscription(w, c) PROVE FALSE
    BY <1>3, <2>6, RenewMoves
  <2>7. ASSUME NEW c \in Companies, NEW p \in Plans,
               \E own \in BOOLEAN : handleAssignSubscription(w, c, p, own)
        PROVE  FALSE
    BY <1>3, <2>7, AssignMoves
  <2> QED
    BY <1>3, <2>1, <2>2, <2>3, <2>4, <2>5, <2>6, <2>7 DEF PlatformStep, PlanStep, SubscriptionStep
<1> QED
  BY <1>2, <1>3

-----------------------------------------------------------------------------
(* Prices.                                                                 *)

\* Whoever takes a step serves some request.
LEMMA Busy ==
  ASSUME SubscriptionsTypeOK, LocalsOK, NEW w \in Clerks, PlatformStep(w)
  PROVE  PlanRequests \cap duties[w] # {}
<1>1. pc[w] \in SubSteps
  BY DEF SubscriptionsTypeOK
<1>2. CASE pc[w] # "idle"
  BY <1>1, <1>2 DEF LocalsOK, SubSteps, PlanRequests
<1>3. CASE pc[w] = "idle"
  BY <1>3 DEF PlatformStep, PlanStep, SubscriptionStep, SubscriptionFailure, handleApplyIncrement,
     ApplyIncrement,
     handleUpdatePlan, UpdatePlan, WriteIncrement,
     handleRenewSubscription, Renew, handleAssignSubscription, Assign, CancelActive, CreateSub,
     RenewedPeriod, RenewSub, StatementFails, SubscriptionCrash, Takes,
     PlanRequests
<1> QED
  BY <1>2, <1>3

LEMMA PricesStep ==
  ASSUME SubscriptionsTypeOK, LocalsOK, RowsOK, OneAt(PlanRequests), PricesInv,
         NEW w \in Clerks, PlatformStep(w), UNCHANGED duties
  PROVE  PricesInv'
<1>1. Others(w)
  BY StepTypes
<1> SUFFICES ASSUME NEW v \in Clerks, pc'[v] \in {"cancel", "create", "renew"}
             PROVE  /\ job'[v].price = ContractedPrice(plans'[job'[v].plan], job'[v].own)
                    /\ pc'[v] # "renew" => plans'[job'[v].plan].active
  BY DEF PricesInv, ContractedPrice
<1>2. v = w
  <2>1. ASSUME v # w PROVE FALSE
    <3>1. pc[v] \in {"cancel", "create", "renew"}
      BY <1>1, <2>1 DEF Others
    <3>2. PlanRequests \cap duties[v] # {}
      BY <3>1 DEF LocalsOK, PlanRequests
    <3> QED
      BY <2>1, <3>2, Busy DEF OneAt
  <2> QED
    BY <2>1
<1>3. ASSUME NEW p \in Plans, handleApplyIncrement(w, p) PROVE FALSE
  BY <1>2, <1>3, ApplyIncrementMoves
<1>4. ASSUME NEW p \in Plans, NEW o \in Offers, handleUpdatePlan(w, p, o) PROVE FALSE
  BY <1>2, <1>4 DEF handleUpdatePlan, UpdatePlan, Takes
<1>5. CASE WriteIncrement(w) \/ CreateSub(w) \/ RenewSub(w)
  BY <1>2, <1>5, FinishMoves DEF WriteIncrement, CreateSub, RenewSub
<1>6. ASSUME NEW c \in Companies, handleRenewSubscription(w, c) PROVE FALSE
  BY <1>2, <1>6, RenewMoves
<1>7. CASE SubscriptionFailure(w)
  BY <1>2, <1>7, SubscriptionFailureMoves
<1>8. ASSUME NEW c \in Companies, NEW p \in Plans,
             \E own \in BOOLEAN : handleAssignSubscription(w, c, p, own)
      PROVE  /\ job'[w].price = ContractedPrice(plans'[job'[w].plan], job'[w].own)
             /\ plans'[job'[w].plan].active
  BY <1>8, AssignMoves DEF saas
<1>9. CASE CancelActive(w)
  <2>1. pc[w] = "cancel" /\ plans' = plans /\ job[w] \in SubJobs
    BY <1>9 DEF CancelActive, SubscriptionsTypeOK
  <2>2. /\ job[w].price = ContractedPrice(plans[job[w].plan], job[w].own)
        /\ plans[job[w].plan].active
    BY <2>1 DEF PricesInv
  <2>3. pc'[w] = "create" /\ job'[w] = [job[w] EXCEPT !.end = now + job[w].months]
    BY <1>2, <1>9, CancelActiveMoves
  <2>4. job'[w].price = job[w].price /\ job'[w].plan = job[w].plan /\ job'[w].own = job[w].own
    BY <2>1, <2>3 DEF SubJobs
  <2> QED
    BY <1>2, <2>1, <2>2, <2>4
<1>10. CASE RenewedPeriod(w)
  <2>1. plans' = plans /\ job[w] \in SubJobs /\ pc'[w] = "renew"
    BY <1>10, RenewedPeriodMoves DEF saas, SubscriptionsTypeOK
  <2>2. /\ job'[w].price = ContractedPrice(plans[job[w].plan], job[w].own)
        /\ job'[w].plan = job[w].plan /\ job'[w].own = job[w].own
    BY <1>10, <2>1, RenewedPeriodMoves DEF SubJobs
  <2> QED
    BY <1>2, <2>1, <2>2
<1> QED
  BY <1>2, <1>3, <1>4, <1>5, <1>6, <1>7, <1>8, <1>9, <1>10 DEF PlatformStep, PlanStep,
     SubscriptionStep

-----------------------------------------------------------------------------

LEMMA SubscriptionsInitInv ==
  ASSUME SubscriptionsInit
  PROVE  SubscriptionsInv
<1> USE DEF SubscriptionsInit
<1>1. SubscriptionsTypeOK
  BY IdleType, SubscriptionsAssumption DEF SubscriptionsTypeOK, SubRows, NoSubRow, SubSteps
<1>2. LocalsOK /\ RowsOK
  BY DEF LocalsOK, RowsOK, NoSubRow
<1>3. AlwaysOnePlan
  BY SubscriptionsAssumption DEF AlwaysOnePlan, Active, NoSubRow
<1>4. RenewalsInv /\ IncrementsInv /\ PricesInv
  BY DEF RenewalsInv, IncrementsInv, PricesInv
<1> QED
  BY <1>1, <1>2, <1>3, <1>4 DEF SubscriptionsInv

LEMMA OneAtStays ==
  ASSUME UNCHANGED duties, NEW kinds
  PROVE  OneAt(kinds)' <=> OneAt(kinds)
BY DEF OneAt

LEMMA SubscriptionsStepInv ==
  ASSUME SubscriptionsInv, [SubscriptionsNext]_subscriptionsVars
  PROVE  SubscriptionsInv'
<1>1. ASSUME NEW w \in Clerks, PlatformStep(w), UNCHANGED duties PROVE SubscriptionsInv'
  <2>1. SubscriptionsTypeOK /\ LocalsOK /\ RowsOK /\ AlwaysOnePlan
    BY DEF SubscriptionsInv
  <2>2. SubscriptionsTypeOK' /\ LocalsOK' /\ RowsOK' /\ AlwaysOnePlan'
    BY <1>1, <2>1, StepTypes, LocalsStep, RowsStep, OnePlanStep
  <2>3. OneAt({"renew"}) => RenewalsInv'
    BY <1>1, <2>1, RenewalsStep DEF SubscriptionsInv
  <2>4. OneAt({"update", "increment"}) => IncrementsInv'
    BY <1>1, <2>1, IncrementsStep DEF SubscriptionsInv
  <2>5. OneAt(PlanRequests) => PricesInv'
    BY <1>1, <2>1, PricesStep DEF SubscriptionsInv
  <2> QED
    BY <1>1, <2>2, <2>3, <2>4, <2>5 DEF SubscriptionsInv, OneAt, PlanRequests
<1>2. ASSUME UNCHANGED <<duties, plans, subs, pc, job>>, SubscriptionsTypeOK'
      PROVE  SubscriptionsInv'
  <2>1. LocalsOK' /\ RowsOK' /\ AlwaysOnePlan'
    BY <1>2 DEF SubscriptionsInv, LocalsOK, RowsOK, AlwaysOnePlan, Active, ChangesComplete,
       Changing
  <2>2. /\ OneAt({"renew"}) => RenewalsInv'
        /\ OneAt({"update", "increment"}) => IncrementsInv'
        /\ OneAt(PlanRequests) => PricesInv'
    BY <1>2 DEF SubscriptionsInv, RenewalsInv, IncrementsInv, PricesInv, ContractedPrice
  <2> QED
    BY <1>2, <2>1, <2>2 DEF SubscriptionsInv, OneAt, PlanRequests
<1>3. CASE Tick /\ UNCHANGED duties
  BY <1>2, <1>3 DEF Tick, SubscriptionsInv, SubscriptionsTypeOK
<1>4. CASE UNCHANGED subscriptionsVars
  BY <1>2, <1>4 DEF subscriptionsVars, SubscriptionsInv, SubscriptionsTypeOK
<1> QED
  BY <1>1, <1>3, <1>4 DEF SubscriptionsNext, PlatformStep

\* The inductive invariant: what each request holds while it is under way, whoever else
\* serves requests of the same kind.
THEOREM SubscriptionsInvariant == SubscriptionsSpec => []SubscriptionsInv
<1>1. SubscriptionsInit => SubscriptionsInv
  BY SubscriptionsInitInv
<1>2. SubscriptionsInv /\ [SubscriptionsNext]_subscriptionsVars => SubscriptionsInv'
  BY SubscriptionsStepInv
<1> QED
  BY <1>1, <1>2, PTL DEF SubscriptionsSpec

\* Assign cancels and then creates in two statements, yet a company never has two plans,
\* and is left without one only by a crash or a failure between the two.
THEOREM AlwaysOnePlanHolds == SubscriptionsSpec => []AlwaysOnePlan
<1>1. SubscriptionsInv => AlwaysOnePlan
  BY DEF SubscriptionsInv
<1> QED
  BY <1>1, SubscriptionsInvariant, PTL

-----------------------------------------------------------------------------
(* Action properties.                                                      *)

RetroactiveNever ==
  OneAt({"renew"}) => \A s \in Subs :
    subs[s].status # "none" /\ (subs'[s].price # subs[s].price \/ subs'[s].end # subs[s].end)
      => subs'[s].end > subs[s].end

\* One request at a time renews: what a subscription costs changes only with a later end.
THEOREM NotRetroactiveHolds == SubscriptionsSpec => NotRetroactive
<1>1. ASSUME SubscriptionsInv, [SubscriptionsNext]_subscriptionsVars
      PROVE  [RetroactiveNever]_subscriptionsVars
  <2>1. SubscriptionsTypeOK /\ LocalsOK /\ RowsOK
    BY <1>1 DEF SubscriptionsInv
  <2>2. CASE UNCHANGED subscriptionsVars
    BY <2>2
  <2>3. CASE Tick
    BY <2>3 DEF Tick, RetroactiveNever
  <2>4. ASSUME NEW w \in Clerks, PlatformStep(w), UNCHANGED duties PROVE RetroactiveNever
    <3> SUFFICES ASSUME OneAt({"renew"}), NEW s \in Subs, subs[s].status # "none",
                        subs'[s].price # subs[s].price \/ subs'[s].end # subs[s].end
                 PROVE  subs'[s].end > subs[s].end
      BY DEF RetroactiveNever
    <3>1. RenewSub(w)
      BY <2>1, <2>4, EndsKept
    <3>2. pc[w] = "renew" /\ s = job[w].sub /\ subs'[s].end = job[w].end
      BY <2>1, <3>1, RenewSubWrites
    <3>3. subs[s].end < job[w].end
      BY <1>1, <3>2 DEF SubscriptionsInv, RenewalsInv
    <3>4. subs[s].end \in Nat /\ job[w].end \in Nat
      BY <2>1 DEF SubscriptionsTypeOK, SubRows, SubJobs
    <3> QED
      BY <3>2, <3>3, <3>4
  <2> QED
    BY <1>1, <2>2, <2>3, <2>4 DEF SubscriptionsNext, PlatformStep
<1> QED
  BY <1>1, SubscriptionsInvariant, PTL DEF SubscriptionsSpec, NotRetroactive, RetroactiveNever

CurrentPrice ==
  OneAt(PlanRequests) => \A s \in Subs :
    subs'[s].end # subs[s].end =>
      LET row == plans[subs'[s].plan] IN
      /\ subs'[s].price = ContractedPrice(row, subs'[s].own)
      /\ subs[s].status = "none" => row.active

\* One request at a time: a subscription is made or renewed at what its plan costs then.
THEOREM PriceIsCurrentHolds == SubscriptionsSpec => PriceIsCurrent
<1>1. ASSUME SubscriptionsInv, [SubscriptionsNext]_subscriptionsVars
      PROVE  [CurrentPrice]_subscriptionsVars
  <2>1. SubscriptionsTypeOK /\ LocalsOK /\ RowsOK
    BY <1>1 DEF SubscriptionsInv
  <2>2. CASE UNCHANGED subscriptionsVars
    BY <2>2
  <2>3. CASE Tick
    BY <2>3 DEF Tick, CurrentPrice
  <2>4. ASSUME NEW w \in Clerks, PlatformStep(w), UNCHANGED duties PROVE CurrentPrice
    <3> SUFFICES ASSUME OneAt(PlanRequests), NEW s \in Subs, subs'[s].end # subs[s].end
                 PROVE  LET row == plans[subs'[s].plan] IN
                        /\ subs'[s].price = ContractedPrice(row, subs'[s].own)
                        /\ subs[s].status = "none" => row.active
      BY DEF CurrentPrice
    <3>1. PricesInv
      BY <1>1 DEF SubscriptionsInv
    <3>2. CASE RenewSub(w)
      <4>1. /\ pc[w] = "renew" /\ subs[s].status # "none" /\ subs'[s].price = job[w].price
            /\ subs'[s].plan = job[w].plan /\ subs'[s].own = job[w].own
        BY <2>1, <3>2, RenewSubWrites
      <4> QED
        BY <3>1, <4>1 DEF PricesInv
    <3>3. CASE CreateSub(w)
      <4>1. pc[w] = "create" /\ subs'[s] = NewSub(job[w])
        BY <2>1, <3>3 DEF CreateSub, SubscriptionsTypeOK
      <4>2. /\ subs'[s].price = job[w].price /\ subs'[s].plan = job[w].plan
            /\ subs'[s].own = job[w].own
        BY <4>1 DEF NewSub
      <4> QED
        BY <3>1, <4>1, <4>2 DEF PricesInv
    <3>4. CASE CancelActive(w)
      BY <2>1, <3>4 DEF CancelActive, SubscriptionsTypeOK, SubRows
    <3> QED
      BY <2>1, <2>4, <3>2, <3>3, <3>4, SubsUnchanged
  <2> QED
    BY <1>1, <2>2, <2>3, <2>4 DEF SubscriptionsNext, PlatformStep
<1> QED
  BY <1>1, SubscriptionsInvariant, PTL DEF SubscriptionsSpec, PriceIsCurrent, CurrentPrice

OnlyRaised ==
  OneAt({"update", "increment"}) =>
    \A p \in Plans : (\E w \in Clerks : WriteIncrement(w)) =>
      /\ [plans'[p] EXCEPT !.price = 0] = [plans[p] EXCEPT !.price = 0]
      /\ plans'[p].price >= plans[p].price

\* One request at a time edits plans: an increment changes nothing but the price, upwards.
THEOREM IncrementOnlyRaisesHolds == SubscriptionsSpec => IncrementOnlyRaises
<1>1. ASSUME SubscriptionsInv, [SubscriptionsNext]_subscriptionsVars
      PROVE  [OnlyRaised]_subscriptionsVars
  <2> SUFFICES ASSUME OneAt({"update", "increment"}), NEW p \in Plans, NEW w \in Clerks, WriteIncrement(w)
               PROVE  /\ [plans'[p] EXCEPT !.price = 0] = [plans[p] EXCEPT !.price = 0]
                      /\ plans'[p].price >= plans[p].price
    BY DEF OnlyRaised
  <2>1. SubscriptionsTypeOK /\ LocalsOK /\ IncrementsInv
    BY <1>1 DEF SubscriptionsInv
  <2> DEFINE row == plans[job[w].plan]
  <2>2. pc[w] = "write" /\ job[w].plan \in Plans /\ job[w].row = row
    BY <2>1 DEF WriteIncrement, LocalsOK, IncrementsInv
  <2>3. plans' = [plans EXCEPT ![job[w].plan] = [row EXCEPT !.price = Raised(row.price)]]
    BY <2>2 DEF WriteIncrement
  <2>4. row \in PlanRows /\ plans[p] \in PlanRows
    BY <2>1, <2>2 DEF SubscriptionsTypeOK
  <2>5. Raised(row.price) \in Nat /\ Raised(row.price) >= row.price
    BY <2>4, RaisedPrice DEF PlanRows
  <2>6. CASE p = job[w].plan
    <3>1. plans'[p] = [row EXCEPT !.price = Raised(row.price)] /\ plans[p] = row
      BY <2>1, <2>2, <2>3, <2>6 DEF SubscriptionsTypeOK
    <3> HIDE DEF row
    <3> QED
      BY <2>4, <2>5, <3>1 DEF PlanRows
  <2>7. CASE p # job[w].plan
    <3>1. plans'[p] = plans[p]
      BY <2>1, <2>2, <2>3, <2>7 DEF SubscriptionsTypeOK
    <3> QED
      BY <2>4, <3>1 DEF PlanRows
  <2> QED
    BY <2>6, <2>7
<1> QED
  BY <1>1, SubscriptionsInvariant, PTL DEF SubscriptionsSpec, IncrementOnlyRaises, OnlyRaised

-----------------------------------------------------------------------------
(* The desks.  Each step, with what it does to the request that takes it   *)
(* and to the tables of its desk; then the desks at which nothing happens  *)
(* in it, each desk's own part of the invariant, and all desks together.   *)

\* A step of w that leaves the locals of the others alone and keeps the types.
Serves(w) ==
  /\ pc' \in [Clerks -> Steps] /\ job' \in [Clerks -> Jobs]
  /\ Others(w)

LEMMA Going ==
  ASSUME TypeOK, NEW w \in Clerks, NEW step \in Steps, NEW j \in Jobs, Goes(w, step, j)
  PROVE  Serves(w) /\ pc'[w] = step /\ job'[w] = j
BY DEF TypeOK, Goes, Goto, Serves, Others

LEMMA Ending ==
  ASSUME TypeOK, NEW w \in Clerks, End(w)
  PROVE  Serves(w) /\ pc'[w] = "idle" /\ job'[w] = Idle
<1>1. Idle \in Jobs /\ "idle" \in Steps
  BY DEF Jobs, Steps
<1> QED
  BY <1>1, Going DEF End

LEMMA Beginning ==
  ASSUME TypeOK, NEW w \in Clerks, NEW step \in Steps, NEW j \in Jobs, Begin(w, step, j)
  PROVE  Serves(w) /\ pc'[w] = step /\ job'[w] = j /\ UNCHANGED database
BY Going DEF Begin

LEMMA Staying ==
  ASSUME TypeOK, NEW w \in Clerks, UNCHANGED <<pc, job>>
  PROVE  Serves(w)
BY DEF TypeOK, Serves, Others

-----------------------------------------------------------------------------
(* A desk at which nothing happens.                                        *)

LEMMA QuotesStay ==
  ASSUME QuotesInv, NEW w \in Clerks, Others(w), UNCHANGED <<duties, quoteTables>>,
         pc'[w] \notin QuoteSteps
  PROVE  QuotesInv'
<1>1. ASSUME NEW v \in Clerks PROVE QuoteJobOK(v)'
  <2>1. CASE v = w
    BY <2>1 DEF QuoteJobOK
  <2>2. CASE v # w
    <3>1. QuoteJobOK(v) /\ pc'[v] = pc[v] /\ job'[v] = job[v] /\ quotes' = quotes /\ duties' = duties
      BY <2>2 DEF Others, QuotesInv, quoteTables
    <3> QED
      BY <3>1 DEF QuoteJobOK
  <2> QED
    BY <2>1, <2>2
<1> QED
  BY <1>1 DEF QuotesInv, quoteTables

LEMMA MailStays ==
  ASSUME MailInv, NEW w \in Clerks, Others(w), UNCHANGED <<duties, quotes, mailed>>,
         pc'[w] # "quote mail", ~ (pc[w] = "quote status" /\ "mail" \in duties[w])
  PROVE  MailInv'
<1>1. ASSUME NEW q \in Quotes, Sending(q) PROVE Sending(q)'
  <2>1. PICK v \in Clerks : pc[v] = "quote status" /\ "mail" \in duties[v] /\ job[v].quote = q
    BY <1>1 DEF Sending
  <2>2. v # w
    BY <2>1
  <2> QED
    BY <2>1, <2>2 DEF Sending, Others
<1>2. ASSUME NEW v \in Clerks, pc'[v] = "quote mail" PROVE pc[v] = "quote mail" /\ job'[v] = job[v]
  BY <1>2 DEF Others
<1> QED
  BY <1>1, <1>2 DEF MailInv

LEMMA PartiesStay ==
  ASSUME PartiesInv, NEW w \in Clerks, Others(w), UNCHANGED <<duties, parties>>,
         pc'[w] \notin PartySteps
  PROVE  PartiesInv' /\ (ConsentInv => ConsentInv')
<1>1. ASSUME NEW v \in Clerks, v # w PROVE PartyJobOK(v)'
  <2>1. PartyJobOK(v) /\ pc'[v] = pc[v] /\ job'[v] = job[v]
    BY <1>1 DEF Others, PartiesInv
  <2> QED
    BY <2>1 DEF PartyJobOK
<1>2. PartyJobOK(w)'
  BY DEF PartyJobOK
<1>3. ASSUME ConsentInv PROVE ConsentInv'
  BY <1>3 DEF ConsentInv, Others, PartySteps
<1> QED
  BY <1>1, <1>2, <1>3 DEF PartiesInv

LEMMA WarehousesStay ==
  ASSUME WarehousesInv, NEW w \in Clerks, Others(w), UNCHANGED warehouses,
         pc'[w] \notin WarehouseSteps
  PROVE  WarehousesInv'
<1>1. Existing' = Existing /\ Defaults' = Defaults
  BY DEF Existing, Defaults
<1>2. ASSUME NEW v \in Clerks, v # w PROVE WarehouseJobOK(v)'
  <2>1. WarehouseJobOK(v) /\ pc'[v] = pc[v] /\ job'[v] = job[v]
    BY <1>2 DEF Others, WarehousesInv
  <2> QED
    BY <1>1, <2>1 DEF WarehouseJobOK
<1>3. WarehouseJobOK(w)'
  BY DEF WarehouseJobOK
<1>4. OneDefaultWarehouse'
  BY <1>1 DEF WarehousesInv, OneDefaultWarehouse
<1> QED
  BY <1>2, <1>3, <1>4 DEF WarehousesInv

OthersInv == \A w \in Clerks : OtherJobOK(w)

LEMMA OthersStay ==
  ASSUME OthersInv, NEW w \in Clerks, Others(w), OtherJobOK(w)'
  PROVE  OthersInv'
BY DEF OthersInv, OtherJobOK, Others

LEMMA DocumentsStay ==
  ASSUME DocumentsInv, NEW w \in Clerks, Others(w), UNCHANGED <<duties, documentTables>>,
         pc'[w] \notin DocumentSteps
  PROVE  DocumentsInv' /\ (SignInv => SignInv')
<1>1. ASSUME NEW v \in Clerks, v # w PROVE DocumentJobOK(v)'
  <2>1. DocumentJobOK(v) /\ pc'[v] = pc[v] /\ job'[v] = job[v]
    BY <1>1 DEF Others, DocumentsInv
  <2> QED
    BY <2>1 DEF DocumentJobOK, documentTables
<1>2. DocumentJobOK(w)'
  BY DEF DocumentJobOK
<1>3. ASSUME SignInv PROVE SignInv'
  <2>1. Drafts' = Drafts
    BY DEF Drafts, documentTables
  <2> QED
    BY <1>3, <2>1 DEF SignInv, Others, DocumentSteps, documentTables
<1> QED
  BY <1>1, <1>2, <1>3 DEF DocumentsInv, documentTables

-----------------------------------------------------------------------------
(* Quotes.                                                                 *)

\* A quote that was saved is deleted or stays, and is not edited once it was sent.
QuotesGrow ==
  \A q \in Quotes : quotes[q] # NoRow =>
    /\ quotes'[q] # NoRow
    /\ Row(quotes'[q]) =>
         /\ Row(quotes[q])
         /\ quotes[q].status # "draft" =>
              quotes'[q].status # "draft" /\ quotes'[q].lines = quotes[q].lines

\* What every step at the desk does.
QuoteEffect(w) ==
  /\ Serves(w) /\ UNCHANGED otherThanQuotes
  /\ pc[w] \in QuoteSteps \cup {"idle"} /\ pc'[w] \in QuoteSteps \cup {"idle"}
  /\ quotes' \in [Quotes -> QuoteRows \cup {NoRow, Deleted}]
  /\ mailed' \in [Quotes -> Lines \cup {NoRow}]
  /\ sales' \in [Sales -> SaleRows \cup {NoRow}]
  /\ counter' \in [{"quote", "sale"} -> Nat]
  /\ QuotesGrow

LEMMA QuoteBegins ==
  ASSUME TypeOK, NEW w \in Clerks, NEW step \in QuoteSteps, NEW q \in Quotes \cup {NoRow},
         NEW l \in Lines \cup {NoRow}, NEW status \in QuoteStatuses,
         pc[w] = "idle", Begin(w, step, QuoteJob(q, l, status))
  PROVE  /\ QuoteEffect(w) /\ UNCHANGED quoteTables
         /\ pc'[w] = step /\ job'[w] \in QuoteJobs
         /\ job'[w].quote = q /\ job'[w].lines = l /\ job'[w].status = status
<1> DEFINE j == QuoteJob(q, l, status)
<1>1. j \in QuoteJobs /\ j.quote = q /\ j.lines = l /\ j.status = status
  BY DEF QuoteJob, QuoteJobs
<1>2. j \in Jobs /\ step \in Steps
  BY <1>1 DEF Jobs, Steps
<1> HIDE DEF j
<1>3. Serves(w) /\ pc'[w] = step /\ job'[w] = j /\ UNCHANGED database
  BY <1>2, Beginning DEF j
<1>4. UNCHANGED <<quotes, mailed, sales, counter, otherThanQuotes>>
  BY <1>3 DEF database, quoteTables
<1>5. QuotesGrow
  BY <1>4 DEF QuotesGrow
<1> QED
  BY <1>1, <1>3, <1>4, <1>5 DEF QuoteEffect, TypeOK, quoteTables

\* A request that is at one of the statements.
LEMMA QuoteAt ==
  ASSUME TypeOK, QuotesInv, NEW w \in Clerks, pc[w] \in QuoteSteps
  PROVE  /\ job[w] \in QuoteJobs
         /\ pc[w] \notin {"quote status", "delete quote"} => job[w].lines \in Lines
         /\ pc[w] \in {"quote mail", "quote status"} => job[w].status # "draft"
         /\ pc[w] \notin {"quote number", "save quote"} =>
              job[w].quote \in Quotes /\ quotes[job[w].quote] # NoRow
BY DEF QuotesInv, QuoteJobOK

LEMMA NextNumberMoves ==
  ASSUME TypeOK, QuotesInv, NEW w \in Clerks, NEW kind \in {"quote", "sale"},
         NEW step \in QuoteSteps, pc[w] \in QuoteSteps, NextNumber(w, kind, step)
  PROVE  /\ QuoteEffect(w) /\ UNCHANGED <<quotes, mailed, sales>>
         /\ \/ pc'[w] = "idle"
            \/ /\ pc'[w] = step /\ job'[w] \in QuoteJobs
               /\ job'[w].quote = job[w].quote /\ job'[w].lines = job[w].lines
<1> DEFINE n == counter[kind] + 1
           j == [job[w] EXCEPT !.number = n]
<1>1. n \in Nat /\ counter' \in [{"quote", "sale"} -> Nat]
  BY DEF NextNumber, TypeOK
<1>2. j \in QuoteJobs /\ j.quote = job[w].quote /\ j.lines = job[w].lines
  BY <1>1, QuoteAt DEF QuoteJobs
<1>3. j \in Jobs /\ step \in Steps
  BY <1>2 DEF Jobs, Steps
<1>4. UNCHANGED <<quotes, mailed, sales, otherThanQuotes>>
  BY DEF NextNumber
<1>5. Goes(w, step, j) \/ End(w)
  BY DEF NextNumber, Done
<1> HIDE DEF j
<1>6. Serves(w) /\ (pc'[w] = "idle" \/ (pc'[w] = step /\ job'[w] = j))
  BY <1>3, <1>5, Going, Ending
<1>7. QuotesGrow
  BY <1>4 DEF QuotesGrow
<1> QED
  BY <1>1, <1>2, <1>4, <1>6, <1>7 DEF QuoteEffect, TypeOK

LEMMA SaveQuoteMoves ==
  ASSUME TypeOK, QuotesInv, NEW w \in Clerks, SaveQuote(w)
  PROVE  /\ QuoteEffect(w) /\ UNCHANGED <<mailed, sales>> /\ pc'[w] = "idle"
         /\ \E q \in Quotes : quotes[q] = NoRow /\ \A p \in Quotes \ {q} : quotes'[p] = quotes[p]
<1>1. job[w] \in QuoteJobs /\ job[w].lines \in Lines /\ pc[w] = "save quote"
  BY QuoteAt DEF SaveQuote, QuoteSteps
<1> DEFINE row == [status |-> "draft", lines |-> job[w].lines, number |-> job[w].number]
<1>2. row \in QuoteRows
  BY <1>1 DEF QuoteRows, QuoteStatuses, QuoteJobs
<1>3. PICK q \in Quotes : quotes[q] = NoRow /\ quotes' = [quotes EXCEPT ![q] = row]
  BY DEF SaveQuote
<1> HIDE DEF row
<1>4. /\ quotes' \in [Quotes -> QuoteRows \cup {NoRow, Deleted}]
      /\ \A p \in Quotes \ {q} : quotes'[p] = quotes[p]
  BY <1>2, <1>3 DEF TypeOK
<1>5. Serves(w) /\ pc'[w] = "idle"
  BY Ending DEF SaveQuote
<1>6. QuotesGrow
  BY <1>3, <1>4 DEF QuotesGrow
<1>7. UNCHANGED <<mailed, sales, counter, otherThanQuotes>>
  BY DEF SaveQuote
<1> QED
  BY <1>1, <1>3, <1>4, <1>5, <1>6, <1>7 DEF QuoteEffect, TypeOK, QuoteSteps

\* An edit of a draft, or the new status of any.
LEMMA QuoteWritten ==
  ASSUME TypeOK, NEW q \in Quotes, Row(quotes[q]), NEW row \in QuoteRows,
         quotes[q].status = "draft" \/ (row.status # "draft" /\ row.lines = quotes[q].lines),
         quotes' = [quotes EXCEPT ![q] = row]
  PROVE  /\ QuotesGrow /\ quotes' \in [Quotes -> QuoteRows \cup {NoRow, Deleted}]
         /\ quotes'[q] = row /\ \A p \in Quotes \ {q} : quotes'[p] = quotes[p]
<1>1. row # NoRow
  BY RowsAssumption
<1> QED
  BY <1>1 DEF TypeOK, QuotesGrow

LEMMA handleUpdateQuoteMoves ==
  ASSUME TypeOK, NEW w \in Clerks, NEW q \in Quotes, NEW l \in Lines, handleUpdateQuote(w, q, l)
  PROVE  /\ QuoteEffect(w) /\ UNCHANGED <<mailed, sales, pc, job>>
         /\ pc[w] = "idle" /\ "edit quote" \in duties[w]
         /\ Row(quotes[q]) /\ quotes[q].status = "draft"
         /\ \A p \in Quotes \ {q} : quotes'[p] = quotes[p]
<1> DEFINE row == [quotes[q] EXCEPT !.lines = l]
<1>1. Row(quotes[q]) /\ quotes[q].status = "draft"
  BY DEF handleUpdateQuote, UpdateQuote, QuoteIs
<1>2. quotes[q] \in QuoteRows
  BY <1>1 DEF TypeOK, Row
<1>3. row \in QuoteRows /\ row.status = "draft"
  BY <1>1, <1>2 DEF QuoteRows
<1>4. quotes' = [quotes EXCEPT ![q] = row]
  BY DEF handleUpdateQuote, UpdateQuote
<1> HIDE DEF row
<1>5. /\ QuotesGrow /\ quotes' \in [Quotes -> QuoteRows \cup {NoRow, Deleted}]
      /\ \A p \in Quotes \ {q} : quotes'[p] = quotes[p]
  BY <1>1, <1>3, <1>4, QuoteWritten
<1>6. /\ UNCHANGED <<mailed, sales, counter, otherThanQuotes, pc, job>>
      /\ pc[w] = "idle" /\ "edit quote" \in duties[w]
  BY DEF handleUpdateQuote, Takes
<1>7. Serves(w)
  BY <1>6, Staying
<1> QED
  BY <1>1, <1>5, <1>6, <1>7 DEF QuoteEffect, TypeOK

LEMMA NotifyMoves ==
  ASSUME TypeOK, QuotesInv, NEW w \in Clerks, Notify(w)
  PROVE  /\ QuoteEffect(w) /\ UNCHANGED <<quotes, sales>> /\ pc[w] = "quote mail"
         /\ mailed' = [mailed EXCEPT ![job[w].quote] = job[w].lines]
         /\ \/ pc'[w] = "quote status" /\ job'[w] = job[w]
            \/ pc'[w] = "idle" /\ Faults[w] # {}
<1>1. /\ pc[w] = "quote mail" /\ job[w].quote \in Quotes /\ job[w].lines \in Lines
      /\ job[w] \in Jobs
  BY QuoteAt DEF Notify, QuoteSteps, TypeOK
<1>2. mailed' \in [Quotes -> Lines \cup {NoRow}]
  BY <1>1 DEF Notify, TypeOK
<1>3. UNCHANGED <<quotes, sales, counter, otherThanQuotes>>
  BY DEF Notify
<1>4. "quote status" \in Steps
  BY DEF Steps, QuoteSteps
<1>5. Goes(w, "quote status", job[w]) \/ ("failure" \in Faults[w] /\ End(w))
  BY DEF Notify, Done
<1>6. /\ Serves(w)
      /\ \/ pc'[w] = "quote status" /\ job'[w] = job[w]
         \/ pc'[w] = "idle" /\ Faults[w] # {}
  BY <1>1, <1>4, <1>5, Going, Ending
<1>7. QuotesGrow
  BY <1>3 DEF QuotesGrow
<1> QED
  BY <1>1, <1>2, <1>3, <1>6, <1>7 DEF QuoteEffect, TypeOK, QuoteSteps, Notify

LEMMA UpdateQuoteStatusMoves ==
  ASSUME TypeOK, QuotesInv, NEW w \in Clerks, UpdateQuoteStatus(w)
  PROVE  /\ QuoteEffect(w) /\ UNCHANGED <<mailed, sales>>
         /\ pc[w] = "quote status" /\ pc'[w] = "idle" /\ job[w].quote \in Quotes
         /\ \A p \in Quotes \ {job[w].quote} : quotes'[p] = quotes[p]
         /\ Row(quotes'[job[w].quote]) =>
              /\ Row(quotes[job[w].quote]) /\ quotes'[job[w].quote].status # "draft"
              /\ quotes'[job[w].quote].lines = quotes[job[w].quote].lines
<1>1. /\ pc[w] = "quote status" /\ job[w] \in QuoteJobs /\ job[w].quote \in Quotes
      /\ job[w].status # "draft"
  BY QuoteAt DEF UpdateQuoteStatus, QuoteSteps
<1>2. PICK q \in Quotes : q = job[w].quote
  BY <1>1
<1>3. /\ QuotesGrow /\ quotes' \in [Quotes -> QuoteRows \cup {NoRow, Deleted}]
      /\ \A p \in Quotes \ {q} : quotes'[p] = quotes[p]
      /\ Row(quotes'[q]) => /\ Row(quotes[q]) /\ quotes'[q].status # "draft"
                            /\ quotes'[q].lines = quotes[q].lines
  <2>1. CASE Row(quotes[q])
    <3> DEFINE row == [quotes[q] EXCEPT !.status = job[w].status]
    <3>1. quotes[q] \in QuoteRows
      BY <2>1 DEF TypeOK, Row
    <3>2. row \in QuoteRows /\ row.status # "draft" /\ row.lines = quotes[q].lines
      BY <1>1, <3>1 DEF QuoteRows, QuoteJobs
    <3>3. quotes' = [quotes EXCEPT ![q] = row]
      BY <1>2, <2>1 DEF UpdateQuoteStatus
    <3> HIDE DEF row
    <3> QED
      BY <2>1, <3>2, <3>3, QuoteWritten
  <2>2. CASE ~ Row(quotes[q])
    BY <1>2, <2>2 DEF UpdateQuoteStatus, QuotesGrow, TypeOK
  <2> QED
    BY <2>1, <2>2
<1>4. Serves(w) /\ pc'[w] = "idle" /\ UNCHANGED <<mailed, sales, counter, otherThanQuotes>>
  BY Ending DEF UpdateQuoteStatus
<1> QED
  BY <1>1, <1>2, <1>3, <1>4 DEF QuoteEffect, TypeOK, QuoteSteps

LEMMA SaveSaleMoves ==
  ASSUME TypeOK, QuotesInv, NEW w \in Clerks, SaveSale(w)
  PROVE  /\ QuoteEffect(w) /\ UNCHANGED <<quotes, mailed>>
         /\ pc[w] = "save sale" /\ pc'[w] = "idle"
         /\ \E s \in Sales : /\ \A t \in Sales \ {s} : sales'[t] = sales[t]
                            /\ sales'[s].quote = job[w].quote /\ sales'[s].lines = job[w].lines
<1>1. /\ pc[w] = "save sale" /\ job[w] \in QuoteJobs /\ job[w].lines \in Lines
      /\ job[w].quote \in Quotes
  BY QuoteAt DEF SaveSale, QuoteSteps
<1> DEFINE row == [quote |-> job[w].quote, lines |-> job[w].lines, number |-> job[w].number]
<1>2. row \in SaleRows /\ row.quote = job[w].quote /\ row.lines = job[w].lines
  BY <1>1 DEF SaleRows, QuoteJobs
<1>3. PICK s \in Sales : sales' = [sales EXCEPT ![s] = row]
  BY DEF SaveSale
<1> HIDE DEF row
<1>4. /\ sales' \in [Sales -> SaleRows \cup {NoRow}] /\ sales'[s] = row
      /\ \A t \in Sales \ {s} : sales'[t] = sales[t]
  BY <1>2, <1>3 DEF TypeOK
<1>5. Serves(w) /\ pc'[w] = "idle" /\ UNCHANGED <<quotes, mailed, counter, otherThanQuotes>>
  BY Ending DEF SaveSale
<1>6. QuotesGrow
  BY <1>5 DEF QuotesGrow
<1> QED
  BY <1>1, <1>2, <1>4, <1>5, <1>6 DEF QuoteEffect, TypeOK, QuoteSteps

LEMMA DeleteQuoteRowMoves ==
  ASSUME TypeOK, QuotesInv, NEW w \in Clerks, DeleteQuoteRow(w)
  PROVE  /\ QuoteEffect(w) /\ UNCHANGED <<mailed, sales>>
         /\ pc[w] = "delete quote" /\ pc'[w] = "idle"
         /\ \A p \in Quotes : Row(quotes'[p]) => quotes'[p] = quotes[p]
<1>1. pc[w] = "delete quote" /\ job[w].quote \in Quotes
  BY QuoteAt DEF DeleteQuoteRow, QuoteSteps
<1>2. PICK q \in Quotes : q = job[w].quote
  BY <1>1
<1>3. quotes' = [quotes EXCEPT ![q] = Deleted]
  BY <1>2 DEF DeleteQuoteRow
<1>4. QuotesGrow
  BY <1>3, FrontOfficeAssumption DEF TypeOK, QuotesGrow, Row
<1>5. /\ quotes' \in [Quotes -> QuoteRows \cup {NoRow, Deleted}]
      /\ \A p \in Quotes : Row(quotes'[p]) => quotes'[p] = quotes[p]
  BY <1>3 DEF TypeOK, Row
<1>6. Serves(w) /\ pc'[w] = "idle" /\ UNCHANGED <<mailed, sales, counter, otherThanQuotes>>
  BY Ending DEF DeleteQuoteRow
<1> QED
  BY <1>1, <1>4, <1>5, <1>6 DEF QuoteEffect, TypeOK, QuoteSteps

LEMMA SetCounterMoves ==
  ASSUME TypeOK, NEW w \in Clerks, NEW n \in 1..MaxNumber, SetQuoteNumberCounter(w, n)
  PROVE  QuoteEffect(w) /\ UNCHANGED <<quotes, mailed, sales, pc, job>> /\ pc[w] = "idle"
<1>1. n - 1 \in Nat
  BY FrontOfficeAssumption
<1>2. counter' \in [{"quote", "sale"} -> Nat]
  BY <1>1 DEF SetQuoteNumberCounter, TypeOK
<1>3. UNCHANGED <<quotes, mailed, sales, otherThanQuotes, pc, job>> /\ pc[w] = "idle"
  BY DEF SetQuoteNumberCounter, Takes
<1>4. Serves(w) /\ QuotesGrow
  BY <1>3, Staying DEF QuotesGrow
<1> QED
  BY <1>2, <1>3, <1>4 DEF QuoteEffect, TypeOK

\* The requests of more than one statement.
QuoteBegin(w) ==
  \/ \E l \in Lines : handleCreateQuote(w, l)
  \/ \E q \in Quotes :
       \/ handleSendQuote(w, q) \/ handleSendQuoteEmail(w, q) \/ handleAcceptQuote(w, q)
       \/ handleRejectQuote(w, q) \/ handleConvertQuoteToSale(w, q) \/ handleDeleteQuote(w, q)

\* What a request of quotes that begins has read.
LEMMA QuoteBeginsOK ==
  ASSUME TypeOK, QuotesInv, NEW w \in Clerks, UNCHANGED duties, QuoteBegin(w)
  PROVE  /\ QuoteEffect(w) /\ UNCHANGED quoteTables /\ pc[w] = "idle"
         /\ QuoteJobOK(w)'
         /\ pc'[w] = "quote mail" /\ Row(quotes[job'[w].quote]) =>
              /\ "mail" \in duties[w]
              /\ quotes[job'[w].quote].lines = job'[w].lines
<1>1. ASSUME NEW l \in Lines, handleCreateQuote(w, l)
      PROVE  /\ QuoteEffect(w) /\ UNCHANGED quoteTables /\ pc[w] = "idle"
             /\ QuoteJobOK(w)' /\ pc'[w] # "quote mail"
  <2>1. pc[w] = "idle" /\ Begin(w, "quote number", QuoteJob(NoRow, l, "draft"))
    BY <1>1 DEF handleCreateQuote, Takes, CreateQuote
  <2>2. "quote number" \in QuoteSteps /\ "draft" \in QuoteStatuses
    BY DEF QuoteSteps, QuoteStatuses
  <2>3. /\ QuoteEffect(w) /\ UNCHANGED quoteTables
        /\ pc'[w] = "quote number" /\ job'[w] \in QuoteJobs /\ job'[w].lines = l
    BY <2>1, <2>2, QuoteBegins
  <2> QED
    BY <2>1, <2>3 DEF QuoteJobOK
\* Of those with a quote in their hands.
<1>2. ASSUME NEW q \in Quotes, NEW status \in QuoteStatuses, status # "draft",
             Takes(w, "send") \/ Takes(w, "decide"), Row(quotes[q]),
             Begin(w, "quote status", QuoteJob(q, NoRow, status))
      PROVE  /\ QuoteEffect(w) /\ UNCHANGED quoteTables /\ pc[w] = "idle"
             /\ QuoteJobOK(w)' /\ pc'[w] # "quote mail"
  <2>1. "quote status" \in QuoteSteps /\ pc[w] = "idle" /\ quotes[q] # NoRow
    BY <1>2 DEF QuoteSteps, Takes, Row
  <2>2. /\ QuoteEffect(w) /\ UNCHANGED quoteTables
        /\ pc'[w] = "quote status" /\ job'[w] \in QuoteJobs /\ job'[w].quote = q
        /\ job'[w].status = status
    BY <1>2, <2>1, QuoteBegins
  <2> QED
    BY <1>2, <2>1, <2>2 DEF QuoteJobOK, quoteTables
<1>3. ASSUME NEW q \in Quotes,
             handleSendQuote(w, q) \/ handleAcceptQuote(w, q) \/ handleRejectQuote(w, q)
      PROVE  /\ QuoteEffect(w) /\ UNCHANGED quoteTables /\ pc[w] = "idle"
             /\ QuoteJobOK(w)' /\ pc'[w] # "quote mail"
  <2>1. Row(quotes[q]) /\ (Takes(w, "send") \/ Takes(w, "decide"))
    BY <1>3 DEF handleSendQuote, SendQuote, handleAcceptQuote, handleRejectQuote, Decide, QuoteIs
  <2>2. PICK status \in {"sent", "accepted", "rejected"} :
          Begin(w, "quote status", QuoteJob(q, NoRow, status))
    BY <1>3 DEF handleSendQuote, SendQuote, handleAcceptQuote, handleRejectQuote, Decide
  <2>3. status \in QuoteStatuses /\ status # "draft"
    BY DEF QuoteStatuses
  <2> QED
    BY <1>2, <2>1, <2>2, <2>3
<1>4. ASSUME NEW q \in Quotes, handleSendQuoteEmail(w, q)
      PROVE  /\ QuoteEffect(w) /\ UNCHANGED quoteTables /\ pc[w] = "idle"
             /\ QuoteJobOK(w)' /\ "mail" \in duties[w]
             /\ job'[w].quote = q /\ quotes[q].lines = job'[w].lines
  <2>1. /\ pc[w] = "idle" /\ "mail" \in duties[w] /\ Row(quotes[q])
        /\ Begin(w, "quote mail", QuoteJob(q, quotes[q].lines, "sent"))
    BY <1>4 DEF handleSendQuoteEmail, Takes, SendQuoteEmail, QuoteIs
  <2>2. quotes[q].lines \in Lines /\ quotes[q] # NoRow
    BY <2>1 DEF TypeOK, Row, QuoteRows
  <2>3. PICK l \in Lines : l = quotes[q].lines
    BY <2>2
  <2>4. "quote mail" \in QuoteSteps /\ "sent" \in QuoteStatuses
    BY DEF QuoteSteps, QuoteStatuses
  <2>5. /\ QuoteEffect(w) /\ UNCHANGED quoteTables
        /\ pc'[w] = "quote mail" /\ job'[w] \in QuoteJobs
        /\ job'[w].quote = q /\ job'[w].lines = quotes[q].lines /\ job'[w].status = "sent"
    <3>1. Begin(w, "quote mail", QuoteJob(q, l, "sent")) /\ pc[w] = "idle"
      BY <2>1, <2>3
    <3>2. q \in Quotes \cup {NoRow} /\ l \in Lines \cup {NoRow}
      OBVIOUS
    <3>3. /\ QuoteEffect(w) /\ UNCHANGED quoteTables
          /\ pc'[w] = "quote mail" /\ job'[w] \in QuoteJobs
          /\ job'[w].quote = q /\ job'[w].lines = l /\ job'[w].status = "sent"
      BY ONLY TypeOK, w \in Clerks, <2>4, <3>1, <3>2, QuoteBegins
    <3> QED
      BY <2>3, <3>3
  <2> QED
    BY <2>1, <2>2, <2>5 DEF QuoteJobOK, quoteTables
<1>5. ASSUME NEW q \in Quotes, handleConvertQuoteToSale(w, q)
      PROVE  /\ QuoteEffect(w) /\ UNCHANGED quoteTables /\ pc[w] = "idle"
             /\ QuoteJobOK(w)' /\ pc'[w] # "quote mail"
  <2>1. /\ pc[w] = "idle" /\ Row(quotes[q]) /\ quotes[q].status = "accepted"
        /\ Begin(w, "sale number", QuoteJob(q, quotes[q].lines, "accepted"))
    BY <1>5 DEF handleConvertQuoteToSale, Takes, ConvertToSale, QuoteIs
  <2>2. quotes[q].lines \in Lines /\ quotes[q] # NoRow
    BY <2>1 DEF TypeOK, Row, QuoteRows
  <2>3. PICK l \in Lines : l = quotes[q].lines
    BY <2>2
  <2>4. "sale number" \in QuoteSteps /\ "accepted" \in QuoteStatuses
    BY DEF QuoteSteps, QuoteStatuses
  <2>5. /\ QuoteEffect(w) /\ UNCHANGED quoteTables
        /\ pc'[w] = "sale number" /\ job'[w] \in QuoteJobs
        /\ job'[w].quote = q /\ job'[w].lines = quotes[q].lines
    <3>1. Begin(w, "sale number", QuoteJob(q, l, "accepted")) /\ pc[w] = "idle"
      BY <2>1, <2>3
    <3>2. q \in Quotes \cup {NoRow} /\ l \in Lines \cup {NoRow}
      OBVIOUS
    <3>3. /\ QuoteEffect(w) /\ UNCHANGED quoteTables
          /\ pc'[w] = "sale number" /\ job'[w] \in QuoteJobs
          /\ job'[w].quote = q /\ job'[w].lines = l /\ job'[w].status = "accepted"
      BY ONLY TypeOK, w \in Clerks, <2>4, <3>1, <3>2, QuoteBegins
    <3> QED
      BY <2>3, <3>3
  <2> QED
    BY <2>1, <2>2, <2>5 DEF QuoteJobOK, quoteTables
<1>6. ASSUME NEW q \in Quotes, handleDeleteQuote(w, q)
      PROVE  /\ QuoteEffect(w) /\ UNCHANGED quoteTables /\ pc[w] = "idle"
             /\ QuoteJobOK(w)' /\ pc'[w] # "quote mail"
  <2>1. /\ pc[w] = "idle" /\ quotes[q] # NoRow
        /\ Begin(w, "delete quote", QuoteJob(q, NoRow, "draft"))
    BY <1>6 DEF handleDeleteQuote, Takes, DeleteQuote, QuoteIs, Row
  <2>2. "delete quote" \in QuoteSteps /\ "draft" \in QuoteStatuses
    BY DEF QuoteSteps, QuoteStatuses
  <2>3. /\ QuoteEffect(w) /\ UNCHANGED quoteTables
        /\ pc'[w] = "delete quote" /\ job'[w] \in QuoteJobs /\ job'[w].quote = q
    BY <2>1, <2>2, QuoteBegins
  <2> QED
    BY <2>1, <2>3 DEF QuoteJobOK, quoteTables
<1> QED
  BY <1>1, <1>3, <1>4, <1>5, <1>6 DEF QuoteBegin

\* Every step at the desk: its effect, and what the request has read after it.
LEMMA QuoteStepEffect ==
  ASSUME TypeOK, QuotesInv, NEW w \in Clerks, QuoteStep(w), UNCHANGED duties
  PROVE  QuoteEffect(w) /\ QuoteJobOK(w)'
<1>1. CASE QuoteBegin(w)
  BY <1>1, QuoteBeginsOK
<1>2. ASSUME NEW n \in 1..MaxNumber, SetQuoteNumberCounter(w, n)
      PROVE  QuoteEffect(w) /\ QuoteJobOK(w)'
  <2>1. QuoteEffect(w) /\ pc[w] = "idle" /\ pc' = pc
    BY <1>2, SetCounterMoves
  <2> QED
    BY <2>1 DEF QuoteJobOK, QuoteSteps
<1>3. ASSUME NEW q \in Quotes, NEW l \in Lines, handleUpdateQuote(w, q, l)
      PROVE  QuoteEffect(w) /\ QuoteJobOK(w)'
  <2>1. QuoteEffect(w) /\ pc[w] = "idle" /\ pc' = pc
    BY <1>3, handleUpdateQuoteMoves
  <2> QED
    BY <2>1 DEF QuoteJobOK, QuoteSteps
<1>4. CASE NextQuoteNumber(w)
  <2>1. pc[w] = "quote number" /\ pc[w] \in QuoteSteps /\ "save quote" \in QuoteSteps
        /\ NextNumber(w, "quote", "save quote")
    BY <1>4 DEF NextQuoteNumber, QuoteSteps
  <2>2. QuoteEffect(w)
    BY <2>1, NextNumberMoves
  <2>3. pc'[w] = "idle" \/ (pc'[w] = "save quote" /\ job'[w] \in QuoteJobs /\ job'[w].lines = job[w].lines)
    BY <2>1, NextNumberMoves
  <2>4. job[w].lines \in Lines
    BY <2>1, QuoteAt
  <2> QED
    BY <2>2, <2>3, <2>4 DEF QuoteJobOK, QuoteSteps
<1>5. CASE NextSaleNumber(w)
  <2>1. pc[w] = "sale number" /\ pc[w] \in QuoteSteps /\ "save sale" \in QuoteSteps
        /\ NextNumber(w, "sale", "save sale")
    BY <1>5 DEF NextSaleNumber, QuoteSteps
  <2>2. QuoteEffect(w) /\ quotes' = quotes
    BY <2>1, NextNumberMoves
  <2>3. \/ pc'[w] = "idle"
        \/ /\ pc'[w] = "save sale" /\ job'[w] \in QuoteJobs
           /\ job'[w].quote = job[w].quote /\ job'[w].lines = job[w].lines
    BY <2>1, NextNumberMoves
  <2>4. QuoteJobOK(w)
    BY DEF QuotesInv
  <2> QED
    BY <2>1, <2>2, <2>3, <2>4 DEF QuoteJobOK, QuoteSteps
<1>6. CASE Notify(w)
  <2>1. /\ QuoteEffect(w) /\ UNCHANGED quotes /\ pc[w] = "quote mail"
        /\ \/ pc'[w] = "quote status" /\ job'[w] = job[w]
           \/ pc'[w] = "idle"
    BY <1>6, NotifyMoves
  <2>2. QuoteJobOK(w)
    BY DEF QuotesInv
  <2> QED
    BY <2>1, <2>2 DEF QuoteJobOK, QuoteSteps
<1>7. CASE SaveQuote(w) \/ UpdateQuoteStatus(w) \/ SaveSale(w) \/ DeleteQuoteRow(w)
  <2>1. QuoteEffect(w) /\ pc'[w] = "idle"
    BY <1>7, SaveQuoteMoves, UpdateQuoteStatusMoves, SaveSaleMoves, DeleteQuoteRowMoves
  <2> QED
    BY <2>1 DEF QuoteJobOK, QuoteSteps
<1> QED
  BY <1>1, <1>2, <1>3, <1>4, <1>5, <1>6, <1>7 DEF QuoteStep, QuoteBegin


\* The quotes of the requests that wait.
LEMMA QuotesStep ==
  ASSUME TypeOK, QuotesInv, NEW w \in Clerks, QuoteStep(w), UNCHANGED duties
  PROVE  QuotesInv'
<1>1. QuoteEffect(w) /\ QuoteJobOK(w)'
  BY QuoteStepEffect
<1>2. ASSUME NEW v \in Clerks PROVE QuoteJobOK(v)'
  <2>1. CASE v = w
    BY <1>1, <2>1
  <2>2. CASE v # w
    <3>1. QuoteJobOK(v) /\ pc'[v] = pc[v] /\ job'[v] = job[v]
      BY <1>1, <2>2 DEF QuoteEffect, Serves, Others, QuotesInv
    <3>2. CASE job[v].quote \in Quotes /\ quotes[job[v].quote] # NoRow
      <4>1. PICK q \in Quotes : q = job[v].quote
        BY <3>2
      <4>2. /\ quotes'[q] # NoRow
            /\ Row(quotes'[q]) =>
                 /\ Row(quotes[q])
                 /\ quotes[q].status # "draft" =>
                      quotes'[q].status # "draft" /\ quotes'[q].lines = quotes[q].lines
        BY <1>1, <3>2, <4>1 DEF QuoteEffect, QuotesGrow
      <4> QED
        BY <3>1, <4>1, <4>2 DEF QuoteJobOK
    <3>3. CASE ~ (job[v].quote \in Quotes /\ quotes[job[v].quote] # NoRow)
      BY <3>1, <3>3 DEF QuoteJobOK, QuoteSteps
    <3> QED
      BY <3>2, <3>3
  <2> QED
    BY <2>1, <2>2
<1>3. ASSUME NEW q \in Quotes, mailed'[q] # NoRow PROVE quotes'[q] # NoRow
  <2>1. quotes[q] # NoRow => quotes'[q] # NoRow
    BY <1>1 DEF QuoteEffect, QuotesGrow
  <2>2. CASE mailed[q] # NoRow
    BY <2>1, <2>2 DEF QuotesInv
  <2>3. CASE Notify(w)
    <3>1. /\ mailed' = [mailed EXCEPT ![job[w].quote] = job[w].lines]
          /\ quotes[job[w].quote] # NoRow
      BY <2>3, NotifyMoves, QuoteAt DEF QuoteSteps
    <3> QED
      BY <1>3, <2>1, <2>2, <3>1 DEF TypeOK
  <2>4. CASE ~ Notify(w)
    <3>1. mailed' = mailed
      BY <2>4, QuoteBeginsOK, SetCounterMoves, handleUpdateQuoteMoves, SaveQuoteMoves,
         UpdateQuoteStatusMoves, SaveSaleMoves, DeleteQuoteRowMoves
         DEF QuoteStep, QuoteBegin, quoteTables, NextQuoteNumber, NextSaleNumber, NextNumber
    <3> QED
      BY <1>3, <2>2, <3>1
  <2> QED
    BY <2>3, <2>4
<1>4. ASSUME NEW s \in Sales, Row(sales'[s])
      PROVE  LET q == sales'[s].quote IN
             /\ quotes'[q] # NoRow
             /\ Row(quotes'[q]) => quotes'[q].status # "draft" /\ quotes'[q].lines = sales'[s].lines
  <2>1. ASSUME sales'[s] = sales[s]
        PROVE  LET q == sales'[s].quote IN
               /\ quotes'[q] # NoRow
               /\ Row(quotes'[q]) => quotes'[q].status # "draft" /\ quotes'[q].lines = sales'[s].lines
    <3>1. sales[s] \in SaleRows /\ Row(sales[s])
      BY <1>4, <2>1 DEF TypeOK, Row
    <3>2. PICK q \in Quotes : q = sales[s].quote
      BY <3>1 DEF SaleRows
    <3>3. /\ quotes[q] # NoRow
          /\ Row(quotes[q]) => quotes[q].status # "draft" /\ quotes[q].lines = sales[s].lines
      BY <3>1, <3>2 DEF QuotesInv
    <3>4. /\ quotes'[q] # NoRow
          /\ Row(quotes'[q]) =>
               /\ Row(quotes[q])
               /\ quotes[q].status # "draft" =>
                    quotes'[q].status # "draft" /\ quotes'[q].lines = quotes[q].lines
      BY <1>1, <3>3 DEF QuoteEffect, QuotesGrow
    <3> QED
      BY <2>1, <3>2, <3>3, <3>4
  <2>2. CASE SaveSale(w)
    <3>1. PICK t \in Sales : /\ \A u \in Sales \ {t} : sales'[u] = sales[u]
                             /\ sales'[t].quote = job[w].quote /\ sales'[t].lines = job[w].lines
      BY <2>2, SaveSaleMoves
    <3>2. CASE s # t
      BY <2>1, <3>1, <3>2
    <3>3. CASE s = t
      <4>1. pc[w] = "save sale" /\ quotes' = quotes
        BY <2>2, SaveSaleMoves
      <4>2. /\ quotes[job[w].quote] # NoRow
            /\ Row(quotes[job[w].quote]) => /\ quotes[job[w].quote].status # "draft"
                                            /\ quotes[job[w].quote].lines = job[w].lines
        BY <4>1 DEF QuotesInv, QuoteJobOK, QuoteSteps
      <4> QED
        BY <3>1, <3>3, <4>1, <4>2
    <3> QED
      BY <3>2, <3>3
  <2>3. CASE ~ SaveSale(w)
    <3>1. sales' = sales
      BY <2>3, QuoteBeginsOK, SetCounterMoves, handleUpdateQuoteMoves, SaveQuoteMoves,
         UpdateQuoteStatusMoves, NotifyMoves, DeleteQuoteRowMoves
         DEF QuoteStep, QuoteBegin, quoteTables, NextQuoteNumber, NextSaleNumber, NextNumber
    <3> QED
      BY <2>1, <3>1
  <2> QED
    BY <2>2, <2>3
<1> QED
  BY <1>2, <1>3, <1>4 DEF QuotesInv

\* One goroutine edits and mails quotes, and none of its requests is broken off.
LEMMA MailStep ==
  ASSUME TypeOK, QuotesInv, MailInv, MailOrderly, NEW w \in Clerks, QuoteStep(w), UNCHANGED duties
  PROVE  MailInv'
<1>1. Serves(w) /\ Others(w) /\ pc[w] \in QuoteSteps \cup {"idle"}
  BY QuoteStepEffect DEF QuoteEffect, Serves
<1>2. CASE QuoteBegin(w)
  <2>1. /\ UNCHANGED <<quotes, mailed>> /\ pc[w] = "idle"
        /\ pc'[w] = "quote mail" /\ Row(quotes[job'[w].quote]) =>
             quotes[job'[w].quote].lines = job'[w].lines
    BY <1>2, QuoteBeginsOK DEF quoteTables
  <2>2. ASSUME NEW q \in Quotes, Sending(q) PROVE Sending(q)'
    <3>1. PICK v \in Clerks : pc[v] = "quote status" /\ "mail" \in duties[v] /\ job[v].quote = q
      BY <2>2 DEF Sending
    <3>2. v # w
      BY <2>1, <3>1
    <3> QED
      BY <1>1, <3>1, <3>2 DEF Sending, Others
  <2>3. ASSUME NEW v \in Clerks, pc'[v] = "quote mail", Row(quotes[job'[v].quote])
        PROVE  quotes[job'[v].quote].lines = job'[v].lines
    <3>1. CASE v = w
      BY <2>1, <2>3, <3>1
    <3>2. CASE v # w
      BY <1>1, <2>3, <3>2 DEF Others, MailInv
    <3> QED
      BY <3>1, <3>2
  <2> QED
    BY <2>1, <2>2, <2>3 DEF MailInv
<1>3. ASSUME UNCHANGED <<quotes, mailed>>, pc'[w] # "quote mail", pc[w] # "quote status"
      PROVE  MailInv'
  BY <1>1, <1>3, MailStays
<1>4. ASSUME NEW n \in 1..MaxNumber, SetQuoteNumberCounter(w, n) PROVE MailInv'
  <2>1. UNCHANGED <<quotes, mailed, pc>> /\ pc[w] = "idle"
    BY <1>4, SetCounterMoves
  <2> QED
    BY <1>3, <2>1
<1>5. CASE NextQuoteNumber(w)
  <2>1. pc[w] = "quote number" /\ pc[w] \in QuoteSteps /\ "save quote" \in QuoteSteps
        /\ NextNumber(w, "quote", "save quote")
    BY <1>5 DEF NextQuoteNumber, QuoteSteps
  <2>2. UNCHANGED <<quotes, mailed>> /\ (pc'[w] = "idle" \/ pc'[w] = "save quote")
    BY <2>1, NextNumberMoves
  <2> QED
    BY <1>3, <2>1, <2>2
<1>6. CASE NextSaleNumber(w)
  <2>1. pc[w] = "sale number" /\ pc[w] \in QuoteSteps /\ "save sale" \in QuoteSteps
        /\ NextNumber(w, "sale", "save sale")
    BY <1>6 DEF NextSaleNumber, QuoteSteps
  <2>2. UNCHANGED <<quotes, mailed>> /\ (pc'[w] = "idle" \/ pc'[w] = "save sale")
    BY <2>1, NextNumberMoves
  <2> QED
    BY <1>3, <2>1, <2>2
<1>7. CASE SaveSale(w)
  <2>1. UNCHANGED <<quotes, mailed>> /\ pc[w] = "save sale" /\ pc'[w] = "idle"
    BY <1>7, SaveSaleMoves
  <2> QED
    BY <1>3, <2>1
\* The others write a quote or mail it.
<1>8. ASSUME NEW q \in Quotes, NEW l \in Lines, handleUpdateQuote(w, q, l) PROVE MailInv'
  <2>1. /\ UNCHANGED <<mailed, pc, job>> /\ pc[w] = "idle" /\ "edit quote" \in duties[w]
        /\ Row(quotes[q]) /\ quotes[q].status = "draft"
        /\ \A p \in Quotes \ {q} : quotes'[p] = quotes[p]
    BY <1>8, handleUpdateQuoteMoves
  <2>2. \A v \in Clerks : "mail" \in duties[v] => v = w
    BY <2>1 DEF MailOrderly, OneAt
  <2>3. ~ Sending(q)
    BY <2>1, <2>2 DEF Sending
  <2>4. mailed[q] = NoRow
    BY <2>1, <2>3 DEF MailInv
  <2>5. \A p \in Quotes : Sending(p) => Sending(p)'
    BY <2>1 DEF Sending
  <2>6. \A v \in Clerks : pc[v] # "quote mail"
    BY <2>1, <2>2 DEF QuotesInv, QuoteJobOK, QuoteSteps
  <2> QED
    BY <2>1, <2>4, <2>5, <2>6 DEF MailInv
<1>9. CASE SaveQuote(w)
  <2>1. /\ UNCHANGED mailed /\ pc'[w] = "idle" /\ pc[w] = "save quote"
    BY <1>9, SaveQuoteMoves DEF SaveQuote
  <2>2. PICK q \in Quotes : quotes[q] = NoRow /\ \A p \in Quotes \ {q} : quotes'[p] = quotes[p]
    BY <1>9, SaveQuoteMoves
  <2>3. mailed[q] = NoRow
    BY <2>2 DEF QuotesInv
  <2>4. ASSUME NEW p \in Quotes, Sending(p) PROVE Sending(p)'
    <3>1. PICK v \in Clerks : pc[v] = "quote status" /\ "mail" \in duties[v] /\ job[v].quote = p
      BY <2>4 DEF Sending
    <3> QED
      BY <1>1, <2>1, <3>1 DEF Sending, Others
  <2>5. ASSUME NEW v \in Clerks, pc'[v] = "quote mail"
        PROVE  /\ pc[v] = "quote mail" /\ job'[v] = job[v] /\ job[v].quote \in Quotes
               /\ quotes'[job[v].quote] = quotes[job[v].quote]
    <3>1. pc[v] = "quote mail" /\ job'[v] = job[v]
      BY <1>1, <2>1, <2>5 DEF Others
    <3>2. job[v].quote \in Quotes /\ quotes[job[v].quote] # NoRow
      BY <3>1 DEF QuotesInv, QuoteJobOK, QuoteSteps
    <3> QED
      BY <2>2, <3>1, <3>2
  <2>6. ASSUME NEW v \in Clerks, pc'[v] = "quote mail", Row(quotes'[job'[v].quote])
        PROVE  quotes'[job'[v].quote].lines = job'[v].lines
    <3>1. PICK p \in Quotes : p = job[v].quote
      BY <2>5, <2>6
    <3>2. pc[v] = "quote mail" /\ job'[v] = job[v] /\ quotes'[p] = quotes[p] /\ Row(quotes[p])
      BY <2>5, <2>6, <3>1
    <3> QED
      BY <3>1, <3>2 DEF MailInv
  <2>7. ASSUME NEW p \in Quotes, mailed'[p] # NoRow, Row(quotes'[p])
        PROVE  quotes'[p].lines = mailed'[p] /\ (quotes'[p].status # "draft" \/ Sending(p)')
    <3>1. mailed[p] # NoRow /\ quotes'[p] = quotes[p]
      BY <2>1, <2>2, <2>3, <2>7
    <3> QED
      BY <2>1, <2>4, <2>7, <3>1 DEF MailInv
  <2> QED
    BY <2>6, <2>7 DEF MailInv
<1>10. CASE Notify(w)
  <2>1. /\ UNCHANGED quotes /\ pc[w] = "quote mail"
        /\ mailed' = [mailed EXCEPT ![job[w].quote] = job[w].lines]
    BY <1>10, NotifyMoves
  <2>2. "mail" \in duties[w] /\ job[w].quote \in Quotes
    BY <2>1 DEF QuotesInv, QuoteJobOK, QuoteSteps
  <2>3. Faults[w] = {}
    BY <2>2 DEF MailOrderly, Spared
  <2>4. pc'[w] = "quote status" /\ job'[w] = job[w]
    BY <1>10, <2>3, NotifyMoves
  <2>5. PICK q \in Quotes : q = job[w].quote
    BY <2>2
  <2>6. Sending(q)'
    BY <2>2, <2>4, <2>5 DEF Sending
  <2>7. ASSUME NEW p \in Quotes, Sending(p) PROVE Sending(p)'
    <3>1. PICK v \in Clerks : pc[v] = "quote status" /\ "mail" \in duties[v] /\ job[v].quote = p
      BY <2>7 DEF Sending
    <3> QED
      BY <1>1, <2>1, <3>1 DEF Sending, Others
  <2>8. mailed'[q] = job[w].lines /\ \A p \in Quotes \ {q} : mailed'[p] = mailed[p]
    BY <2>1, <2>5 DEF TypeOK
  <2>9. Row(quotes[q]) => quotes[q].lines = job[w].lines
    BY <2>1, <2>5 DEF MailInv
  <2>10. ASSUME NEW v \in Clerks, pc'[v] = "quote mail"
         PROVE  pc[v] = "quote mail" /\ job'[v] = job[v]
    BY <1>1, <2>4, <2>10 DEF Others
  <2> QED
    BY <2>1, <2>6, <2>7, <2>8, <2>9, <2>10 DEF MailInv
<1>11. CASE UpdateQuoteStatus(w)
  <2>1. PICK q \in Quotes : q = job[w].quote
    BY <1>11, UpdateQuoteStatusMoves
  <2>2. /\ UNCHANGED mailed /\ pc[w] = "quote status" /\ pc'[w] = "idle"
        /\ \A p \in Quotes \ {q} : quotes'[p] = quotes[p]
        /\ Row(quotes'[q]) => /\ Row(quotes[q]) /\ quotes'[q].status # "draft"
                              /\ quotes'[q].lines = quotes[q].lines
    BY <1>11, <2>1, UpdateQuoteStatusMoves
  <2>3. ASSUME NEW p \in Quotes, p # q, Sending(p) PROVE Sending(p)'
    <3>1. PICK v \in Clerks : pc[v] = "quote status" /\ "mail" \in duties[v] /\ job[v].quote = p
      BY <2>3 DEF Sending
    <3> QED
      BY <1>1, <2>1, <2>3, <3>1 DEF Sending, Others
  <2>4. ASSUME NEW v \in Clerks, pc'[v] = "quote mail"
        PROVE  pc[v] = "quote mail" /\ job'[v] = job[v] /\ job[v].quote \in Quotes
    <3>1. pc[v] = "quote mail" /\ job'[v] = job[v]
      BY <1>1, <2>2, <2>4 DEF Others
    <3> QED
      BY <3>1 DEF QuotesInv, QuoteJobOK, QuoteSteps
  <2>5. ASSUME NEW v \in Clerks, pc'[v] = "quote mail", Row(quotes'[job'[v].quote])
        PROVE  quotes'[job'[v].quote].lines = job'[v].lines
    <3>1. PICK p \in Quotes : p = job[v].quote
      BY <2>4, <2>5
    <3>2. Row(quotes[p]) /\ quotes'[p].lines = quotes[p].lines
      BY <2>2, <2>4, <2>5, <3>1
    <3> QED
      BY <2>4, <2>5, <3>1, <3>2 DEF MailInv
  <2>6. ASSUME NEW p \in Quotes, mailed'[p] # NoRow, Row(quotes'[p])
        PROVE  quotes'[p].lines = mailed'[p] /\ (quotes'[p].status # "draft" \/ Sending(p)')
    BY <2>2, <2>3, <2>6 DEF MailInv
  <2> QED
    BY <2>5, <2>6 DEF MailInv
<1>12. CASE DeleteQuoteRow(w)
  <2>1. /\ UNCHANGED mailed /\ pc[w] = "delete quote" /\ pc'[w] = "idle"
        /\ \A p \in Quotes : Row(quotes'[p]) => quotes'[p] = quotes[p]
    BY <1>12, DeleteQuoteRowMoves
  <2>2. ASSUME NEW p \in Quotes, Sending(p) PROVE Sending(p)'
    <3>1. PICK v \in Clerks : pc[v] = "quote status" /\ "mail" \in duties[v] /\ job[v].quote = p
      BY <2>2 DEF Sending
    <3> QED
      BY <1>1, <2>1, <3>1 DEF Sending, Others
  <2>3. ASSUME NEW v \in Clerks, pc'[v] = "quote mail"
        PROVE  pc[v] = "quote mail" /\ job'[v] = job[v] /\ job[v].quote \in Quotes
    <3>1. pc[v] = "quote mail" /\ job'[v] = job[v]
      BY <1>1, <2>1, <2>3 DEF Others
    <3> QED
      BY <3>1 DEF QuotesInv, QuoteJobOK, QuoteSteps
  <2>4. ASSUME NEW v \in Clerks, pc'[v] = "quote mail", Row(quotes'[job'[v].quote])
        PROVE  quotes'[job'[v].quote].lines = job'[v].lines
    <3>1. PICK p \in Quotes : p = job[v].quote
      BY <2>3, <2>4
    <3>2. pc[v] = "quote mail" /\ job'[v] = job[v] /\ quotes'[p] = quotes[p] /\ Row(quotes[p])
      BY <2>1, <2>3, <2>4, <3>1
    <3> QED
      BY <3>1, <3>2 DEF MailInv
  <2>5. ASSUME NEW p \in Quotes, mailed'[p] # NoRow, Row(quotes'[p])
        PROVE  quotes'[p].lines = mailed'[p] /\ (quotes'[p].status # "draft" \/ Sending(p)')
    BY <2>1, <2>2, <2>5 DEF MailInv
  <2> QED
    BY <2>4, <2>5 DEF MailInv
<1> QED
  BY <1>2, <1>4, <1>5, <1>6, <1>7, <1>8, <1>9, <1>10, <1>11, <1>12 DEF QuoteStep, QuoteBegin

-----------------------------------------------------------------------------
(* Parties.                                                                *)

PartyEffect(w) ==
  /\ Serves(w) /\ UNCHANGED otherThanParties
  /\ pc[w] \in PartySteps \cup {"idle"} /\ pc'[w] \in PartySteps \cup {"idle"}
  /\ parties' \in [Parties -> PartyRows \cup {NoRow, Deleted}]
  /\ clock' \in Nat
  /\ OfParties \cap duties[w] # {}

\* The date of a consent that goes on stays what it was.
LEMMA SharedRow ==
  ASSUME TypeOK, NEW row \in PartyRows, NEW f \in Forms, NEW role \in Roles
  PROVE  LET new == applyRole(applyShared(row, f), role) IN
         /\ new \in PartyRows /\ Dated(new)
         /\ Dated(row) /\ row.consent /\ new.consent => new.since = row.since
<1> DEFINE consent == f.natural /\ f.consent
           since == IF ~ consent THEN 0
                    ELSE IF row.consent /\ row.since # 0 THEN row.since ELSE clock + 1
           new == applyRole(applyShared(row, f), role)
<1>1. clock \in Nat /\ row.since \in Nat /\ consent \in BOOLEAN /\ f.identity \in Identities
  BY DEF TypeOK, PartyRows, Forms
<1>2. since \in Nat /\ (consent => since # 0)
  BY <1>1
<1>3. /\ new \in PartyRows
      /\ new.consent = consent /\ new.since = since
  BY <1>1, <1>2 DEF applyRole, applyShared, PartyRows
<1>4. Dated(row) /\ row.consent /\ consent => since = row.since
  BY DEF Dated
<1> HIDE DEF new, since, consent
<1>5. /\ new \in PartyRows /\ Dated(new)
      /\ Dated(row) /\ row.consent /\ new.consent => new.since = row.since
  BY <1>2, <1>3, <1>4 DEF Dated
<1> QED
  BY <1>5 DEF new

\* A request goes on with the row that it will write.
LEMMA PartyGoes ==
  ASSUME TypeOK, NEW w \in Clerks, NEW step \in PartySteps, NEW p \in Parties \cup {NoRow},
         NEW row \in PartyRows, Dated(row),
         pc[w] = "idle", OfParties \cap duties[w] # {},
         step # "save party" => p \in Parties /\ Row(parties[p]),
         UNCHANGED <<parties, otherThanParties, duties>>, clock' \in Nat,
         Goes(w, step, PartyJob(p, row))
  PROVE  /\ PartyEffect(w) /\ PartyJobOK(w)'
         /\ pc'[w] = step /\ job'[w].party = p /\ job'[w].row = row
<1> DEFINE j == PartyJob(p, row)
<1>1. j \in PartyJobs /\ j.party = p /\ j.row = row
  BY DEF PartyJob, PartyJobs
<1>2. j \in Jobs /\ step \in Steps
  BY <1>1 DEF Jobs, Steps
<1> HIDE DEF j
<1>3. Serves(w) /\ pc'[w] = step /\ job'[w] = j
  BY <1>2, Going DEF j
<1>4. PartyEffect(w)
  BY <1>3 DEF PartyEffect, TypeOK
<1>5. PartyJobOK(w)'
  BY <1>1, <1>3 DEF PartyJobOK, Row
<1> QED
  BY <1>1, <1>3, <1>4, <1>5

LEMMA GoesToWriteMoves ==
  ASSUME TypeOK, NEW w \in Clerks, NEW step \in {"save party", "update party"},
         NEW p \in Parties \cup {NoRow}, NEW row \in PartyRows, Dated(row),
         pc[w] = "idle", OfParties \cap duties[w] # {}, UNCHANGED duties,
         step # "save party" => p \in Parties /\ Row(parties[p]),
         GoesToWrite(w, step, p, row)
  PROVE  /\ PartyEffect(w) /\ PartyJobOK(w)' /\ UNCHANGED parties
         /\ pc'[w] = step /\ job'[w].party = p /\ job'[w].row = row
<1>1. clock' \in Nat
  BY DEF GoesToWrite, TypeOK, PartyRows
<1>2. UNCHANGED <<parties, otherThanParties, duties>> /\ Goes(w, step, PartyJob(p, row))
  BY DEF GoesToWrite
<1>3. step \in PartySteps
  BY DEF PartySteps
<1> QED
  BY <1>1, <1>2, <1>3, PartyGoes

\* What has been read of a party that is about to be written.
ReadNow(w) ==
  pc'[w] = "update party" =>
    LET row == parties[job'[w].party] IN
    row.consent /\ job'[w].row.consent => job'[w].row.since = row.since

LEMMA PartyWriteBegins ==
  ASSUME TypeOK, PartiesInv, NEW w \in Clerks, UNCHANGED duties,
         NEW role \in Roles, NEW f \in Forms, NEW p \in Parties, Row(parties[p]),
         pc[w] = "idle", OfParties \cap duties[w] # {},
         GoesToWrite(w, "update party", p, applyRole(applyShared(parties[p], f), role))
  PROVE  PartyEffect(w) /\ PartyJobOK(w)' /\ UNCHANGED parties /\ ReadNow(w)
<1> DEFINE new == applyRole(applyShared(parties[p], f), role)
<1>1. parties[p] \in PartyRows /\ Dated(parties[p])
  BY DEF TypeOK, PartiesInv, Row
<1>2. /\ new \in PartyRows /\ Dated(new)
      /\ parties[p].consent /\ new.consent => new.since = parties[p].since
  BY <1>1, SharedRow
<1> HIDE DEF new
<1>3. GoesToWrite(w, "update party", p, new)
  BY DEF new
<1>4. /\ PartyEffect(w) /\ PartyJobOK(w)' /\ UNCHANGED parties
      /\ pc'[w] = "update party" /\ job'[w].party = p /\ job'[w].row = new
  BY <1>2, <1>3, GoesToWriteMoves
<1> QED
  BY <1>2, <1>4 DEF ReadNow

LEMMA CreatePartyMoves ==
  ASSUME TypeOK, PartiesInv, NEW w \in Clerks, UNCHANGED duties,
         NEW role \in Roles, NEW f \in Forms, handleCreateParty(w, role, f)
  PROVE  PartyEffect(w) /\ PartyJobOK(w)' /\ UNCHANGED parties /\ ReadNow(w)
<1>1. pc[w] = "idle" /\ OfParties \cap duties[w] # {}
  BY DEF handleCreateParty, Takes, OfParties
<1>2. ASSUME NEW p \in Known(f.identity),
             GoesToWrite(w, "update party", p, applyRole(applyShared(parties[p], f), role))
      PROVE  PartyEffect(w) /\ PartyJobOK(w)' /\ UNCHANGED parties /\ ReadNow(w)
  <2>1. p \in Parties /\ Row(parties[p])
    BY DEF Known
  <2> QED
    BY <1>1, <1>2, <2>1, PartyWriteBegins
<1> DEFINE none == [identity |-> f.identity, consent |-> FALSE, since |-> 0, roles |-> {}]
           new == applyRole(applyShared(none, f), role)
<1>3. ASSUME GoesToWrite(w, "save party", NoRow, new)
      PROVE  PartyEffect(w) /\ PartyJobOK(w)' /\ UNCHANGED parties /\ ReadNow(w)
  <2>1. none \in PartyRows
    BY DEF PartyRows, Forms
  <2> HIDE DEF none
  <2>2. new \in PartyRows /\ Dated(new)
    BY <2>1, SharedRow
  <2> HIDE DEF new
  <2>3. PartyEffect(w) /\ PartyJobOK(w)' /\ UNCHANGED parties /\ pc'[w] = "save party"
    BY <1>1, <1>3, <2>2, GoesToWriteMoves
  <2> QED
    BY <2>3 DEF ReadNow
<1> QED
  BY <1>2, <1>3 DEF handleCreateParty, CreateParty

LEMMA UpdatePartyMoves ==
  ASSUME TypeOK, PartiesInv, NEW w \in Clerks, UNCHANGED duties,
         NEW role \in Roles, NEW f \in Forms, NEW p \in Parties, handleUpdateParty(w, p, role, f)
  PROVE  PartyEffect(w) /\ PartyJobOK(w)' /\ UNCHANGED parties /\ ReadNow(w)
<1>1. /\ pc[w] = "idle" /\ OfParties \cap duties[w] # {} /\ Row(parties[p])
      /\ GoesToWrite(w, "update party", p, applyRole(applyShared(parties[p], f), role))
  BY DEF handleUpdateParty, UpdateParty, Takes, OfParties
<1> QED
  BY <1>1, PartyWriteBegins

LEMMA DropRoleMoves ==
  ASSUME TypeOK, PartiesInv, NEW w \in Clerks, UNCHANGED duties,
         NEW role \in Roles, NEW p \in Parties, handleDeleteParty(w, p, role)
  PROVE  PartyEffect(w) /\ PartyJobOK(w)' /\ UNCHANGED parties /\ ReadNow(w)
<1> DEFINE rest == parties[p].roles \ {role}
           new == [parties[p] EXCEPT !.roles = rest]
<1>1. pc[w] = "idle" /\ OfParties \cap duties[w] # {} /\ Row(parties[p])
  BY DEF handleDeleteParty, DeleteRole, Takes, OfParties
<1>2. parties[p] \in PartyRows /\ Dated(parties[p])
  BY <1>1 DEF TypeOK, PartiesInv, Row
<1>3. /\ new \in PartyRows /\ Dated(new)
      /\ new.since = parties[p].since
  BY <1>2 DEF PartyRows, Dated
<1>4. PICK step \in {"delete party", "update party"} : Begin(w, step, PartyJob(p, new))
  BY DEF handleDeleteParty, DeleteRole
<1> HIDE DEF new
<1>5. /\ UNCHANGED <<parties, otherThanParties, duties>> /\ UNCHANGED clock
      /\ Goes(w, step, PartyJob(p, new))
  BY <1>4 DEF Begin, database, quoteTables, otherThanQuotes, otherThanParties, partyTables
<1>6. step \in PartySteps /\ clock' \in Nat
  BY <1>5 DEF PartySteps, TypeOK
<1>7. /\ PartyEffect(w) /\ PartyJobOK(w)' /\ job'[w].party = p /\ job'[w].row = new
  BY <1>1, <1>3, <1>5, <1>6, PartyGoes
<1> QED
  BY <1>3, <1>5, <1>7 DEF ReadNow

\* What has been read of a party that is written now.
LEMMA PartyAt ==
  ASSUME TypeOK, PartiesInv, NEW w \in Clerks, pc[w] \in PartySteps
  PROVE  /\ job[w] \in PartyJobs /\ job[w].row \in PartyRows
         /\ OfParties \cap duties[w] # {}
         /\ pc[w] # "save party" => job[w].party \in Parties /\ parties[job[w].party] # NoRow
         /\ pc[w] # "delete party" => Dated(job[w].row)
BY DEF PartiesInv, PartyJobOK, PartyJobs

\* A row that is on record and is another afterwards was deleted or updated.
PartyRewrite(w) ==
  \A p \in Parties :
    /\ parties[p] # NoRow => parties'[p] # NoRow
    /\ Row(parties'[p]) => Dated(parties'[p])
    /\ Row(parties[p]) /\ Row(parties'[p]) /\ parties'[p] # parties[p] =>
         pc[w] = "update party" /\ job[w].party = p /\ parties'[p] = job[w].row

LEMMA PartyWrites ==
  ASSUME TypeOK, PartiesInv, NEW w \in Clerks, UNCHANGED duties,
         SaveParty(w) \/ UpdatePartyRow(w) \/ DeletePartyRow(w)
  PROVE  PartyEffect(w) /\ pc'[w] = "idle" /\ PartyRewrite(w)
<1>1. /\ Serves(w) /\ pc'[w] = "idle" /\ pc[w] \in PartySteps
      /\ UNCHANGED <<clock, otherThanParties>>
  BY Ending DEF SaveParty, UpdatePartyRow, DeletePartyRow, PartySteps
<1>2. \A p \in Parties : Row(parties[p]) => Dated(parties[p])
  BY DEF PartiesInv
<1>3. /\ parties' \in [Parties -> PartyRows \cup {NoRow, Deleted}]
      /\ PartyRewrite(w)
  <2>1. CASE UNCHANGED parties
    BY <1>2, <2>1 DEF PartyRewrite, TypeOK
  <2>2. CASE SaveParty(w) /\ ~ UNCHANGED parties
    <3>1. job[w].row \in PartyRows /\ Dated(job[w].row)
      BY <1>1, <2>2, PartyAt DEF SaveParty
    <3>2. PICK p \in Parties : parties[p] = NoRow /\ parties' = [parties EXCEPT ![p] = job[w].row]
      BY <2>2 DEF SaveParty
    <3>3. job[w].row # NoRow
      BY <3>1, RowsAssumption
    <3> QED
      BY <1>2, <3>1, <3>2, <3>3 DEF PartyRewrite, TypeOK, Row
  <2>3. CASE UpdatePartyRow(w) /\ ~ UNCHANGED parties
    <3>1. /\ job[w].row \in PartyRows /\ Dated(job[w].row) /\ pc[w] = "update party"
          /\ job[w].party \in Parties
      BY <1>1, <2>3, PartyAt DEF UpdatePartyRow
    <3>2. PICK p \in Parties : p = job[w].party
      BY <3>1
    <3>3. parties' = [parties EXCEPT ![p] = job[w].row]
      BY <2>3, <3>2 DEF UpdatePartyRow
    <3>4. job[w].row # NoRow
      BY <3>1, RowsAssumption
    <3> QED
      BY <1>2, <3>1, <3>2, <3>3, <3>4 DEF PartyRewrite, TypeOK
  <2>4. CASE DeletePartyRow(w)
    <3>1. parties' = [parties EXCEPT ![job[w].party] = Deleted]
      BY <2>4 DEF DeletePartyRow
    <3> QED
      BY <1>2, <3>1, FrontOfficeAssumption DEF PartyRewrite, TypeOK, Row
  <2> QED
    BY <2>1, <2>2, <2>3, <2>4
<1>4. OfParties \cap duties[w] # {}
  BY <1>1, PartyAt
<1> QED
  BY <1>1, <1>3, <1>4 DEF PartyEffect, TypeOK

\* Every step at the desk.
LEMMA PartyStepEffect ==
  ASSUME TypeOK, PartiesInv, NEW w \in Clerks, PartyStep(w), UNCHANGED duties
  PROVE  /\ PartyEffect(w) /\ PartyJobOK(w)' /\ PartyRewrite(w)
         /\ (UNCHANGED parties /\ ReadNow(w)) \/ pc'[w] = "idle"
<1>1. ASSUME PartyEffect(w), PartyJobOK(w)', UNCHANGED parties PROVE PartyRewrite(w)
  BY <1>1 DEF PartyRewrite, PartiesInv
<1>2. ASSUME PartyEffect(w), pc'[w] = "idle" PROVE PartyJobOK(w)'
  BY <1>2 DEF PartyJobOK, PartySteps
<1> QED
  BY <1>1, <1>2, CreatePartyMoves, UpdatePartyMoves, DropRoleMoves, PartyWrites DEF PartyStep

LEMMA PartiesStep ==
  ASSUME TypeOK, PartiesInv, NEW w \in Clerks, PartyStep(w), UNCHANGED duties
  PROVE  PartiesInv' /\ (OneAt(OfParties) /\ ConsentInv => ConsentInv')
<1>1. PartyEffect(w) /\ PartyJobOK(w)' /\ PartyRewrite(w)
  BY PartyStepEffect
<1>2. ASSUME NEW v \in Clerks, v # w PROVE PartyJobOK(v)'
  <2>1. PartyJobOK(v) /\ pc'[v] = pc[v] /\ job'[v] = job[v]
    BY <1>1, <1>2 DEF PartyEffect, Serves, Others, PartiesInv
  <2>2. job[v].party \in Parties /\ parties[job[v].party] # NoRow => parties'[job[v].party] # NoRow
    BY <1>1 DEF PartyRewrite
  <2> QED
    BY <2>1, <2>2 DEF PartyJobOK
<1>3. PartiesInv'
  BY <1>1, <1>2 DEF PartiesInv, PartyRewrite
<1>4. ASSUME OneAt(OfParties), ConsentInv PROVE ConsentInv'
  <2> SUFFICES ASSUME NEW v \in Clerks, pc'[v] = "update party"
               PROVE  LET row == parties'[job'[v].party] IN
                      Row(row) /\ row.consent /\ job'[v].row.consent => job'[v].row.since = row.since
    BY DEF ConsentInv
  <2>1. v = w
    <3>1. OfParties \cap duties'[v] # {}
      BY <1>3 DEF PartiesInv, PartyJobOK, PartySteps
    <3>2. OfParties \cap duties[w] # {}
      BY <1>1 DEF PartyEffect
    <3> QED
      BY <1>4, <3>1, <3>2 DEF OneAt
  <2>2. UNCHANGED parties /\ ReadNow(w)
    BY <2>1, PartyStepEffect
  <2> QED
    BY <2>1, <2>2 DEF ReadNow
<1> QED
  BY <1>3, <1>4

\* What a step does to the date of a consent.
LEMMA ConsentStep ==
  ASSUME TypeOK, PartiesInv, ConsentInv, NEW w \in Clerks, PartyStep(w), UNCHANGED duties,
         NEW p \in Parties, Row(parties[p]), Row(parties'[p]), parties[p].consent, parties'[p].consent
  PROVE  parties'[p].since = parties[p].since
<1>1. CASE parties'[p] = parties[p]
  BY <1>1
<1>2. CASE parties'[p] # parties[p]
  <2>1. pc[w] = "update party" /\ job[w].party = p /\ parties'[p] = job[w].row
    BY <1>2, PartyStepEffect DEF PartyRewrite
  <2> QED
    BY <2>1 DEF ConsentInv
<1> QED
  BY <1>1, <1>2

-----------------------------------------------------------------------------
(* Warehouses.                                                             *)

WarehouseEffect(w) ==
  /\ Serves(w) /\ UNCHANGED otherThanWarehouses
  /\ pc[w] \in WarehouseSteps \cup {"idle"} /\ pc'[w] \in WarehouseSteps \cup {"idle"}
  /\ warehouses' \in [Warehouses -> WarehouseRows \cup {NoRow}]
  /\ Existing \subseteq Existing'

\* Of the requests of more than one statement.
LEMMA WarehouseBegins ==
  ASSUME TypeOK, NEW w \in Clerks, pc[w] \in WarehouseSteps \cup {"idle"},
         NEW step \in WarehouseSteps, NEW j \in WarehouseJobs, Begin(w, step, j),
         step \in {"update warehouse", "promote"} => j.warehouse \in Existing,
         step = "save warehouse" => j.first \/ Existing # {},
         step = "active" => j.first
  PROVE  WarehouseEffect(w) /\ UNCHANGED warehouses /\ WarehouseJobOK(w)'
<1>1. step \in Steps /\ j \in Jobs
  BY DEF Steps, Jobs
<1>2. Serves(w) /\ pc'[w] = step /\ job'[w] = j /\ UNCHANGED database
  BY <1>1, Beginning
<1>3. UNCHANGED warehouses /\ UNCHANGED otherThanWarehouses
  BY <1>2 DEF database, quoteTables, otherThanQuotes, otherThanWarehouses
<1>4. Existing' = Existing
  BY <1>3 DEF Existing
<1> QED
  BY <1>2, <1>3, <1>4 DEF WarehouseEffect, WarehouseJobOK, TypeOK

LEMMA WarehouseRow ==
  ASSUME TypeOK
  PROVE  /\ \A h \in Warehouses : h \in Existing <=> warehouses[h] # NoRow
         /\ \A h \in Existing : h \in Warehouses /\ warehouses[h] \in WarehouseRows
         /\ \A h \in Warehouses : h \notin Existing => warehouses[h] = NoRow
BY FrontOfficeAssumption, RowsAssumption DEF TypeOK, Existing, Row


\* The row of one warehouse is new or written again; what it says of the default and
\* whether that keeps the company at one.
LEMMA SaveWarehouseMoves ==
  ASSUME TypeOK, WarehousesInv, NEW w \in Clerks, SaveWarehouse(w)
  PROVE  WarehouseEffect(w) /\ pc'[w] = "idle" /\ OneDefaultWarehouse'
<1>1. Serves(w) /\ pc'[w] = "idle" /\ pc[w] = "save warehouse" /\ UNCHANGED otherThanWarehouses
  BY Ending DEF SaveWarehouse
<1>2. /\ job[w].code \in Codes \cup {"PRINCIPAL"} /\ job[w].first \in BOOLEAN
      /\ job[w].first \/ Existing # {}
  BY <1>1 DEF WarehousesInv, WarehouseJobOK, WarehouseSteps, WarehouseJobs
<1>3. CASE UNCHANGED warehouses
  <2>1. Existing' = Existing /\ Defaults' = Defaults
    BY <1>3 DEF Existing, Defaults
  <2> QED
    BY <1>1, <1>3, <2>1 DEF WarehouseEffect, TypeOK, WarehouseSteps, WarehousesInv,
       OneDefaultWarehouse
<1>4. CASE ~ UNCHANGED warehouses
  <2> DEFINE row == [code |-> job[w].code, active |-> TRUE, default |-> job[w].first]
  <2>1. row \in WarehouseRows /\ row.default = job[w].first
    BY <1>2 DEF WarehouseRows
  <2>2. /\ ~ (job[w].first /\ Defaults # {})
        /\ \E h \in Warehouses : warehouses[h] = NoRow /\ warehouses' = [warehouses EXCEPT ![h] = row]
    BY <1>4 DEF SaveWarehouse, WarehouseTaken
  <2> HIDE DEF row
  <2>3. PICK h \in Warehouses : warehouses[h] = NoRow /\ warehouses' = [warehouses EXCEPT ![h] = row]
    BY <2>2
  <2>4. warehouses' \in [Warehouses -> WarehouseRows \cup {NoRow}] /\ Row(row)
    BY <2>1, <2>3, RowsAssumption DEF TypeOK, Row
  <2>5. Existing' = Existing \cup {h} /\ h \notin Existing
    BY <2>3, <2>4 DEF Existing, TypeOK, Row
  <2>6. Defaults' = IF job[w].first THEN Defaults \cup {h} ELSE Defaults
    BY <1>2, <2>1, <2>3, <2>5 DEF Defaults, TypeOK, Existing
  <2>7. OneDefaultWarehouse'
    <3>1. CASE job[w].first
      <4>1. Defaults' = {h} /\ h \in Existing'
        BY <2>2, <2>5, <2>6, <3>1
      <4> QED
        BY <4>1 DEF OneDefaultWarehouse
    <3>2. CASE ~ job[w].first
      <4>1. PICK g \in Existing : Defaults = {g}
        BY <1>2, <3>2 DEF WarehousesInv, OneDefaultWarehouse
      <4>2. g \in Existing' /\ Defaults' = {g}
        BY <2>5, <2>6, <3>2, <4>1
      <4> QED
        BY <4>2 DEF OneDefaultWarehouse
    <3> QED
      BY <3>1, <3>2
  <2> QED
    BY <1>1, <2>4, <2>5, <2>7 DEF WarehouseEffect, WarehouseSteps
<1> QED
  BY <1>3, <1>4

LEMMA WarehouseWritten ==
  ASSUME TypeOK, WarehousesInv, NEW h \in Existing, NEW row \in WarehouseRows,
         row.default = warehouses[h].default, warehouses' = [warehouses EXCEPT ![h] = row]
  PROVE  /\ warehouses' \in [Warehouses -> WarehouseRows \cup {NoRow}]
         /\ Existing' = Existing /\ OneDefaultWarehouse'
<1>1. h \in Warehouses /\ Row(row)
  BY RowsAssumption DEF Existing, Row
<1>2. Existing' = Existing /\ Defaults' = Defaults
  BY <1>1 DEF Existing, Defaults, TypeOK
<1>3. OneDefaultWarehouse'
  BY <1>2 DEF WarehousesInv, OneDefaultWarehouse
<1> QED
  BY <1>1, <1>2, <1>3 DEF TypeOK

LEMMA UpdateWarehouseRowMoves ==
  ASSUME TypeOK, WarehousesInv, NEW w \in Clerks, UpdateWarehouseRow(w)
  PROVE  WarehouseEffect(w) /\ pc'[w] = "idle" /\ OneDefaultWarehouse'
<1>1. Serves(w) /\ pc'[w] = "idle" /\ pc[w] = "update warehouse" /\ UNCHANGED otherThanWarehouses
  BY Ending DEF UpdateWarehouseRow
<1>2. job[w].code \in Codes \cup {"PRINCIPAL"} /\ job[w].warehouse \in Existing
  BY <1>1 DEF WarehousesInv, WarehouseJobOK, WarehouseSteps, WarehouseJobs
<1>3. PICK h \in Existing : h = job[w].warehouse
  BY <1>2
<1>4. CASE UNCHANGED warehouses
  <2>1. Existing' = Existing /\ Defaults' = Defaults
    BY <1>4 DEF Existing, Defaults
  <2> QED
    BY <1>1, <1>4, <2>1 DEF WarehouseEffect, TypeOK, WarehouseSteps, WarehousesInv,
       OneDefaultWarehouse
<1>5. CASE ~ UNCHANGED warehouses
  <2> DEFINE row == [warehouses[h] EXCEPT !.code = job[w].code]
  <2>1. warehouses[h] \in WarehouseRows
    BY WarehouseRow
  <2>2. row \in WarehouseRows /\ row.default = warehouses[h].default
    BY <1>2, <2>1 DEF WarehouseRows
  <2>3. warehouses' = [warehouses EXCEPT ![h] = row]
    BY <1>3, <1>5 DEF UpdateWarehouseRow
  <2> HIDE DEF row
  <2> QED
    BY <1>1, <2>2, <2>3, WarehouseWritten DEF WarehouseEffect, WarehouseSteps
<1> QED
  BY <1>4, <1>5

LEMMA DeactivateWarehouseMoves ==
  ASSUME TypeOK, WarehousesInv, NEW w \in Clerks, NEW h \in Warehouses,
         handleDeactivateWarehouse(w, h)
  PROVE  WarehouseEffect(w) /\ pc'[w] = "idle" /\ OneDefaultWarehouse'
<1>1. /\ pc[w] = "idle" /\ h \in Existing /\ UNCHANGED <<otherThanWarehouses, pc, job>>
  BY DEF handleDeactivateWarehouse, DeactivateWarehouse, Takes
<1> DEFINE row == [warehouses[h] EXCEPT !.active = FALSE]
<1>2. warehouses[h] \in WarehouseRows
  BY <1>1, WarehouseRow
<1>3. row \in WarehouseRows /\ row.default = warehouses[h].default
  BY <1>2 DEF WarehouseRows
<1>4. warehouses' = [warehouses EXCEPT ![h] = row]
  BY DEF handleDeactivateWarehouse, DeactivateWarehouse
<1> HIDE DEF row
<1>5. Serves(w)
  BY <1>1, Staying
<1> QED
  BY <1>1, <1>3, <1>4, <1>5, WarehouseWritten DEF WarehouseEffect

LEMMA SetDefaultWrites ==
  ASSUME TypeOK, WarehousesInv, NEW h, SetDefault(h)
  PROVE  /\ warehouses' \in [Warehouses -> WarehouseRows \cup {NoRow}]
         /\ Existing' = Existing /\ OneDefaultWarehouse'
<1> DEFINE row(g) == [warehouses[g] EXCEPT !.default = (g = h)]
<1>1. \A g \in Existing : /\ row(g) \in WarehouseRows /\ Row(row(g))
                          /\ (row(g).default <=> g = h)
  <2> SUFFICES ASSUME NEW g \in Existing
               PROVE  row(g) \in WarehouseRows /\ Row(row(g)) /\ (row(g).default <=> g = h)
    OBVIOUS
  <2>1. warehouses[g] \in WarehouseRows
    BY WarehouseRow
  <2>2. row(g) \in WarehouseRows /\ row(g).default = (g = h)
    BY <2>1 DEF WarehouseRows
  <2> QED
    BY <2>2, RowsAssumption DEF Row
<1>2. /\ h \in Existing
      /\ warehouses' = [g \in Warehouses |-> IF g \in Existing THEN row(g) ELSE warehouses[g]]
  BY DEF SetDefault
<1> HIDE DEF row
<1>3. warehouses' \in [Warehouses -> WarehouseRows \cup {NoRow}]
  BY <1>1, <1>2 DEF TypeOK
<1>4. Existing' = Existing
  BY <1>1, <1>2 DEF Existing
<1>5. Defaults' = {h}
  BY <1>1, <1>2, <1>4 DEF Defaults, Existing
<1> QED
  BY <1>2, <1>3, <1>4, <1>5 DEF OneDefaultWarehouse

\* Every step at the desk.
LEMMA WarehouseStepEffect ==
  ASSUME TypeOK, WarehousesInv, NEW w \in Clerks, WarehouseStep(w), UNCHANGED duties
  PROVE  WarehouseEffect(w) /\ WarehouseJobOK(w)' /\ OneDefaultWarehouse'
<1>1. ASSUME WarehouseEffect(w), UNCHANGED warehouses PROVE OneDefaultWarehouse'
  <2>1. Existing' = Existing /\ Defaults' = Defaults
    BY <1>1 DEF Existing, Defaults
  <2> QED
    BY <2>1 DEF WarehousesInv, OneDefaultWarehouse
<1>2. ASSUME WarehouseEffect(w), pc'[w] = "idle" PROVE WarehouseJobOK(w)'
  BY <1>2 DEF WarehouseJobOK, WarehouseSteps
<1>3. ASSUME NEW code \in Codes, handleCreateWarehouse(w, code)
      PROVE  WarehouseEffect(w) /\ UNCHANGED warehouses /\ WarehouseJobOK(w)'
  <2> DEFINE j == WarehouseJob(NoRow, code, Existing = {})
  <2>1. j \in WarehouseJobs /\ (j.first \/ Existing # {})
    BY DEF WarehouseJob, WarehouseJobs
  <2>2. Begin(w, "save warehouse", j) /\ pc[w] \in WarehouseSteps \cup {"idle"}
    BY <1>3 DEF handleCreateWarehouse, CreateWarehouse, Takes
  <2>3. "save warehouse" \in WarehouseSteps
    BY DEF WarehouseSteps
  <2> HIDE DEF j
  <2> QED
    BY <2>1, <2>2, <2>3, WarehouseBegins
<1>4. ASSUME NEW h \in Warehouses, NEW code \in Codes \cup {"PRINCIPAL"},
             handleUpdateWarehouse(w, h, code)
      PROVE  WarehouseEffect(w) /\ UNCHANGED warehouses /\ WarehouseJobOK(w)'
  <2> DEFINE j == WarehouseJob(h, code, FALSE)
  <2>1. j \in WarehouseJobs /\ j.warehouse = h
    BY DEF WarehouseJob, WarehouseJobs
  <2>2. /\ Begin(w, "update warehouse", j) /\ pc[w] \in WarehouseSteps \cup {"idle"}
        /\ h \in Existing
    BY <1>4 DEF handleUpdateWarehouse, UpdateWarehouse, Takes
  <2>3. "update warehouse" \in WarehouseSteps
    BY DEF WarehouseSteps
  <2> HIDE DEF j
  <2> QED
    BY <2>1, <2>2, <2>3, WarehouseBegins
<1>5. CASE GetOrCreateDefault(w)
  <2> DEFINE j == WarehouseJob(NoRow, "PRINCIPAL", TRUE)
  <2>1. j \in WarehouseJobs /\ j.first
    BY DEF WarehouseJob, WarehouseJobs
  <2>2. Begin(w, "active", j) /\ pc[w] \in WarehouseSteps \cup {"idle"}
    BY <1>5 DEF GetOrCreateDefault, Takes
  <2>3. "active" \in WarehouseSteps
    BY DEF WarehouseSteps
  <2> HIDE DEF j
  <2>4. WarehouseEffect(w) /\ UNCHANGED warehouses /\ WarehouseJobOK(w)'
    BY <2>1, <2>2, <2>3, WarehouseBegins
  <2> QED
    BY <1>1, <2>4
<1>6. CASE PickActive(w)
  <2>1. /\ pc[w] = "active" /\ job[w] \in WarehouseJobs /\ job[w].first
        /\ pc[w] \in WarehouseSteps \cup {"idle"}
        /\ "promote" \in WarehouseSteps /\ "save warehouse" \in WarehouseSteps
    BY <1>6 DEF PickActive, WarehousesInv, WarehouseJobOK, WarehouseSteps
  <2>2. WarehouseEffect(w) /\ UNCHANGED warehouses /\ WarehouseJobOK(w)'
    <3>1. ASSUME NEW h \in Existing, Begin(w, "promote", [job[w] EXCEPT !.warehouse = h])
          PROVE  WarehouseEffect(w) /\ UNCHANGED warehouses /\ WarehouseJobOK(w)'
      <4> DEFINE j == [job[w] EXCEPT !.warehouse = h]
      <4>1. j \in WarehouseJobs /\ j.warehouse = h
        BY <2>1 DEF WarehouseJobs, Existing
      <4>2. Begin(w, "promote", j)
        BY <3>1
      <4> HIDE DEF j
      <4> QED
        BY <2>1, <4>1, <4>2, WarehouseBegins
    <3>2. ASSUME Begin(w, "save warehouse", job[w])
          PROVE  WarehouseEffect(w) /\ UNCHANGED warehouses /\ WarehouseJobOK(w)'
      BY <2>1, <3>2, WarehouseBegins
    <3> QED
      BY <1>6, <3>1, <3>2 DEF PickActive
  <2> QED
    BY <1>1, <2>2
<1>7. CASE Promote(w)
  <2>1. /\ Serves(w) /\ pc'[w] = "idle" /\ pc[w] = "promote" /\ UNCHANGED otherThanWarehouses
        /\ SetDefault(job[w].warehouse)
    BY <1>7, Ending DEF Promote
  <2>2. WarehouseEffect(w) /\ OneDefaultWarehouse'
    BY <2>1, SetDefaultWrites DEF WarehouseEffect, WarehouseSteps
  <2> QED
    BY <1>2, <2>1, <2>2
<1>8. ASSUME NEW h \in Warehouses, handleSetDefaultWarehouse(w, h)
      PROVE  WarehouseEffect(w) /\ WarehouseJobOK(w)' /\ OneDefaultWarehouse'
  <2>1. /\ pc[w] = "idle" /\ UNCHANGED <<otherThanWarehouses, pc, job>> /\ SetDefault(h)
    BY <1>8 DEF handleSetDefaultWarehouse, Takes
  <2>2. WarehouseEffect(w) /\ OneDefaultWarehouse' /\ pc'[w] = "idle"
    BY <2>1, SetDefaultWrites, Staying DEF WarehouseEffect
  <2> QED
    BY <1>2, <2>2
<1>9. ASSUME \/ SaveWarehouse(w) \/ UpdateWarehouseRow(w)
             \/ \E h \in Warehouses : handleDeactivateWarehouse(w, h)
      PROVE  WarehouseEffect(w) /\ WarehouseJobOK(w)' /\ OneDefaultWarehouse'
  BY <1>2, <1>9, SaveWarehouseMoves, UpdateWarehouseRowMoves, DeactivateWarehouseMoves
<1> QED
  BY <1>1, <1>3, <1>4, <1>5, <1>6, <1>7, <1>8, <1>9 DEF WarehouseStep

LEMMA WarehousesStep ==
  ASSUME TypeOK, WarehousesInv, NEW w \in Clerks, WarehouseStep(w), UNCHANGED duties
  PROVE  WarehousesInv'
<1>1. WarehouseEffect(w) /\ WarehouseJobOK(w)' /\ OneDefaultWarehouse'
  BY WarehouseStepEffect
<1>2. ASSUME NEW v \in Clerks, v # w PROVE WarehouseJobOK(v)'
  <2>1. /\ WarehouseJobOK(v) /\ pc'[v] = pc[v] /\ job'[v] = job[v]
        /\ Existing \subseteq Existing'
    BY <1>1, <1>2 DEF WarehouseEffect, Serves, Others, WarehousesInv
  <2> QED
    BY <2>1 DEF WarehouseJobOK
<1> QED
  BY <1>1, <1>2 DEF WarehousesInv

-----------------------------------------------------------------------------
(* Products and settings.                                                  *)

ProductEffect(w) ==
  /\ Serves(w) /\ UNCHANGED otherThanProducts
  /\ pc[w] \in ProductSteps \cup {"idle"} /\ pc'[w] \in ProductSteps \cup {"idle"}
  /\ products' \in [Products -> Codes \cup {NoRow, Deleted}]

LEMMA ProductStepEffect ==
  ASSUME TypeOK, OthersInv, NEW w \in Clerks, ProductStep(w)
  PROVE  ProductEffect(w) /\ OtherJobOK(w)'
<1>1. ASSUME NEW step \in ProductSteps, NEW p \in Products \cup {NoRow}, NEW code \in Codes,
             step = "update product" => p \in Products,
             pc[w] = "idle", Begin(w, step, [product |-> p, code |-> code])
      PROVE  ProductEffect(w) /\ OtherJobOK(w)'
  <2> DEFINE j == [product |-> p, code |-> code]
  <2>1. j \in ProductJobs /\ j.product = p
    BY DEF ProductJobs
  <2>2. j \in Jobs /\ step \in Steps
    BY <2>1 DEF Jobs, Steps
  <2> HIDE DEF j
  <2>3. Serves(w) /\ pc'[w] = step /\ job'[w] = j /\ UNCHANGED database
    BY <1>1, <2>2, Beginning DEF j
  <2>4. UNCHANGED products /\ UNCHANGED otherThanProducts
    BY <2>3 DEF database, quoteTables, otherThanQuotes, otherThanProducts
  <2> QED
    BY <1>1, <2>1, <2>3, <2>4 DEF ProductEffect, OtherJobOK, TypeOK, ProductSteps
<1>2. ASSUME NEW code \in Codes, handleCreateProduct(w, code)
      PROVE  ProductEffect(w) /\ OtherJobOK(w)'
  <2>1. pc[w] = "idle" /\ Begin(w, "save product", [product |-> NoRow, code |-> code])
    BY <1>2 DEF handleCreateProduct, CreateProduct, Takes
  <2>2. "save product" \in ProductSteps
    BY DEF ProductSteps
  <2> QED
    BY <1>1, <2>1, <2>2
<1>3. ASSUME NEW p \in Products, NEW code \in Codes, handleUpdateProduct(w, p, code)
      PROVE  ProductEffect(w) /\ OtherJobOK(w)'
  <2>1. pc[w] = "idle" /\ Begin(w, "update product", [product |-> p, code |-> code])
    BY <1>3 DEF handleUpdateProduct, UpdateProduct, Takes
  <2>2. "update product" \in ProductSteps
    BY DEF ProductSteps
  <2> QED
    BY <1>1, <2>1, <2>2
<1>4. ASSUME NEW p \in Products, handleDeleteProduct(w, p)
      PROVE  ProductEffect(w) /\ OtherJobOK(w)'
  <2>1. /\ pc[w] = "idle" /\ UNCHANGED <<otherThanProducts, pc, job>>
        /\ products' \in [Products -> Codes \cup {NoRow, Deleted}]
    BY <1>4 DEF handleDeleteProduct, DeleteProduct, Takes, TypeOK
  <2> QED
    BY <2>1, Staying DEF ProductEffect, OtherJobOK, ProductSteps
<1>5. CASE SaveProduct(w) \/ UpdateProductRow(w)
  <2>1. /\ Serves(w) /\ pc'[w] = "idle" /\ pc[w] \in ProductSteps
        /\ UNCHANGED otherThanProducts
    BY <1>5, Ending DEF SaveProduct, UpdateProductRow, ProductSteps
  <2>2. job[w].code \in Codes
    BY <2>1 DEF OthersInv, OtherJobOK, ProductJobs
  <2>3. products' \in [Products -> Codes \cup {NoRow, Deleted}]
    BY <1>5, <2>2 DEF SaveProduct, UpdateProductRow, TypeOK
  <2> QED
    BY <2>1, <2>3 DEF ProductEffect, OtherJobOK, ProductSteps
<1> QED
  BY <1>2, <1>3, <1>4, <1>5 DEF ProductStep

CompanyEffect(w) ==
  /\ Serves(w) /\ UNCHANGED otherThanCompany
  /\ pc[w] \in {"update profile", "idle"} /\ pc'[w] \in {"update profile", "idle"}
  /\ company' \in CompanyRows

LEMMA CompanyStepEffect ==
  ASSUME TypeOK, OthersInv, NEW w \in Clerks, CompanyStep(w)
  PROVE  CompanyEffect(w) /\ OtherJobOK(w)'
<1>1. company \in CompanyRows
  BY DEF TypeOK
<1>2. ASSUME NEW profile \in Profiles, handleUpdateProfile(w, profile)
      PROVE  CompanyEffect(w) /\ OtherJobOK(w)'
  <2> DEFINE j == [row |-> [company EXCEPT !.profile = profile]]
  <2>1. [company EXCEPT !.profile = profile] \in CompanyRows
    BY <1>1 DEF CompanyRows
  <2>2. j \in CompanyJobs /\ j \in Jobs /\ "update profile" \in Steps
    BY <2>1 DEF CompanyJobs, Jobs, Steps
  <2>3. pc[w] = "idle" /\ Begin(w, "update profile", j)
    BY <1>2 DEF handleUpdateProfile, UpdateProfile, Takes
  <2> HIDE DEF j
  <2>4. Serves(w) /\ pc'[w] = "update profile" /\ job'[w] = j /\ UNCHANGED database
    BY <2>2, <2>3, Beginning
  <2>5. UNCHANGED company /\ UNCHANGED otherThanCompany
    BY <2>4 DEF database, quoteTables, otherThanQuotes, otherThanCompany
  <2> QED
    BY <1>1, <2>2, <2>3, <2>4, <2>5 DEF CompanyEffect, OtherJobOK, ProductSteps
<1>3. CASE UpdateProfileRow(w)
  <2>1. /\ Serves(w) /\ pc'[w] = "idle" /\ pc[w] = "update profile"
        /\ UNCHANGED otherThanCompany
    BY <1>3, Ending DEF UpdateProfileRow
  <2>2. job[w].row.profile \in Profiles
    BY <2>1 DEF OthersInv, OtherJobOK, CompanyJobs, CompanyRows
  <2>3. company' \in CompanyRows
    BY <1>1, <1>3, <2>2 DEF UpdateProfileRow, ProfileColumns, CompanyRows
  <2> QED
    BY <2>1, <2>3 DEF CompanyEffect, OtherJobOK, ProductSteps
\* The requests of one statement.
<1>4. ASSUME NEW request, Settings(w, request), company' \in CompanyRows
      PROVE  CompanyEffect(w) /\ OtherJobOK(w)'
  <2>1. pc[w] = "idle" /\ UNCHANGED <<otherThanCompany, pc, job>>
    BY <1>4 DEF Settings, Takes
  <2> QED
    BY <1>4, <2>1, Staying DEF CompanyEffect, OtherJobOK, ProductSteps
<1>5. ASSUME NEW kinds \in SUBSET Kinds, NEW sent \in [kinds -> Values],
             handleUpdateCredentials(w, sent)
      PROVE  CompanyEffect(w) /\ OtherJobOK(w)'
  <2>1. company.credentials \in [Kinds -> Values \cup {"none"}]
    BY <1>1 DEF CompanyRows
  <2>2. [k \in Kinds |-> IF k \in DOMAIN sent THEN sent[k] ELSE company.credentials[k]]
          \in [Kinds -> Values \cup {"none"}]
    BY <2>1
  <2>3. company' \in CompanyRows
    BY <1>1, <1>5, <2>2 DEF handleUpdateCredentials, UpdateCredentials, CompanyRows
  <2> QED
    BY <1>4, <1>5, <2>3 DEF handleUpdateCredentials
<1>6. ASSUME handleClearSoftware(w) \/ handleClearNeSoftware(w) \/ handleClearCertificate(w)
      PROVE  CompanyEffect(w) /\ OtherJobOK(w)'
  <2>1. PICK kind \in Kinds : Settings(w, "clear") /\ ClearCredential(kind)
    BY <1>6 DEF handleClearSoftware, handleClearNeSoftware, handleClearCertificate, Kinds
  <2>2. company' \in CompanyRows
    BY <1>1, <2>1 DEF ClearCredential, CompanyRows
  <2> QED
    BY <1>4, <2>1, <2>2
<1>7. ASSUME NEW value \in Values, handleUpdateLogo(w, value) \/ handleUpdateSettings(w, value)
      PROVE  CompanyEffect(w) /\ OtherJobOK(w)'
  <2>1. company' \in CompanyRows
    BY <1>1, <1>7 DEF handleUpdateLogo, SetLogo, handleUpdateSettings, UpdateBrandColor, CompanyRows
  <2> QED
    BY <1>4, <1>7, <2>1 DEF handleUpdateLogo, handleUpdateSettings
<1>8. ASSUME handleDeleteLogo(w) PROVE CompanyEffect(w) /\ OtherJobOK(w)'
  <2>1. company' \in CompanyRows
    BY <1>1, <1>8 DEF handleDeleteLogo, SetLogo, CompanyRows
  <2> QED
    BY <1>4, <1>8, <2>1 DEF handleDeleteLogo
<1> QED
  BY <1>2, <1>3, <1>5, <1>6, <1>7, <1>8 DEF CompanyStep

-----------------------------------------------------------------------------
(* Documents.                                                              *)

\* A document that was confirmed stays; a draft is deleted, edited or confirmed.
DocumentRewrite(w) ==
  \A d \in Documents :
    /\ documents[d] # NoRow => documents'[d] # NoRow
    /\ Row(documents[d]) /\ documents[d].status = "built" =>
         /\ Row(documents'[d]) /\ documents'[d].status = "built"
         /\ documents'[d].lines = documents[d].lines
    /\ documents[d] # NoRow /\ Row(documents'[d]) /\ documents'[d].status = "draft" =>
         /\ Row(documents[d]) /\ documents[d].status = "draft"
         /\ documents'[d].lines = documents[d].lines \/ pc[w] = "update draft"
    /\ Row(documents'[d]) /\ documents'[d].signed # NoRow =>
         /\ documents'[d].status = "built"
         /\ Row(documents[d]) /\ documents'[d].lines = documents[d].lines
         /\ \/ documents'[d].signed = documents[d].signed
            \/ /\ pc[w] = "sign" /\ job[w].document = d /\ d \in Drafts
               /\ documents'[d].signed = job[w].draft.lines

DocumentEffect(w) ==
  /\ Serves(w) /\ UNCHANGED otherThanDocuments
  /\ pc[w] \in DocumentSteps \cup {"idle"} /\ pc'[w] \in DocumentSteps \cup {"idle"}
  /\ documents' \in [Documents -> DocumentRows \cup {NoRow, Deleted}]
  /\ received' \in [Documents -> Lines \cup {NoRow}]
  /\ DocumentRewrite(w)

LEMMA DocumentRow ==
  ASSUME TypeOK, NEW d \in Documents, Row(documents[d])
  PROVE  /\ documents[d] \in DocumentRows /\ documents[d].lines \in Lines
         /\ documents[d].status \in {"draft", "built"}
         /\ documents[d].signed \in Lines \cup {NoRow}
         /\ d \in Drafts <=> documents[d].status = "draft"
BY DEF TypeOK, Row, DocumentRows, Drafts

LEMMA DocumentsUnchanged ==
  ASSUME TypeOK, DocumentsInv, NEW w \in Clerks, UNCHANGED documents
  PROVE  DocumentRewrite(w) /\ documents' \in [Documents -> DocumentRows \cup {NoRow, Deleted}]
BY DEF DocumentRewrite, DocumentsInv, TypeOK

LEMMA DocumentCreated ==
  ASSUME TypeOK, DocumentsInv, NEW w \in Clerks, NEW row \in DocumentRows,
         row.status = "draft", row.signed = NoRow, CreateRow(row)
  PROVE  DocumentRewrite(w) /\ documents' \in [Documents -> DocumentRows \cup {NoRow, Deleted}]
<1>1. PICK d \in Documents : documents[d] = NoRow /\ documents' = [documents EXCEPT ![d] = row]
  BY DEF CreateRow
<1> QED
  BY <1>1 DEF DocumentRewrite, DocumentsInv, TypeOK, Row

LEMMA DocumentWritten ==
  ASSUME TypeOK, DocumentsInv, NEW w \in Clerks, NEW d \in Drafts, NEW row \in DocumentRows,
         \/ /\ row.status = "draft" /\ row.signed = documents[d].signed /\ pc[w] = "update draft"
         \/ /\ row.status = "built" /\ row.lines = documents[d].lines
            /\ row.signed = job[w].draft.lines /\ pc[w] = "sign" /\ job[w].document = d,
         documents' = [documents EXCEPT ![d] = row]
  PROVE  DocumentRewrite(w) /\ documents' \in [Documents -> DocumentRows \cup {NoRow, Deleted}]
<1>1. d \in Documents /\ Row(documents[d]) /\ documents[d].status = "draft"
  BY DEF Drafts
<1>2. documents[d].signed = NoRow
  BY <1>1 DEF DocumentsInv
<1>3. row # NoRow
  BY RowsAssumption
<1>4. documents'[d] = row /\ \A e \in Documents \ {d} : documents'[e] = documents[e]
  BY <1>1 DEF TypeOK
<1>5. documents' \in [Documents -> DocumentRows \cup {NoRow, Deleted}]
  BY <1>1 DEF TypeOK
<1>6. DocumentRewrite(w)
  BY <1>1, <1>2, <1>3, <1>4 DEF DocumentRewrite, DocumentsInv
<1> QED
  BY <1>5, <1>6

LEMMA DocumentDeleted ==
  ASSUME TypeOK, DocumentsInv, NEW w \in Clerks, NEW d \in Documents, DeleteDraft(d)
  PROVE  DocumentRewrite(w) /\ documents' \in [Documents -> DocumentRows \cup {NoRow, Deleted}]
<1>1. Row(documents[d]) /\ documents[d].status = "draft"
  BY DEF DeleteDraft, Drafts
<1>2. documents' = [documents EXCEPT ![d] = Deleted]
  BY DEF DeleteDraft
<1> QED
  BY <1>1, <1>2, FrontOfficeAssumption DEF DocumentRewrite, DocumentsInv, TypeOK, Row

\* The requests of one statement.
LEMMA OfDocumentsMoves ==
  ASSUME TypeOK, NEW w \in Clerks, NEW request, OfDocuments(w, request), DocumentRewrite(w),
         documents' \in [Documents -> DocumentRows \cup {NoRow, Deleted}]
  PROVE  DocumentEffect(w) /\ pc[w] = "idle" /\ UNCHANGED <<pc, received>>
<1>1. pc[w] = "idle" /\ UNCHANGED <<otherThanDocuments, received, pc, job>>
  BY DEF OfDocuments, Takes
<1> QED
  BY <1>1, Staying DEF DocumentEffect, TypeOK

LEMMA CreateDraftMoves ==
  ASSUME TypeOK, DocumentsInv, NEW w \in Clerks, NEW route \in Types, NEW r \in Ranges,
         NEW l \in Lines, OfDocuments(w, "draft"), CreateDraft(route, r, l)
  PROVE  DocumentEffect(w) /\ pc[w] = "idle" /\ UNCHANGED <<pc, received>>
<1> DEFINE row == [type |-> route, range |-> r, lines |-> l, supplier |-> route \in Supports,
                   reference |-> route \in Notes, status |-> "draft", signed |-> NoRow]
<1>1. row \in DocumentRows /\ row.status = "draft" /\ row.signed = NoRow
  BY DEF DocumentRows
<1>2. CreateRow(row)
  BY DEF CreateDraft
<1> HIDE DEF row
<1> QED
  BY <1>1, <1>2, DocumentCreated, OfDocumentsMoves

LEMMA CloneMoves ==
  ASSUME TypeOK, DocumentsInv, NEW w \in Clerks, NEW d \in Documents, handleCloneDocument(w, d)
  PROVE  DocumentEffect(w) /\ pc[w] = "idle" /\ UNCHANGED <<pc, received>>
<1> DEFINE row == [documents[d] EXCEPT !.status = "draft", !.signed = NoRow]
<1>1. Row(documents[d]) /\ OfDocuments(w, "clone") /\ CreateRow(row)
  BY DEF handleCloneDocument, CloneDraft
<1>2. documents[d] \in DocumentRows
  BY <1>1, DocumentRow
<1>3. row \in DocumentRows /\ row.status = "draft" /\ row.signed = NoRow
  BY <1>2 DEF DocumentRows
<1> HIDE DEF row
<1> QED
  BY <1>1, <1>3, DocumentCreated, OfDocumentsMoves

\* A request goes on with the row that it has read, as it will write or mail it.
LEMMA DocumentBegins ==
  ASSUME TypeOK, DocumentsInv, NEW w \in Clerks, UNCHANGED duties, NEW step \in DocumentSteps,
         NEW d \in Documents, Row(documents[d]), NEW draft \in DocumentRows,
         pc[w] = "idle", Begin(w, step, [document |-> d, draft |-> draft]),
         step = "update draft" => "edit draft" \in duties[w],
         step = "sign" => "confirm" \in duties[w],
         step = "document mail" => documents[d].status = "built" /\ documents[d].lines = draft.lines
  PROVE  /\ DocumentEffect(w) /\ DocumentJobOK(w)' /\ UNCHANGED documentTables
         /\ pc'[w] = step /\ job'[w].document = d /\ job'[w].draft = draft
<1> DEFINE j == [document |-> d, draft |-> draft]
<1>1. j \in DocumentJobs /\ j.document = d /\ j.draft = draft
  BY DEF DocumentJobs
<1>2. j \in Jobs /\ step \in Steps
  BY <1>1 DEF Jobs, Steps
<1> HIDE DEF j
<1>3. Serves(w) /\ pc'[w] = step /\ job'[w] = j /\ UNCHANGED database
  BY <1>2, Beginning DEF j
<1>4. UNCHANGED documents /\ UNCHANGED received /\ UNCHANGED otherThanDocuments
  BY <1>3 DEF database, quoteTables, otherThanQuotes, documentTables, otherThanDocuments
<1>5. DocumentRewrite(w) /\ documents' \in [Documents -> DocumentRows \cup {NoRow, Deleted}]
  BY <1>4, DocumentsUnchanged
<1>6. DocumentEffect(w)
  BY <1>3, <1>4, <1>5 DEF DocumentEffect, TypeOK
<1>7. DocumentJobOK(w)'
  BY <1>1, <1>3, <1>4 DEF DocumentJobOK, Row
<1> QED
  BY <1>1, <1>3, <1>4, <1>6, <1>7 DEF documentTables

LEMMA UpdateDraftMoves ==
  ASSUME TypeOK, DocumentsInv, NEW w \in Clerks, UNCHANGED duties, NEW d \in Documents,
         NEW route \in Types, NEW r \in Ranges, NEW l \in Lines,
         Takes(w, "edit draft"), UpdateDraft(w, d, route, r, l)
  PROVE  DocumentEffect(w) /\ DocumentJobOK(w)' /\ UNCHANGED documentTables /\ pc'[w] # "sign"
<1> DEFINE draft == Merged(documents[d], route, r, l)
<1>1. /\ Row(documents[d]) /\ pc[w] = "idle" /\ "edit draft" \in duties[w]
      /\ Begin(w, "update draft", [document |-> d, draft |-> draft])
  BY DEF UpdateDraft, Drafts, Takes
<1>2. documents[d] \in DocumentRows
  BY <1>1, DocumentRow
<1>3. draft \in DocumentRows
  BY <1>2 DEF Merged, DocumentRows
<1>4. "update draft" \in DocumentSteps
  BY DEF DocumentSteps
<1> HIDE DEF draft
<1> QED
  BY <1>1, <1>3, <1>4, DocumentBegins

LEMMA ConfirmMoves ==
  ASSUME TypeOK, DocumentsInv, NEW w \in Clerks, UNCHANGED duties, NEW d \in Documents,
         handleConfirmDocument(w, d)
  PROVE  /\ DocumentEffect(w) /\ DocumentJobOK(w)' /\ UNCHANGED documentTables
         /\ job'[w].document = d /\ job'[w].draft.lines = documents[d].lines
<1>1. /\ Row(documents[d]) /\ pc[w] = "idle" /\ "confirm" \in duties[w]
      /\ Begin(w, "sign", [document |-> d, draft |-> documents[d]])
  BY DEF handleConfirmDocument, Confirm, Drafts, Takes
<1>2. documents[d] \in DocumentRows
  BY <1>1, DocumentRow
<1>3. PICK draft \in DocumentRows : draft = documents[d]
  BY <1>2
<1>4. "sign" \in DocumentSteps /\ Begin(w, "sign", [document |-> d, draft |-> draft])
  BY <1>1, <1>3 DEF DocumentSteps
<1>5. /\ DocumentEffect(w) /\ DocumentJobOK(w)' /\ UNCHANGED documentTables
      /\ job'[w].document = d /\ job'[w].draft = draft
  BY <1>1, <1>4, DocumentBegins
<1> QED
  BY <1>3, <1>5

LEMMA SendDocumentMoves ==
  ASSUME TypeOK, DocumentsInv, NEW w \in Clerks, UNCHANGED duties, NEW d \in Documents,
         handleSendDocumentEmail(w, d)
  PROVE  DocumentEffect(w) /\ DocumentJobOK(w)' /\ UNCHANGED documentTables /\ pc'[w] # "sign"
<1>1. /\ Row(documents[d]) /\ pc[w] = "idle" /\ documents[d].signed # NoRow
      /\ Begin(w, "document mail", [document |-> d, draft |-> documents[d]])
  BY DEF handleSendDocumentEmail, SendDocument, Takes
<1>2. documents[d] \in DocumentRows /\ documents[d].status = "built"
  BY <1>1, DocumentRow DEF DocumentsInv
<1>3. PICK draft \in DocumentRows : draft = documents[d]
  BY <1>2
<1>4. "document mail" \in DocumentSteps /\ Begin(w, "document mail", [document |-> d, draft |-> draft])
  BY <1>1, <1>3 DEF DocumentSteps
<1> QED
  BY <1>1, <1>2, <1>3, <1>4, DocumentBegins

LEMMA DocumentAt ==
  ASSUME TypeOK, DocumentsInv, NEW w \in Clerks, pc[w] \in DocumentSteps
  PROVE  /\ job[w].document \in Documents /\ documents[job[w].document] # NoRow
         /\ job[w].draft \in DocumentRows /\ job[w].draft.lines \in Lines
         /\ pc[w] = "update draft" => "edit draft" \in duties[w]
         /\ pc[w] = "sign" => "confirm" \in duties[w]
<1>1. DocumentJobOK(w) /\ job[w] \in DocumentJobs
  BY DEF DocumentsInv, DocumentJobOK
<1> QED
  BY <1>1 DEF DocumentJobOK, DocumentJobs, DocumentRows

LEMMA UpdateDraftRowMoves ==
  ASSUME TypeOK, DocumentsInv, NEW w \in Clerks, UpdateDraftRow(w)
  PROVE  /\ DocumentEffect(w) /\ UNCHANGED received
         /\ pc[w] = "update draft" /\ pc'[w] = "idle" /\ "edit draft" \in duties[w]
<1>1. /\ pc[w] = "update draft" /\ pc[w] \in DocumentSteps /\ Serves(w) /\ pc'[w] = "idle"
      /\ UNCHANGED received /\ UNCHANGED otherThanDocuments
  BY Ending DEF UpdateDraftRow, OnDraft, DocumentSteps
<1>2. PICK d \in Documents : d = job[w].document
  BY <1>1, DocumentAt
<1>3. job[w].draft \in DocumentRows /\ "edit draft" \in duties[w]
  BY <1>1, DocumentAt
<1>4. DocumentRewrite(w) /\ documents' \in [Documents -> DocumentRows \cup {NoRow, Deleted}]
  <2>1. CASE UNCHANGED documents
    BY <2>1, DocumentsUnchanged
  <2>2. CASE UpdateDraftColumns(d, job[w].draft)
    <3> DEFINE row == [job[w].draft EXCEPT !.status = documents[d].status,
                                           !.signed = documents[d].signed]
    <3>1. d \in Drafts /\ Row(documents[d]) /\ documents[d].status = "draft"
      BY <2>2 DEF UpdateDraftColumns, Drafts
    <3>2. documents[d].signed \in Lines \cup {NoRow}
      BY <3>1, DocumentRow
    <3>3. row \in DocumentRows /\ row.status = "draft" /\ row.signed = documents[d].signed
      BY <1>3, <3>1, <3>2 DEF DocumentRows
    <3>4. documents' = [documents EXCEPT ![d] = row]
      BY <2>2 DEF UpdateDraftColumns, Write
    <3> HIDE DEF row
    <3> QED
      BY <1>1, <3>1, <3>3, <3>4, DocumentWritten
  <2> QED
    BY <1>2, <2>1, <2>2 DEF UpdateDraftRow, NoDraft
<1> QED
  BY <1>1, <1>3, <1>4 DEF DocumentEffect, TypeOK

LEMMA PersistBuiltMoves ==
  ASSUME TypeOK, DocumentsInv, NEW w \in Clerks, PersistBuilt(w)
  PROVE  DocumentEffect(w) /\ UNCHANGED received /\ pc[w] = "sign" /\ pc'[w] = "idle"
<1>1. /\ pc[w] = "sign" /\ pc[w] \in DocumentSteps /\ Serves(w) /\ pc'[w] = "idle"
      /\ UNCHANGED received /\ UNCHANGED otherThanDocuments
  BY Ending DEF PersistBuilt, OnDraft, DocumentSteps
<1>2. PICK d \in Documents : d = job[w].document
  BY <1>1, DocumentAt
<1>3. job[w].draft.lines \in Lines
  BY <1>1, DocumentAt
<1>4. DocumentRewrite(w) /\ documents' \in [Documents -> DocumentRows \cup {NoRow, Deleted}]
  <2>1. CASE UNCHANGED documents
    BY <2>1, DocumentsUnchanged
  <2>2. CASE ConfirmColumns(d, job[w].draft)
    <3> DEFINE row == [documents[d] EXCEPT !.status = "built", !.signed = job[w].draft.lines]
    <3>1. d \in Drafts /\ Row(documents[d])
      BY <2>2 DEF ConfirmColumns, Drafts
    <3>2. documents[d] \in DocumentRows
      BY <3>1, DocumentRow
    <3>3. /\ row \in DocumentRows /\ row.status = "built" /\ row.lines = documents[d].lines
          /\ row.signed = job[w].draft.lines
      BY <1>3, <3>2 DEF DocumentRows
    <3>4. documents' = [documents EXCEPT ![d] = row]
      BY <2>2, <3>2 DEF ConfirmColumns, TypeOK, DocumentRows
    <3> HIDE DEF row
    <3> QED
      BY <1>1, <1>2, <3>1, <3>3, <3>4, DocumentWritten
  <2> QED
    BY <1>2, <2>1, <2>2 DEF PersistBuilt, NoDraft
<1> QED
  BY <1>1, <1>4 DEF DocumentEffect, TypeOK

LEMMA DocumentMailMoves ==
  ASSUME TypeOK, DocumentsInv, NEW w \in Clerks, DocumentMail(w)
  PROVE  /\ DocumentEffect(w) /\ UNCHANGED documents /\ pc[w] = "document mail" /\ pc'[w] = "idle"
         /\ received' = [received EXCEPT ![job[w].document] = job[w].draft.lines]
<1>1. /\ pc[w] = "document mail" /\ pc[w] \in DocumentSteps /\ Serves(w) /\ pc'[w] = "idle"
      /\ UNCHANGED documents /\ UNCHANGED otherThanDocuments
      /\ received' = [received EXCEPT ![job[w].document] = job[w].draft.lines]
  BY Ending DEF DocumentMail, DocumentSteps
<1>2. job[w].document \in Documents /\ job[w].draft.lines \in Lines
  BY <1>1, DocumentAt
<1>3. received' \in [Documents -> Lines \cup {NoRow}]
  BY <1>1, <1>2 DEF TypeOK
<1> QED
  BY <1>1, <1>3, DocumentsUnchanged DEF DocumentEffect

LEMMA DocumentRequestMoves ==
  ASSUME TypeOK, DocumentsInv, NEW w \in Clerks, DocumentRequest(w), UNCHANGED duties
  PROVE  /\ DocumentEffect(w) /\ pc[w] = "idle" /\ UNCHANGED received
         /\ UNCHANGED pc \/ (DocumentJobOK(w)' /\ pc'[w] # "sign" /\ UNCHANGED documents)
<1>1. PICK r \in Ranges, l \in Lines :
        \/ handleCreateInvoiceDraft(w, r, l) \/ handleCreateCreditNoteDraft(w, r, l)
        \/ handleCreateDebitNoteDraft(w, r, l) \/ handleCreateSupportDocDraft(w, r, l)
        \/ handleCreateAdjustmentNoteDraft(w, r, l)
        \/ \E d \in Documents :
             \/ handleUpdateInvoiceDraft(w, d, r, l) \/ handleUpdateCreditNoteDraft(w, d, r, l)
             \/ handleUpdateDebitNoteDraft(w, d, r, l) \/ handleUpdateSupportDocDraft(w, d, r, l)
             \/ handleUpdateAdjustmentNoteDraft(w, d, r, l)
  BY DEF DocumentRequest
<1>2. ASSUME NEW route \in Types, OfDocuments(w, "draft"), CreateDraft(route, r, l)
      PROVE  DocumentEffect(w) /\ pc[w] = "idle" /\ UNCHANGED received /\ UNCHANGED pc
  BY <1>2, CreateDraftMoves
<1>3. ASSUME NEW route \in Types, NEW d \in Documents, Takes(w, "edit draft"),
             UpdateDraft(w, d, route, r, l)
      PROVE  /\ DocumentEffect(w) /\ pc[w] = "idle" /\ UNCHANGED received
             /\ DocumentJobOK(w)' /\ pc'[w] # "sign" /\ UNCHANGED documents
  BY <1>3, UpdateDraftMoves DEF documentTables, Takes
<1>4. CASE \/ handleCreateInvoiceDraft(w, r, l) \/ handleCreateCreditNoteDraft(w, r, l)
           \/ handleCreateDebitNoteDraft(w, r, l) \/ handleCreateSupportDocDraft(w, r, l)
           \/ handleCreateAdjustmentNoteDraft(w, r, l)
  <2>1. PICK route \in Types : OfDocuments(w, "draft") /\ CreateDraft(route, r, l)
    BY <1>4 DEF handleCreateInvoiceDraft, handleCreateCreditNoteDraft, handleCreateDebitNoteDraft,
       handleCreateSupportDocDraft, handleCreateAdjustmentNoteDraft, CreateInvoiceDraft,
       CreateCreditNoteDraft, CreateDebitNoteDraft, CreateSupportDocumentDraft,
       CreateAdjustmentNoteDraft, Types
  <2> QED
    BY <1>2, <2>1
<1>5. ASSUME NEW d \in Documents,
             \/ handleUpdateInvoiceDraft(w, d, r, l) \/ handleUpdateCreditNoteDraft(w, d, r, l)
             \/ handleUpdateDebitNoteDraft(w, d, r, l) \/ handleUpdateSupportDocDraft(w, d, r, l)
             \/ handleUpdateAdjustmentNoteDraft(w, d, r, l)
      PROVE  /\ DocumentEffect(w) /\ pc[w] = "idle" /\ UNCHANGED received
             /\ DocumentJobOK(w)' /\ pc'[w] # "sign" /\ UNCHANGED documents
  <2>1. PICK route \in Types : Takes(w, "edit draft") /\ UpdateDraft(w, d, route, r, l)
    BY <1>5 DEF handleUpdateInvoiceDraft, handleUpdateCreditNoteDraft, handleUpdateDebitNoteDraft,
       handleUpdateSupportDocDraft, handleUpdateAdjustmentNoteDraft, UpdateInvoiceDraft,
       UpdateCreditNoteDraft, UpdateDebitNoteDraft, UpdateSupportDocumentDraft,
       UpdateAdjustmentNoteDraft, Types
  <2> QED
    BY <1>3, <2>1
<1> QED
  BY <1>1, <1>4, <1>5

\* Every step at the desk.
LEMMA DocumentStepEffect ==
  ASSUME TypeOK, DocumentsInv, NEW w \in Clerks, DocumentStep(w), UNCHANGED duties
  PROVE  /\ DocumentEffect(w) /\ DocumentJobOK(w)'
         /\ DocumentMail(w) \/ UNCHANGED received
         /\ pc'[w] = "sign" =>
              /\ UNCHANGED documents
              /\ job'[w].draft.lines = documents[job'[w].document].lines
         /\ pc[w] = "update draft" => "edit draft" \in duties[w]
<1>1. ASSUME DocumentEffect(w), pc'[w] = "idle" PROVE DocumentJobOK(w)' /\ pc'[w] # "sign"
  BY <1>1 DEF DocumentJobOK, DocumentSteps
<1>2. CASE DocumentRequest(w)
  <2>1. /\ DocumentEffect(w) /\ pc[w] = "idle" /\ UNCHANGED received
        /\ UNCHANGED pc \/ (DocumentJobOK(w)' /\ pc'[w] # "sign" /\ UNCHANGED documents)
    BY <1>2, DocumentRequestMoves
  <2> QED
    BY <1>1, <2>1
<1>3. ASSUME NEW d \in Documents, handleCloneDocument(w, d)
      PROVE  DocumentEffect(w) /\ pc'[w] = "idle" /\ pc[w] = "idle" /\ UNCHANGED received
  BY <1>3, CloneMoves
<1>4. ASSUME NEW d \in Documents, handleDeleteDraft(w, d)
      PROVE  DocumentEffect(w) /\ pc'[w] = "idle" /\ pc[w] = "idle" /\ UNCHANGED received
  <2>1. OfDocuments(w, "delete draft") /\ DeleteDraft(d)
    BY <1>4 DEF handleDeleteDraft
  <2>2. DocumentRewrite(w) /\ documents' \in [Documents -> DocumentRows \cup {NoRow, Deleted}]
    BY <2>1, DocumentDeleted
  <2> QED
    BY <2>1, <2>2, OfDocumentsMoves
<1>5. ASSUME NEW d \in Documents, handleConfirmDocument(w, d)
      PROVE  /\ DocumentEffect(w) /\ DocumentJobOK(w)' /\ pc[w] = "idle" /\ UNCHANGED received
             /\ UNCHANGED documents
             /\ job'[w].draft.lines = documents[job'[w].document].lines
  BY <1>5, ConfirmMoves DEF documentTables, handleConfirmDocument, Takes
<1>6. ASSUME NEW d \in Documents, handleSendDocumentEmail(w, d)
      PROVE  /\ DocumentEffect(w) /\ DocumentJobOK(w)' /\ pc[w] = "idle" /\ UNCHANGED received
             /\ pc'[w] # "sign"
  BY <1>6, SendDocumentMoves DEF documentTables, handleSendDocumentEmail, Takes
<1>7. CASE UpdateDraftRow(w)
  BY <1>1, <1>7, UpdateDraftRowMoves
<1>8. CASE PersistBuilt(w)
  BY <1>1, <1>8, PersistBuiltMoves
<1>9. CASE DocumentMail(w)
  BY <1>1, <1>9, DocumentMailMoves
<1> QED
  BY <1>1, <1>2, <1>3, <1>4, <1>5, <1>6, <1>7, <1>8, <1>9 DEF DocumentStep

LEMMA DocumentsStep ==
  ASSUME TypeOK, DocumentsInv, NEW w \in Clerks, DocumentStep(w), UNCHANGED duties
  PROVE  DocumentsInv'
<1>1. DocumentEffect(w) /\ DocumentRewrite(w) /\ DocumentJobOK(w)'
  BY DocumentStepEffect DEF DocumentEffect
<1>2. ASSUME NEW v \in Clerks, v # w PROVE DocumentJobOK(v)'
  <2>1. DocumentJobOK(v) /\ pc'[v] = pc[v] /\ job'[v] = job[v]
    BY <1>1, <1>2 DEF DocumentEffect, Serves, Others, DocumentsInv
  <2>2. CASE pc[v] \in DocumentSteps
    <3>1. PICK d \in Documents : d = job[v].document
      BY <2>2, DocumentAt
    <3>2. /\ documents[d] # NoRow => documents'[d] # NoRow
          /\ Row(documents[d]) /\ documents[d].status = "built" =>
               /\ Row(documents'[d]) /\ documents'[d].status = "built"
               /\ documents'[d].lines = documents[d].lines
      BY <1>1 DEF DocumentRewrite
    <3> QED
      BY <2>1, <3>1, <3>2 DEF DocumentJobOK
  <2>3. CASE pc[v] \notin DocumentSteps
    BY <2>1, <2>3 DEF DocumentJobOK
  <2> QED
    BY <2>2, <2>3
<1>3. ASSUME NEW d \in Documents
      PROVE  Row(documents'[d]) /\ documents'[d].signed # NoRow => documents'[d].status = "built"
  BY <1>1 DEF DocumentRewrite
<1>4. ASSUME NEW d \in Documents, received'[d] # NoRow
      PROVE  Row(documents'[d]) /\ documents'[d].status = "built" /\ documents'[d].lines = received'[d]
  <2>1. CASE received'[d] = received[d]
    <3>1. Row(documents[d]) /\ documents[d].status = "built" /\ documents[d].lines = received[d]
      BY <1>4, <2>1 DEF DocumentsInv
    <3>2. /\ Row(documents'[d]) /\ documents'[d].status = "built"
          /\ documents'[d].lines = documents[d].lines
      BY <1>1, <3>1 DEF DocumentRewrite
    <3> QED
      BY <2>1, <3>1, <3>2
  <2>2. CASE DocumentMail(w)
    <3>1. /\ UNCHANGED documents /\ pc[w] = "document mail"
          /\ received' = [received EXCEPT ![job[w].document] = job[w].draft.lines]
      BY <2>2, DocumentMailMoves
    <3>2. DocumentJobOK(w)
      BY DEF DocumentsInv
    <3>3. CASE d = job[w].document
      <4>1. received'[d] = job[w].draft.lines
        BY <3>1, <3>3 DEF TypeOK
      <4> QED
        BY <3>1, <3>2, <3>3, <4>1 DEF DocumentJobOK, DocumentSteps
    <3>4. CASE d # job[w].document
      BY <2>1, <3>1, <3>4 DEF TypeOK
    <3> QED
      BY <3>3, <3>4
  <2> QED
    BY <2>1, <2>2, DocumentStepEffect
<1> QED
  BY <1>1, <1>2, <1>3, <1>4 DEF DocumentsInv

\* One goroutine edits and confirms drafts.
LEMMA SignStep ==
  ASSUME TypeOK, DocumentsInv, SignInv, OneAt({"edit draft", "confirm"}),
         NEW w \in Clerks, DocumentStep(w), UNCHANGED duties
  PROVE  SignInv'
<1>1. DocumentEffect(w) /\ DocumentRewrite(w) /\ Others(w) /\ DocumentsInv'
  BY DocumentStepEffect, DocumentsStep DEF DocumentEffect, Serves
<1>2. ASSUME NEW v \in Clerks, pc'[v] = "sign", job'[v].document \in Drafts'
      PROVE  documents'[job'[v].document].lines = job'[v].draft.lines
  <2>1. CASE v = w
    BY <1>2, <2>1, DocumentStepEffect
  <2>2. CASE v # w
    <3>1. pc[v] = "sign" /\ job'[v] = job[v] /\ pc[v] \in DocumentSteps
      BY <1>1, <1>2, <2>2 DEF Others, DocumentSteps
    <3>2. "confirm" \in duties[v]
      BY <3>1, DocumentAt
    <3>3. pc[w] # "update draft"
      BY <2>2, <3>2, DocumentStepEffect DEF OneAt
    <3>4. PICK d \in Documents : d = job[v].document /\ documents[d] # NoRow
      BY <3>1, DocumentAt
    <3>5. Row(documents'[d]) /\ documents'[d].status = "draft"
      BY <1>2, <3>1, <3>4 DEF Drafts
    <3>6. /\ Row(documents[d]) /\ documents[d].status = "draft"
          /\ documents'[d].lines = documents[d].lines
      BY <1>1, <3>3, <3>4, <3>5 DEF DocumentRewrite
    <3>7. documents[d].lines = job[v].draft.lines
      BY <3>1, <3>4, <3>6 DEF SignInv, Drafts
    <3> QED
      BY <3>1, <3>4, <3>6, <3>7
  <2> QED
    BY <2>1, <2>2
<1>3. ASSUME NEW d \in Documents, Row(documents'[d]), documents'[d].signed # NoRow
      PROVE  documents'[d].signed = documents'[d].lines
  <2>1. /\ Row(documents[d]) /\ documents'[d].lines = documents[d].lines
        /\ \/ documents'[d].signed = documents[d].signed
           \/ /\ pc[w] = "sign" /\ job[w].document = d /\ d \in Drafts
              /\ documents'[d].signed = job[w].draft.lines
    BY <1>1, <1>3 DEF DocumentRewrite
  <2> QED
    BY <1>3, <2>1 DEF SignInv
<1> QED
  BY <1>2, <1>3 DEF SignInv

-----------------------------------------------------------------------------
(* All desks.                                                              *)

LEMMA FrontOfficeInit == Init => FrontOfficeInv
<1> SUFFICES ASSUME Init PROVE FrontOfficeInv
  OBVIOUS
<1> USE DEF Init
<1>1. TypeOK
  BY DEF TypeOK, CompanyRows, Steps, Jobs
<1>2. \A w \in Clerks : pc[w] = "idle"
  OBVIOUS
<1>3. QuotesInv /\ MailInv
  BY <1>2 DEF QuotesInv, MailInv, QuoteJobOK, QuoteSteps, Row
<1>4. PartiesInv /\ ConsentInv
  BY <1>2 DEF PartiesInv, ConsentInv, PartyJobOK, PartySteps, Row
<1>5. WarehousesInv
  <2>1. Existing = {}
    BY DEF Existing, Row
  <2> QED
    BY <1>2, <2>1 DEF WarehousesInv, WarehouseJobOK, WarehouseSteps, OneDefaultWarehouse
<1>6. \A w \in Clerks : OtherJobOK(w)
  BY <1>2 DEF OtherJobOK, ProductSteps
<1>7. DocumentsInv /\ SignInv
  BY <1>2 DEF DocumentsInv, SignInv, DocumentJobOK, DocumentSteps, Row
<1> QED
  BY <1>1, <1>3, <1>4, <1>5, <1>6, <1>7 DEF FrontOfficeInv

\* The steps of the desks are different ones.
LEMMA Apart ==
  /\ \A step \in QuoteSteps \cup {"idle"} :
       /\ step \notin PartySteps /\ step \notin WarehouseSteps /\ step \notin ProductSteps
       /\ step \notin DocumentSteps /\ step # "update profile"
  /\ \A step \in PartySteps \cup {"idle"} :
       /\ step \notin QuoteSteps /\ step \notin WarehouseSteps /\ step \notin ProductSteps
       /\ step \notin DocumentSteps /\ step # "update profile"
  /\ \A step \in WarehouseSteps \cup {"idle"} :
       /\ step \notin QuoteSteps /\ step \notin PartySteps /\ step \notin ProductSteps
       /\ step \notin DocumentSteps /\ step # "update profile"
  /\ \A step \in ProductSteps \cup {"update profile", "idle"} :
       /\ step \notin QuoteSteps /\ step \notin PartySteps /\ step \notin WarehouseSteps
       /\ step \notin DocumentSteps
  /\ \A step \in DocumentSteps \cup {"idle"} :
       /\ step \notin QuoteSteps /\ step \notin PartySteps /\ step \notin WarehouseSteps
       /\ step \notin ProductSteps /\ step # "update profile"
BY DEF QuoteSteps, PartySteps, WarehouseSteps, ProductSteps, DocumentSteps

\* A step at none of the steps of quotes.
LEMMA NoMail ==
  ASSUME NEW step, step \notin QuoteSteps
  PROVE  step # "quote mail" /\ step # "quote status"
BY DEF QuoteSteps

LEMMA ElsewhereOther ==
  ASSUME NEW w \in Clerks, pc'[w] \notin ProductSteps, pc'[w] # "update profile"
  PROVE  OtherJobOK(w)'
BY DEF OtherJobOK, ProductSteps

LEMMA PremisesStay ==
  ASSUME UNCHANGED duties
  PROVE  /\ MailOrderly' <=> MailOrderly
         /\ OneAt(OfParties)' <=> OneAt(OfParties)
         /\ OneAt({"edit draft", "confirm"})' <=> OneAt({"edit draft", "confirm"})
BY DEF MailOrderly, OneAt, Spared

LEMMA QuoteStepInv ==
  ASSUME FrontOfficeInv, NEW w \in Clerks, QuoteStep(w), UNCHANGED duties
  PROVE  FrontOfficeInv'
<1>1. TypeOK /\ QuotesInv /\ PartiesInv /\ WarehousesInv /\ OthersInv /\ DocumentsInv
  BY DEF FrontOfficeInv, OthersInv
<1>2. QuoteEffect(w) /\ Serves(w) /\ Others(w) /\ pc'[w] \in QuoteSteps \cup {"idle"}
  BY <1>1, QuoteStepEffect DEF QuoteEffect, Serves
<1>3. /\ UNCHANGED <<parties, clock, warehouses, products, company, documents, received>>
      /\ UNCHANGED documentTables
  BY <1>2 DEF QuoteEffect, otherThanQuotes, partyTables, documentTables
<1>4. TypeOK'
  BY <1>1, <1>2, <1>3 DEF TypeOK, QuoteEffect, Serves
<1>5. QuotesInv' /\ (MailOrderly /\ MailInv => MailInv')
  BY <1>1, QuotesStep, MailStep
<1>6. PartiesInv' /\ (ConsentInv => ConsentInv')
  BY <1>1, <1>2, <1>3, Apart, PartiesStay
<1>7. WarehousesInv'
  BY <1>1, <1>2, <1>3, Apart, WarehousesStay
<1>8. OthersInv'
  BY <1>1, <1>2, Apart, ElsewhereOther, OthersStay
<1>9. DocumentsInv' /\ (SignInv => SignInv')
  BY <1>1, <1>2, <1>3, Apart, DocumentsStay
<1> QED
  BY <1>4, <1>5, <1>6, <1>7, <1>8, <1>9, PremisesStay DEF FrontOfficeInv, OthersInv

LEMMA PartyStepInv ==
  ASSUME FrontOfficeInv, NEW w \in Clerks, PartyStep(w), UNCHANGED duties
  PROVE  FrontOfficeInv'
<1>1. TypeOK /\ QuotesInv /\ PartiesInv /\ WarehousesInv /\ OthersInv /\ DocumentsInv
  BY DEF FrontOfficeInv, OthersInv
<1>2. /\ PartyEffect(w) /\ Serves(w) /\ Others(w)
      /\ pc[w] \in PartySteps \cup {"idle"} /\ pc'[w] \in PartySteps \cup {"idle"}
  BY <1>1, PartyStepEffect DEF PartyEffect, Serves
<1>3. /\ UNCHANGED <<quotes, mailed, sales, counter, warehouses, products, company, documents,
                     received>>
      /\ UNCHANGED documentTables /\ UNCHANGED quoteTables
  BY <1>2 DEF PartyEffect, otherThanParties, quoteTables, documentTables
<1>4. TypeOK'
  BY <1>1, <1>2, <1>3 DEF TypeOK, PartyEffect, Serves
<1>5. QuotesInv' /\ (MailInv => MailInv')
  BY <1>1, <1>2, <1>3, Apart, NoMail, QuotesStay, MailStays
<1>6. PartiesInv' /\ (OneAt(OfParties) /\ ConsentInv => ConsentInv')
  BY <1>1, PartiesStep
<1>7. WarehousesInv'
  BY <1>1, <1>2, <1>3, Apart, WarehousesStay
<1>8. OthersInv'
  BY <1>1, <1>2, Apart, ElsewhereOther, OthersStay
<1>9. DocumentsInv' /\ (SignInv => SignInv')
  BY <1>1, <1>2, <1>3, Apart, DocumentsStay
<1> QED
  BY <1>4, <1>5, <1>6, <1>7, <1>8, <1>9, PremisesStay DEF FrontOfficeInv, OthersInv

LEMMA WarehouseStepInv ==
  ASSUME FrontOfficeInv, NEW w \in Clerks, WarehouseStep(w), UNCHANGED duties
  PROVE  FrontOfficeInv'
<1>1. TypeOK /\ QuotesInv /\ PartiesInv /\ WarehousesInv /\ OthersInv /\ DocumentsInv
  BY DEF FrontOfficeInv, OthersInv
<1>2. /\ WarehouseEffect(w) /\ Serves(w) /\ Others(w)
      /\ pc[w] \in WarehouseSteps \cup {"idle"} /\ pc'[w] \in WarehouseSteps \cup {"idle"}
  BY <1>1, WarehouseStepEffect DEF WarehouseEffect, Serves
<1>3. /\ UNCHANGED <<quotes, mailed, sales, counter, parties, clock, products, company,
                     documents, received>>
      /\ UNCHANGED documentTables /\ UNCHANGED quoteTables
  BY <1>2 DEF WarehouseEffect, otherThanWarehouses, quoteTables, partyTables, documentTables
<1>4. TypeOK'
  BY <1>1, <1>2, <1>3 DEF TypeOK, WarehouseEffect, Serves
<1>5. QuotesInv' /\ (MailInv => MailInv')
  BY <1>1, <1>2, <1>3, Apart, NoMail, QuotesStay, MailStays
<1>6. PartiesInv' /\ (ConsentInv => ConsentInv')
  BY <1>1, <1>2, <1>3, Apart, PartiesStay
<1>7. WarehousesInv'
  BY <1>1, WarehousesStep
<1>8. OthersInv'
  BY <1>1, <1>2, Apart, ElsewhereOther, OthersStay
<1>9. DocumentsInv' /\ (SignInv => SignInv')
  BY <1>1, <1>2, <1>3, Apart, DocumentsStay
<1> QED
  BY <1>4, <1>5, <1>6, <1>7, <1>8, <1>9, PremisesStay DEF FrontOfficeInv, OthersInv

LEMMA OtherStepInv ==
  ASSUME FrontOfficeInv, NEW w \in Clerks, ProductStep(w) \/ CompanyStep(w), UNCHANGED duties
  PROVE  FrontOfficeInv'
<1>1. TypeOK /\ QuotesInv /\ PartiesInv /\ WarehousesInv /\ OthersInv /\ DocumentsInv
  BY DEF FrontOfficeInv, OthersInv
<1>2. /\ Serves(w) /\ Others(w) /\ OtherJobOK(w)'
      /\ pc[w] \in ProductSteps \cup {"update profile", "idle"}
      /\ pc'[w] \in ProductSteps \cup {"update profile", "idle"}
      /\ UNCHANGED <<quotes, mailed, sales, counter, parties, clock, warehouses, documents,
                     received>>
      /\ UNCHANGED documentTables /\ UNCHANGED quoteTables
      /\ company' \in CompanyRows /\ products' \in [Products -> Codes \cup {NoRow, Deleted}]
  <2>1. CASE ProductStep(w)
    BY <1>1, <2>1, ProductStepEffect DEF ProductEffect, Serves, otherThanProducts, quoteTables,
       partyTables, documentTables, TypeOK
  <2>2. CASE CompanyStep(w)
    BY <1>1, <2>2, CompanyStepEffect DEF CompanyEffect, Serves, otherThanCompany, quoteTables,
       partyTables, documentTables, TypeOK
  <2> QED
    BY <2>1, <2>2
<1>3. TypeOK'
  BY <1>1, <1>2 DEF TypeOK, Serves
<1>4. QuotesInv' /\ (MailInv => MailInv')
  BY <1>1, <1>2, Apart, NoMail, QuotesStay, MailStays
<1>5. PartiesInv' /\ (ConsentInv => ConsentInv')
  BY <1>1, <1>2, Apart, PartiesStay
<1>6. WarehousesInv'
  BY <1>1, <1>2, Apart, WarehousesStay
<1>7. OthersInv'
  BY <1>1, <1>2, OthersStay
<1>8. DocumentsInv' /\ (SignInv => SignInv')
  BY <1>1, <1>2, Apart, DocumentsStay
<1> QED
  BY <1>3, <1>4, <1>5, <1>6, <1>7, <1>8, PremisesStay DEF FrontOfficeInv, OthersInv

LEMMA DocumentStepInv ==
  ASSUME FrontOfficeInv, NEW w \in Clerks, DocumentStep(w), UNCHANGED duties
  PROVE  FrontOfficeInv'
<1>1. TypeOK /\ QuotesInv /\ PartiesInv /\ WarehousesInv /\ OthersInv /\ DocumentsInv
  BY DEF FrontOfficeInv, OthersInv
<1>2. /\ DocumentEffect(w) /\ Serves(w) /\ Others(w)
      /\ pc[w] \in DocumentSteps \cup {"idle"} /\ pc'[w] \in DocumentSteps \cup {"idle"}
  BY <1>1, DocumentStepEffect DEF DocumentEffect, Serves
<1>3. /\ UNCHANGED <<quotes, mailed, sales, counter, parties, clock, warehouses, products, company>>
      /\ UNCHANGED quoteTables
  BY <1>2 DEF DocumentEffect, otherThanDocuments, quoteTables, partyTables
<1>4. TypeOK'
  BY <1>1, <1>2, <1>3 DEF TypeOK, DocumentEffect, Serves
<1>5. QuotesInv' /\ (MailInv => MailInv')
  BY <1>1, <1>2, <1>3, Apart, NoMail, QuotesStay, MailStays
<1>6. PartiesInv' /\ (ConsentInv => ConsentInv')
  BY <1>1, <1>2, <1>3, Apart, PartiesStay
<1>7. WarehousesInv'
  BY <1>1, <1>2, <1>3, Apart, WarehousesStay
<1>8. OthersInv'
  BY <1>1, <1>2, Apart, ElsewhereOther, OthersStay
<1>9. DocumentsInv' /\ (OneAt({"edit draft", "confirm"}) /\ SignInv => SignInv')
  BY <1>1, DocumentsStep, SignStep
<1> QED
  BY <1>4, <1>5, <1>6, <1>7, <1>8, <1>9, PremisesStay DEF FrontOfficeInv, OthersInv

\* A request is broken off; one that mails is spared.
LEMMA FailureInv ==
  ASSUME FrontOfficeInv, NEW w \in Clerks, Failure(w), UNCHANGED duties
  PROVE  FrontOfficeInv'
<1>1. TypeOK /\ QuotesInv /\ PartiesInv /\ WarehousesInv /\ OthersInv /\ DocumentsInv
  BY DEF FrontOfficeInv, OthersInv
<1>2. /\ Serves(w) /\ Others(w) /\ pc'[w] = "idle" /\ Faults[w] # {} /\ UNCHANGED database
  BY <1>1, Ending DEF Failure, StepFails, Crash, Serves
<1>3. /\ UNCHANGED <<quotes, mailed, sales, counter, parties, clock, warehouses, products, company,
                     documents, received>>
      /\ UNCHANGED quoteTables /\ UNCHANGED documentTables
  BY <1>2 DEF database, quoteTables, otherThanQuotes, partyTables, documentTables
<1>4. TypeOK'
  BY <1>1, <1>2, <1>3 DEF TypeOK, Serves
<1>5. /\ pc'[w] \notin QuoteSteps /\ pc'[w] \notin PartySteps /\ pc'[w] \notin WarehouseSteps
      /\ pc'[w] \notin DocumentSteps /\ pc'[w] \notin ProductSteps /\ pc'[w] # "update profile"
  BY <1>2, Apart
<1>6. QuotesInv' /\ PartiesInv' /\ (ConsentInv => ConsentInv')
  BY <1>1, <1>2, <1>3, <1>5, QuotesStay, PartiesStay
<1>7. ASSUME MailOrderly, MailInv PROVE MailInv'
  <2>1. "mail" \notin duties[w]
    BY <1>2, <1>7 DEF MailOrderly, Spared
  <2> QED
    BY <1>2, <1>3, <1>7, <2>1, MailStays
<1>8. WarehousesInv'
  BY <1>1, <1>2, <1>3, <1>5, WarehousesStay
<1>9. OthersInv'
  BY <1>1, <1>2, <1>5, ElsewhereOther, OthersStay
<1>10. DocumentsInv' /\ (SignInv => SignInv')
  BY <1>1, <1>2, <1>3, <1>5, DocumentsStay
<1> QED
  BY <1>4, <1>6, <1>7, <1>8, <1>9, <1>10, PremisesStay DEF FrontOfficeInv, OthersInv

LEMMA FrontOfficeNext == FrontOfficeInv /\ [Next]_vars => FrontOfficeInv'
<1> SUFFICES ASSUME FrontOfficeInv, [Next]_vars PROVE FrontOfficeInv'
  OBVIOUS
<1>1. CASE Next
  <2>1. PICK w \in Clerks : QuoteStep(w) \/ PartyStep(w) \/ WarehouseStep(w) \/ ProductStep(w)
                            \/ CompanyStep(w) \/ DocumentStep(w) \/ Failure(w)
    BY <1>1 DEF Next
  <2>2. UNCHANGED duties
    BY <1>1 DEF Next
  <2> QED
    BY <2>1, <2>2, QuoteStepInv, PartyStepInv, WarehouseStepInv, OtherStepInv, DocumentStepInv,
       FailureInv
<1>2. CASE UNCHANGED vars
  <2>1. Existing' = Existing /\ Defaults' = Defaults /\ Drafts' = Drafts
    BY <1>2 DEF vars, Existing, Defaults, Drafts
  <2>2. TypeOK' /\ QuotesInv' /\ (MailInv => MailInv')
    BY <1>2 DEF FrontOfficeInv, vars, TypeOK, QuotesInv, QuoteJobOK, MailInv, Sending
  <2>3. PartiesInv' /\ (ConsentInv => ConsentInv')
    BY <1>2 DEF FrontOfficeInv, vars, PartiesInv, PartyJobOK, ConsentInv
  <2>4. WarehousesInv' /\ \A w \in Clerks : OtherJobOK(w)'
    BY <1>2, <2>1 DEF FrontOfficeInv, vars, WarehousesInv, WarehouseJobOK, OneDefaultWarehouse,
       OtherJobOK
  <2>5. DocumentsInv' /\ (SignInv => SignInv')
    BY <1>2, <2>1 DEF FrontOfficeInv, vars, DocumentsInv, DocumentJobOK, SignInv
  <2>6. UNCHANGED duties
    BY <1>2 DEF vars
  <2> QED
    BY <2>2, <2>3, <2>4, <2>5, <2>6, PremisesStay DEF FrontOfficeInv
<1> QED
  BY <1>1, <1>2

\* Every reachable state of the desks satisfies the inductive invariant, its types and
\* what each request has read included.
THEOREM FrontOfficeInvariant == Spec => []FrontOfficeInv
BY FrontOfficeInit, FrontOfficeNext, PTL DEF Spec

\* What the customer has in his mail is what was quoted, once the quote is sent: as
\* long as one goroutine edits and mails quotes and none of its requests is broken off.
THEOREM MailedIsQuotedHolds == Spec => []MailedIsQuoted
<1>1. FrontOfficeInv => MailedIsQuoted
  BY DEF FrontOfficeInv, MailedIsQuoted, MailOrderly, MailInv
<1> QED
  BY <1>1, FrontOfficeInvariant, PTL

\* A sale is of what its customer accepted, whoever edits, decides and converts.
THEOREM SaleAsAcceptedHolds == Spec => []SaleAsAccepted
<1>1. FrontOfficeInv => SaleAsAccepted
  BY DEF FrontOfficeInv, SaleAsAccepted, QuotesInv
<1> QED
  BY <1>1, FrontOfficeInvariant, PTL

\* A company that has warehouses has one default, whoever creates, promotes and
\* resolves them at a time and whatever fails.
THEOREM OneDefaultWarehouseHolds == Spec => []OneDefaultWarehouse
<1>1. FrontOfficeInv => OneDefaultWarehouse
  BY DEF FrontOfficeInv, WarehousesInv
<1> QED
  BY <1>1, FrontOfficeInvariant, PTL

\* What the addressee of a document got by mail is what is on record of it for good.
THEOREM ReceivedAsOnRecordHolds == Spec => []ReceivedAsOnRecord
<1>1. FrontOfficeInv => ReceivedAsOnRecord
  BY DEF FrontOfficeInv, ReceivedAsOnRecord, DocumentsInv
<1> QED
  BY <1>1, FrontOfficeInvariant, PTL

\* The lines on record are the ones that were signed, as long as one goroutine edits
\* and confirms drafts.
THEOREM SignedIsStoredHolds == Spec => []SignedIsStored
<1>1. FrontOfficeInv => SignedIsStored
  BY DEF FrontOfficeInv, SignedIsStored, SignInv
<1> QED
  BY <1>1, FrontOfficeInvariant, PTL

\* While a party consents, the date of its consent stays what it was, as long as one
\* goroutine serves the requests about parties.
THEOREM ConsentKeptHolds == Spec => ConsentKept
<1> DEFINE DateStays ==
      OneAt(OfParties) => \A p \in Parties :
        Row(parties[p]) /\ Row(parties'[p]) /\ parties[p].consent /\ parties'[p].consent =>
          parties'[p].since = parties[p].since
<1>1. FrontOfficeInv /\ [Next]_vars => [DateStays]_vars
  <2> SUFFICES ASSUME FrontOfficeInv, Next, OneAt(OfParties), NEW p \in Parties,
                      Row(parties[p]), Row(parties'[p]), parties[p].consent, parties'[p].consent
               PROVE  parties'[p].since = parties[p].since
    OBVIOUS
  <2>1. TypeOK /\ QuotesInv /\ PartiesInv /\ ConsentInv /\ WarehousesInv /\ OthersInv /\ DocumentsInv
    BY DEF FrontOfficeInv, OthersInv
  <2>2. PICK w \in Clerks : QuoteStep(w) \/ PartyStep(w) \/ WarehouseStep(w) \/ ProductStep(w)
                            \/ CompanyStep(w) \/ DocumentStep(w) \/ Failure(w)
    BY DEF Next
  <2>3. UNCHANGED duties
    BY DEF Next
  <2>4. CASE PartyStep(w)
    BY <2>1, <2>3, <2>4, ConsentStep
  <2>5. CASE ~ PartyStep(w)
    <3>1. UNCHANGED parties
      BY <2>1, <2>2, <2>3, <2>5, QuoteStepEffect, WarehouseStepEffect, ProductStepEffect,
         CompanyStepEffect,
         DocumentStepEffect DEF QuoteEffect, WarehouseEffect, ProductEffect, CompanyEffect,
         DocumentEffect, Failure, StepFails, Crash, database, otherThanQuotes, otherThanWarehouses,
         otherThanProducts, otherThanCompany, otherThanDocuments, partyTables
    <3> QED
      BY <3>1
  <2> QED
    BY <2>4, <2>5
<1>2. [][DateStays]_vars => ConsentKept
  BY PTL DEF ConsentKept, OfParties
<1> QED
  BY <1>1, <1>2, FrontOfficeInvariant, PTL DEF Spec
=============================================================================
