--------------------------- MODULE BackOfficeProofs ---------------------------
(***************************************************************************)
(* Theorems about BackOffice, for every number of assets, months, entries, *)
(* lines, budgets, declarations, days and concurrent requests, every       *)
(* division of the requests among the goroutines and every choice of       *)
(* Faults.                                                                 *)
(*                                                                         *)
(* A lemma named ...Moves says what one step does to the request that takes *)
(* it and to the tables (types included), one named ...Keeps that a part of *)
(* the invariant holds after it.  ...Kept is for the steps of other desks. *)
(***************************************************************************)
EXTENDS BackOffice, FiniteSetTheorems, WellFoundedInduction, TLAPS

AllJobs == Jobs \cup TaxJobs \cup RateJobs

\* A step of w leaves the locals of all other requests alone.
Moved(w) ==
  /\ pc' \in [Clerks -> Steps] /\ job' \in [Clerks -> AllJobs]
  /\ \A v \in Clerks \ {w} : pc'[v] = pc[v] /\ job'[v] = job[v]

\* The locals of a request that has not begun.
LEMMA IdleType ==
  /\ Idle \in Jobs /\ NoAmounts \in [Assets -> Nat]
  /\ Idle.entry = NoEntry /\ Idle.asset = NoAsset /\ Idle.amounts = NoAmounts
BY DEF Idle, Jobs, NoAmounts

\* The ways a request may go on or end.
LEMMA GoesMoves ==
  ASSUME TypeOK, NEW w \in Clerks, NEW step \in Steps, NEW j \in AllJobs, Goes(w, step, j)
  PROVE  Moved(w) /\ pc'[w] = step /\ job'[w] = j
BY DEF TypeOK, Goes, Goto, Moved, AllJobs

LEMMA EndMoves ==
  ASSUME TypeOK, NEW w \in Clerks, End(w)
  PROVE  Moved(w) /\ pc'[w] = "idle" /\ job'[w] = Idle
BY IdleType DEF TypeOK, End, Goto, Moved, AllJobs, Steps

LEMMA BeginMoves ==
  ASSUME TypeOK, NEW w \in Clerks, NEW step \in Steps, NEW j \in AllJobs, Begin(w, step, j)
  PROVE  Moved(w) /\ pc'[w] = step /\ job'[w] = j /\ UNCHANGED database
BY GoesMoves DEF Begin

LEMMA AppliedMoves ==
  ASSUME TypeOK, NEW w \in Clerks, NEW step \in Steps, NEW j \in AllJobs, Applied(w, step, j)
  PROVE  Moved(w) /\ \/ pc'[w] = step /\ job'[w] = j
                     \/ pc'[w] = "idle" /\ job'[w] = Idle /\ Faults[w] # {}
BY GoesMoves, EndMoves DEF Applied

\* The types of what a request holds.
LEMMA JobType ==
  ASSUME TypeOK, NEW w \in Clerks
  PROVE  job[w] \in AllJobs /\ duties[w] \in SUBSET Requests /\ pc[w] \in Steps
<1>1. duties \in [Clerks -> SUBSET Requests]
  BY BackOfficeAssumption DEF TypeOK
<1> QED
  BY <1>1 DEF TypeOK, AllJobs

\* What every step of a desk leaves: types, and the locals of the one who takes it.
Sound(w) == TypeOK' /\ Moved(w) /\ LocalOK(w)'

-----------------------------------------------------------------------------
(* The ledger.                                                             *)

LedgerSteps == {"idle"} \cup PeriodSteps \cup
  {"has run", "accumulated", "voucher type", "enter", "void period", "void", "close", "reopen"}

\* Entries of depreciations and disposals are neither made nor changed but for their status.
BooksKept ==
  /\ \A m \in Months : DepreciationOf(m)' = DepreciationOf(m)
  /\ \A a \in Assets : /\ DisposalOf(a)' = DisposalOf(a)
                       /\ \A e \in DisposalOf(a) : entries'[e].amounts = entries[e].amounts

LedgerQuiet(w) ==
  /\ UNCHANGED <<assetTables, bankTables, budgetTables>> /\ BooksKept
  /\ pc[w] \in LedgerSteps /\ pc'[w] \in LedgerSteps
  /\ Disposes(w)' => Disposes(w) /\ job'[w].asset = job[w].asset

\* Where no entry changes none of an asset does.
LEMMA EntriesSame ==
  ASSUME UNCHANGED entries PROVE BooksKept
BY DEF BooksKept, DepreciationOf, DisposalOf

\* A request that has not begun is neither a run nor a disposal.
LEMMA IdleAt ==
  ASSUME TypeOK, LocalsOK, NEW w \in Clerks, pc[w] = "idle"
  PROVE  job[w] = Idle /\ ~ Disposes(w) /\ ~ Depreciates(w)
BY DEF LocalsOK, LocalOK, Disposes, Depreciates, OnItsWay, DisposalSteps, RunSteps, PeriodSteps

\* A request of a clerk that ends, for whatever reason, is in order.
LEMMA EndSound ==
  ASSUME TypeOK, LocalsOK, NEW w \in Clerks, End(w), TypeOK'
  PROVE  Sound(w) /\ pc'[w] = "idle"
<1>1. Moved(w) /\ pc'[w] = "idle" /\ job'[w] = Idle
  BY EndMoves
<1>2. LocalOK(w)'
  BY <1>1, IdleType DEF LocalOK, TaxSteps, RateSteps, Depreciates, Quotas, Disposes, OnItsWay,
     PeriodSteps, RunSteps, DisposalSteps
<1> QED
  BY <1>1, <1>2 DEF Sound

LEMMA AfterPeriodSteps ==
  ASSUME TypeOK, NEW w \in Clerks
  PROVE  AfterPeriod(w) \in {"enter", "voucher type", "accumulated", "has run"}
BY DEF AfterPeriod

\* A month that is open sends the request on to what it came for.
LEMMA AfterPeriodSound ==
  ASSUME TypeOK, LocalsOK, NEW w \in Clerks, pc[w] \in PeriodSteps, UNCHANGED duties,
         Goes(w, AfterPeriod(w), job[w]), TypeOK'
  PROVE  Sound(w) /\ pc'[w] \in LedgerSteps
         /\ (Disposes(w)' => Disposes(w) /\ job'[w].asset = job[w].asset)
<1>1. job[w] \in Jobs
  BY DEF LocalsOK, LocalOK, PeriodSteps, TaxSteps, RateSteps
<1>2. Moved(w) /\ pc'[w] = AfterPeriod(w) /\ job'[w] = job[w]
  <2>1. AfterPeriod(w) \in Steps /\ job[w] \in AllJobs
    BY <1>1, AfterPeriodSteps DEF Steps, AllJobs
  <2> QED
    BY <2>1, GoesMoves
<1>3. pc'[w] = "has run" => Depreciates(w)
  BY <1>2 DEF AfterPeriod, Depreciates, OnItsWay
<1>4. pc'[w] = "accumulated" => Disposes(w)
  BY <1>2 DEF AfterPeriod, Disposes, OnItsWay
<1>5. pc'[w] \in {"enter", "voucher type", "accumulated", "has run"}
  BY <1>2, AfterPeriodSteps
<1>6. LocalOK(w)'
  BY <1>1, <1>2, <1>3, <1>4, <1>5 DEF LocalsOK, LocalOK, TaxSteps, RateSteps, Depreciates, Quotas,
     Disposes, OnItsWay, PeriodSteps, RunSteps, DisposalSteps
<1>7. Disposes(w)' => Disposes(w)
  BY <1>4, <1>5 DEF Disposes, OnItsWay, PeriodSteps, DisposalSteps
<1> QED
  BY <1>2, <1>5, <1>6, <1>7 DEF Sound, LedgerSteps

\* The definitions that the locals of a request at any step consist of.
LEMMA LedgerMoves ==
  ASSUME TypeOK, LocalsOK, NEW w \in Clerks, LedgerStep(w),
         UNCHANGED <<duties, taxTables, registers>>
  PROVE  Sound(w) /\ LedgerQuiet(w)
<1> USE DEF database, assetTables, ledgerTables, bankTables, budgetTables, taxTables, registers
<1>0. /\ pc[w] = "idle" => job[w] = Idle
      /\ pc[w] \in {"idle", "period", "new period", "voucher type", "enter", "void period", "void", "close", "reopen"} => job[w] \in Jobs
  BY DEF LocalsOK, LocalOK, TaxSteps, RateSteps
<1>1. ASSUME NEW m \in Months, handleClosePeriod(w, m) \/ handleReopenPeriod(w, m)
      PROVE  Sound(w) /\ LedgerQuiet(w)
  <2> DEFINE j == [Idle EXCEPT !.month = m]
  <2>1. j \in Jobs
    BY IdleType DEF Jobs, Idle
  <2>2. PICK step \in {"close", "reopen"} : Begin(w, step, j) /\ pc[w] = "idle"
    BY <1>1 DEF handleClosePeriod, handleReopenPeriod, Close, Reopen, Takes
  <2> HIDE DEF j
  <2>3. Moved(w) /\ pc'[w] \in {"close", "reopen"} /\ job'[w] \in Jobs /\ UNCHANGED database
    BY <2>1, <2>2, BeginMoves DEF Steps, AllJobs
  <2>4. TypeOK'
    BY <2>3 DEF TypeOK, Moved, AllJobs
  <2>5. LocalOK(w)' /\ ~ Disposes(w)'
    BY <2>3 DEF LocalOK, TaxSteps, RateSteps, Depreciates, Quotas, Disposes, OnItsWay, PeriodSteps,
       RunSteps, DisposalSteps
  <2> QED
    BY <2>2, <2>3, <2>4, <2>5, EntriesSame DEF Sound, LedgerQuiet, LedgerSteps
<1>2. ASSUME NEW m \in Months, NEW e \in Entries, NEW t \in VoucherTypes \cup {Standard},
             handlePostJournal(w, e, m, t)
      PROVE  Sound(w) /\ LedgerQuiet(w)
  <2> DEFINE j == [Idle EXCEPT !.month = m, !.entry = e, !.type = t]
  <2>1. j \in Jobs /\ j.entry # NoEntry
    BY IdleType, BackOfficeAssumption DEF Jobs, Idle
  <2>2. Begin(w, "period", j) /\ pc[w] = "idle"
    BY <1>2 DEF handlePostJournal, PostJournal, Takes
  <2> HIDE DEF j
  <2>3. Moved(w) /\ pc'[w] = "period" /\ job'[w] = j /\ UNCHANGED database
    BY <2>1, <2>2, BeginMoves DEF Steps, AllJobs
  <2>4. TypeOK'
    BY <2>3 DEF TypeOK, Moved, AllJobs
  <2>5. LocalOK(w)' /\ ~ Disposes(w)'
    BY <2>1, <2>3 DEF LocalOK, TaxSteps, RateSteps, Depreciates, Quotas, Disposes, OnItsWay, PeriodSteps,
       RunSteps, DisposalSteps
  <2> QED
    BY <2>2, <2>3, <2>4, <2>5, EntriesSame DEF Sound, LedgerQuiet, LedgerSteps, PeriodSteps
<1>3. ASSUME NEW e \in Entries, handleVoidJournal(w, e)
      PROVE  Sound(w) /\ LedgerQuiet(w)
  <2> DEFINE j == [Idle EXCEPT !.entry = e, !.month = entries[e].month]
  <2>1. j \in Jobs
    <3>1. entries[e].month \in Months \cup {NoMonth}
      BY DEF TypeOK, EntryRows
    <3> QED
      BY <3>1, IdleType DEF Jobs, Idle
  <2>2. Begin(w, "void period", j) /\ pc[w] = "idle"
    BY <1>3 DEF handleVoidJournal, VoidJournal, Takes
  <2> HIDE DEF j
  <2>3. Moved(w) /\ pc'[w] = "void period" /\ job'[w] = j /\ UNCHANGED database
    BY <2>1, <2>2, BeginMoves DEF Steps, AllJobs
  <2>4. TypeOK'
    BY <2>3 DEF TypeOK, Moved, AllJobs
  <2>5. LocalOK(w)' /\ ~ Disposes(w)'
    BY <2>1, <2>3 DEF LocalOK, TaxSteps, RateSteps, Depreciates, Quotas, Disposes, OnItsWay, PeriodSteps,
       RunSteps, DisposalSteps
  <2> QED
    BY <2>2, <2>3, <2>4, <2>5, EntriesSame DEF Sound, LedgerQuiet, LedgerSteps
<1>4. ASSUME End(w), TypeOK', pc[w] \in LedgerSteps,
             UNCHANGED <<assetTables, bankTables, budgetTables>>, BooksKept
      PROVE  Sound(w) /\ LedgerQuiet(w)
  <2>1. Sound(w) /\ pc'[w] = "idle"
    BY <1>4, EndSound
  <2> QED
    BY <1>4, <2>1 DEF LedgerQuiet, LedgerSteps, Disposes, OnItsWay, PeriodSteps, DisposalSteps
<1>5. CASE GetByYearMonth(w)
  <2>1. TypeOK' /\ BooksKept /\ UNCHANGED <<assetTables, bankTables, budgetTables>>
    <3>1. UNCHANGED database /\ (End(w) \/ \E s \in {"new period", AfterPeriod(w)} : Goes(w, s, job[w]))
      BY <1>5 DEF GetByYearMonth
    <3>2. Moved(w)
      <4>1. "new period" \in Steps /\ AfterPeriod(w) \in Steps
        BY AfterPeriodSteps DEF Steps
      <4> QED
        BY <3>1, <4>1, JobType, GoesMoves, EndMoves
    <3> QED
      BY <3>1, <3>2, EntriesSame DEF TypeOK, Moved, AllJobs
  <2>2. CASE Goes(w, "new period", job[w])
    <3>1. Moved(w) /\ pc'[w] = "new period" /\ job'[w] = job[w] /\ pc[w] = "period"
      <4>1. "new period" \in Steps /\ job[w] \in AllJobs /\ pc[w] = "period"
        BY <1>5, JobType DEF Steps, GetByYearMonth
      <4> QED
        BY <2>2, <4>1, GoesMoves
    <3>2. LocalOK(w)' /\ (Disposes(w)' => Disposes(w))
      BY <1>0, <3>1 DEF LocalsOK, LocalOK, TaxSteps, RateSteps, Depreciates, Quotas, Disposes, OnItsWay,
         PeriodSteps, RunSteps, DisposalSteps
    <3> QED
      BY <2>1, <3>1, <3>2 DEF Sound, LedgerQuiet, LedgerSteps, PeriodSteps
  <2>3. CASE Goes(w, AfterPeriod(w), job[w])
    BY <1>5, <2>1, <2>3, AfterPeriodSound DEF GetByYearMonth, LedgerQuiet, PeriodSteps, LedgerSteps
  <2>4. CASE End(w)
    BY <1>4, <1>5, <2>1, <2>4 DEF GetByYearMonth, PeriodSteps, LedgerSteps
  <2> QED
    BY <1>5, <2>2, <2>3, <2>4 DEF GetByYearMonth
<1>6. CASE CreatePeriod(w)
  <2>1. periods' \in [Months -> {"none", "OPEN", "CLOSED"}]
    <3>1. periods \in [Months -> {"none", "OPEN", "CLOSED"}]
      BY DEF TypeOK
    <3>2. periods' = periods \/ periods' = [periods EXCEPT ![job[w].month] = "OPEN"]
      BY <1>6 DEF CreatePeriod
    <3> QED
      BY <3>1, <3>2
  <2>2. BooksKept /\ UNCHANGED <<assetTables, bankTables, budgetTables, entries>> /\ pc[w] = "new period"
    BY <1>6, EntriesSame DEF CreatePeriod
  <2>3. Goes(w, AfterPeriod(w), job[w]) \/ End(w)
    BY <1>6 DEF CreatePeriod, Applied
  <2>4. TypeOK'
    <3>1. Moved(w)
      <4>1. AfterPeriod(w) \in Steps
        BY AfterPeriodSteps DEF Steps
      <4> QED
        BY <2>3, <4>1, JobType, GoesMoves, EndMoves
    <3> QED
      BY <2>1, <2>2, <3>1 DEF TypeOK, Moved, AllJobs
  <2> QED
    BY <1>4, <2>2, <2>3, <2>4, AfterPeriodSound DEF LedgerQuiet, PeriodSteps, LedgerSteps
<1>7. CASE ClosePeriod(w) \/ ReopenPeriod(w)
  <2>1. PICK step \in {"close", "reopen"}, status \in {"OPEN", "CLOSED"} : SetPeriod(w, step, status)
    BY <1>7 DEF ClosePeriod, ReopenPeriod
  <2>2. periods' \in [Months -> {"none", "OPEN", "CLOSED"}]
    BY <2>1 DEF SetPeriod, TypeOK
  <2>3. TypeOK'
    BY <2>1, <2>2, EndMoves DEF SetPeriod, TypeOK, Moved, AllJobs
  <2> QED
    BY <1>4, <2>1, <2>3, EntriesSame DEF SetPeriod, LedgerSteps
<1>8. CASE IsRegisteredVoucherType(w) \/ CheckVoidPeriod(w)
  <2>1. /\ pc[w] \in {"voucher type", "void period"} /\ UNCHANGED database
        /\ End(w) \/ \E s \in {"enter", "void"} : Goes(w, s, job[w])
    BY <1>8 DEF IsRegisteredVoucherType, CheckVoidPeriod
  <2>2. TypeOK'
    <3>1. Moved(w)
      <4>1. "enter" \in Steps /\ "void" \in Steps /\ job[w] \in AllJobs
        BY JobType DEF Steps
      <4> QED
        BY <2>1, <4>1, GoesMoves, EndMoves
    <3> QED
      BY <2>1, <3>1 DEF TypeOK, Moved, AllJobs
  <2>3. ASSUME NEW s \in {"enter", "void"}, Goes(w, s, job[w])
        PROVE  Sound(w) /\ LedgerQuiet(w)
    <3>1. Moved(w) /\ pc'[w] \in {"enter", "void"} /\ job'[w] = job[w]
      BY <2>3, JobType, GoesMoves DEF Steps
    <3>2. LocalOK(w)' /\ ~ Disposes(w)'
      BY <1>0, <2>1, <3>1 DEF LocalOK, TaxSteps, RateSteps, Depreciates, Quotas, Disposes, OnItsWay,
         PeriodSteps, RunSteps, DisposalSteps
    <3> QED
      BY <2>1, <2>2, <3>1, <3>2, EntriesSame DEF Sound, LedgerQuiet, LedgerSteps
  <2> QED
    BY <1>4, <2>1, <2>2, <2>3, EntriesSame DEF LedgerSteps
<1>9. CASE EnterJournal(w)
  <2> DEFINE e == job[w].entry
  <2>1. /\ pc[w] = "enter" /\ End(w) /\ UNCHANGED <<assetTables, periods, bankTables, budgetTables>>
        /\ entries[e].status = "none" /\ entries' = [entries EXCEPT ![e] = NewEntry("manual", job[w])]
    BY <1>9 DEF EnterJournal, CreateEntry
  <2>2. NewEntry("manual", job[w]) \in EntryRows /\ NewEntry("manual", job[w]).source = "manual"
    BY <1>0, <2>1 DEF NewEntry, EntryRows, Jobs
  <2>3. entries' \in [Entries -> EntryRows]
    BY <2>1, <2>2 DEF TypeOK
  <2>4. \A f \in Entries :
          \/ entries'[f] = entries[f]
          \/ entries[f].status = "none" /\ entries'[f].source = "manual" /\ entries'[f].status = "POSTED"
    <3>1. entries \in [Entries -> EntryRows] /\ NewEntry("manual", job[w]).status = "POSTED"
      BY DEF TypeOK, NewEntry
    <3> QED
      BY <2>1, <2>2, <3>1
  <2>5. TypeOK'
    BY <2>1, <2>3, <2>4, EndMoves DEF TypeOK, Moved, AllJobs
  <2>6. BooksKept
    BY <2>4 DEF BooksKept, DepreciationOf, DisposalOf
  <2> QED
    BY <1>4, <2>1, <2>5, <2>6 DEF LedgerSteps
<1>10. CASE Void(w)
  <2> DEFINE e == job[w].entry
  <2>1. /\ pc[w] = "void" /\ End(w) /\ UNCHANGED <<assetTables, periods, bankTables, budgetTables>>
        /\ entries' = [entries EXCEPT ![e].status = "VOID"]
    BY <1>10 DEF Void
  <2>2. /\ entries \in [Entries -> EntryRows]
        /\ \A f \in Entries : entries[f].status = "none" => entries[f].source = "manual"
    BY DEF TypeOK, NoEntryRow
  <2>3. ASSUME NEW f \in Entries
        PROVE  /\ entries'[f] \in EntryRows
               /\ \/ entries'[f] = entries[f]
                  \/ /\ entries'[f].status = "VOID" /\ entries'[f].source = entries[f].source
                     /\ entries'[f].month = entries[f].month /\ entries'[f].asset = entries[f].asset
                     /\ entries'[f].amounts = entries[f].amounts
    <3>1. entries[f] \in EntryRows
      BY <2>2
    <3>2. entries'[f] = entries[f] \/ entries'[f] = [entries[f] EXCEPT !.status = "VOID"]
      BY <2>1, <2>2
    <3> QED
      BY <3>1, <3>2 DEF EntryRows
  <2>4. TypeOK'
    <3>1. entries' \in [Entries -> EntryRows]
      BY <2>1, <2>2, <2>3
    <3> QED
      BY <2>1, <2>3, <3>1, EndMoves DEF TypeOK, Moved, AllJobs
  <2>5. BooksKept
    BY <2>2, <2>3 DEF BooksKept, DepreciationOf, DisposalOf
  <2> QED
    BY <1>4, <2>1, <2>4, <2>5 DEF LedgerSteps
<1> QED
  BY <1>1, <1>2, <1>3, <1>5, <1>6, <1>7, <1>8, <1>9, <1>10 DEF LedgerStep

-----------------------------------------------------------------------------
(* Assets: what each step does to the request that takes it and to the     *)
(* tables.                                                                 *)

AssetFrame == UNCHANGED <<duties, periods, bankTables, budgetTables, taxTables, registers>>

\* The request goes on, or ends at a fault.
GoesOn(w, step, j) ==
  \/ pc'[w] = step /\ job'[w] = j
  \/ pc'[w] = "idle" /\ job'[w] = Idle /\ Faults[w] # {}

\* A quota is never more than what remains to be depreciated.
LEMMA QuotaType ==
  ASSUME NEW a \in Assets, NEW done \in Nat
  PROVE  /\ Quota(a, done) \in Nat /\ Depreciable(a) \in Int
         /\ Quota(a, done) > 0 => Quota(a, done) <= Depreciable(a) - done
<1>1. Depreciable(a) \in Int /\ Life[a] \in Nat \ {0}
  BY BackOfficeAssumption DEF Depreciable
<1> DEFINE r == Depreciable(a)
<1>2. r > 0 => r \div Life[a] \in Nat
  <2> HIDE DEF r
  <2>1. r \in Int
    BY <1>1 DEF r
  <2>2. ASSUME NEW x \in Nat, NEW k \in Nat \ {0} PROVE x \div k \in Nat
    BY SMTT(20)
  <2> QED
    BY <1>1, <2>1, <2>2
<1>3. r - done > 0 => r > 0
  BY <1>1
<1> QED
  BY <1>1, <1>2, <1>3 DEF Quota, MonthlyDepreciation

\* What holds of a request by the step it is at.
LEMMA LocalFacts ==
  ASSUME TypeOK, LocalsOK, NEW w \in Clerks
  PROVE  /\ pc[w] = "idle" => job[w] = Idle
         /\ pc[w] \notin TaxSteps \cup RateSteps => job[w] \in Jobs
         /\ pc[w] \in RunSteps => job[w] \in Jobs /\ "depreciate" \in duties[w] /\ job[w].month \in Months
         /\ pc[w] \in DisposalSteps => job[w] \in Jobs /\ "dispose" \in duties[w] /\ job[w].asset \in Assets
         /\ pc[w] = "status" => job[w].asset \in Assets
         /\ pc[w] \in {"has run", "list"} => job[w].amounts = NoAmounts
BY DEF LocalsOK, LocalOK, Quotas, Depreciates, Quotas, Disposes, TaxSteps, RateSteps, RunSteps, DisposalSteps

\* A request that is at a step of a run is in order.
LEMMA RunSound ==
  ASSUME NEW w \in Clerks, TypeOK', Moved(w), pc'[w] \in RunSteps, job'[w] \in Jobs,
         "depreciate" \in duties'[w], job'[w].month \in Months,
         pc'[w] \in {"has run", "list"} => job'[w].amounts = NoAmounts,
         pc'[w] = "status" => job'[w].asset \in Assets
  PROVE  Sound(w)
BY DEF Sound, LocalOK, TaxSteps, RateSteps, Depreciates, Quotas, Disposes, OnItsWay, PeriodSteps,
   RunSteps, DisposalSteps

LEMMA DisposalSound ==
  ASSUME NEW w \in Clerks, TypeOK', Moved(w), pc'[w] \in DisposalSteps, job'[w] \in Jobs,
         "dispose" \in duties'[w], job'[w].asset \in Assets
  PROVE  Sound(w)
BY DEF Sound, LocalOK, TaxSteps, RateSteps, Depreciates, Quotas, Disposes, OnItsWay, PeriodSteps,
   RunSteps, DisposalSteps

LEMMA JobTypes ==
  ASSUME NEW j \in Jobs, NEW a \in Assets, NEW S \in SUBSET Assets, NEW n \in Nat
  PROVE  /\ [j EXCEPT !.todo = S] \in Jobs
         /\ [j EXCEPT !.asset = a] \in Jobs /\ [j EXCEPT !.asset = NoAsset] \in Jobs
         /\ [j EXCEPT !.amounts[a] = n] \in Jobs
BY DEF Jobs

LEMMA RegisterMoves ==
  ASSUME TypeOK, LocalsOK, NEW w \in Clerks, NEW a \in Assets, handleCreateFixedAsset(w, a), AssetFrame
  PROVE  /\ Sound(w) /\ pc[w] = "idle" /\ UNCHANGED <<pc, job, accumulated, runs, entries>>
         /\ assets[a] = "none" /\ assets' = [assets EXCEPT ![a] = "ACTIVE"]
<1>1. /\ pc[w] = "idle" /\ UNCHANGED <<pc, job, accumulated, runs, entries>>
      /\ assets[a] = "none" /\ assets' = [assets EXCEPT ![a] = "ACTIVE"]
  BY DEF handleCreateFixedAsset, CreateFixedAsset, Takes, ledgerTables
<1>2. assets' \in [Assets -> AssetStatuses \cup {"none"}]
  BY <1>1 DEF TypeOK, AssetStatuses
<1>3. TypeOK'
  BY <1>1, <1>2 DEF TypeOK, AssetFrame, ledgerTables, bankTables, budgetTables, taxTables, registers
<1>4. Moved(w) /\ LocalOK(w)'
  <2>1. pc' \in [Clerks -> Steps] /\ job' \in [Clerks -> AllJobs]
    BY <1>3 DEF TypeOK, AllJobs
  <2>2. LocalOK(w)
    BY DEF LocalsOK
  <2>3. LocalOK(w)'
    BY <1>1, <2>2 DEF LocalOK, AssetFrame, Depreciates, Quotas, Disposes, OnItsWay
  <2> QED
    BY <1>1, <2>1, <2>3 DEF Moved
<1> QED
  BY <1>1, <1>3, <1>4 DEF Sound

LEMMA RunMoves ==
  ASSUME TypeOK, LocalsOK, NEW w \in Clerks, NEW m \in Months, handleRunDepreciation(w, m), AssetFrame
  PROVE  /\ Sound(w) /\ pc[w] = "idle" /\ UNCHANGED database
         /\ pc'[w] = "period" /\ ~ Disposes(w)'
<1> DEFINE j == [Idle EXCEPT !.month = m]
<1>1. j \in Jobs /\ j.entry = NoEntry /\ j.asset = NoAsset /\ j.month = m /\ j.amounts = NoAmounts
  BY IdleType DEF Jobs, Idle
<1>2. Begin(w, "period", j) /\ pc[w] = "idle" /\ "depreciate" \in duties[w]
  BY DEF handleRunDepreciation, RunDepreciation, Takes
<1> HIDE DEF j
<1>3. Moved(w) /\ pc'[w] = "period" /\ job'[w] = j /\ UNCHANGED database
  BY <1>1, <1>2, BeginMoves DEF Steps, AllJobs
<1>4. TypeOK'
  BY <1>3 DEF TypeOK, Moved, AllJobs, AssetFrame, database, assetTables, ledgerTables, bankTables,
     budgetTables, taxTables, registers
<1>5. LocalOK(w)' /\ ~ Disposes(w)'
  BY <1>1, <1>2, <1>3 DEF LocalOK, TaxSteps, RateSteps, Depreciates, Quotas, Disposes, OnItsWay, PeriodSteps,
     RunSteps, DisposalSteps, AssetFrame
<1> QED
  BY <1>2, <1>3, <1>4, <1>5 DEF Sound

LEMMA DisposeMoves ==
  ASSUME TypeOK, LocalsOK, NEW w \in Clerks, NEW a \in Assets, NEW m \in Months,
         handleDisposeFixedAsset(w, a, m), AssetFrame
  PROVE  /\ Sound(w) /\ pc[w] = "idle" /\ UNCHANGED database
         /\ pc'[w] = "period" /\ job'[w].asset = a /\ assets[a] \notin {"none", "DISPOSED"}
<1> DEFINE j == [Idle EXCEPT !.asset = a, !.month = m]
<1>1. j \in Jobs /\ j.entry = NoEntry /\ j.asset = a /\ j.asset # NoAsset
  BY IdleType, BackOfficeAssumption DEF Jobs, Idle
<1>2. /\ Begin(w, "period", j) /\ pc[w] = "idle" /\ "dispose" \in duties[w]
      /\ assets[a] \notin {"none", "DISPOSED"}
  BY DEF handleDisposeFixedAsset, Dispose, Takes
<1> HIDE DEF j
<1>3. Moved(w) /\ pc'[w] = "period" /\ job'[w] = j /\ UNCHANGED database
  BY <1>1, <1>2, BeginMoves DEF Steps, AllJobs
<1>4. TypeOK'
  BY <1>3 DEF TypeOK, Moved, AllJobs, AssetFrame, database, assetTables, ledgerTables, bankTables,
     budgetTables, taxTables, registers
<1>5. LocalOK(w)'
  BY <1>1, <1>2, <1>3 DEF LocalOK, TaxSteps, RateSteps, Depreciates, Quotas, Disposes, OnItsWay, PeriodSteps,
     RunSteps, DisposalSteps, AssetFrame
<1> QED
  BY <1>1, <1>2, <1>3, <1>4, <1>5 DEF Sound

\* A step that reads, and goes on with the locals j or ends.
LEMMA ReadMoves ==
  ASSUME TypeOK, LocalsOK, NEW w \in Clerks, AssetFrame, UNCHANGED database,
         NEW step \in RunSteps, NEW j \in Jobs, pc[w] \in RunSteps, j.month = job[w].month,
         step = "status" => j.asset \in Assets, step \in {"has run", "list"} => j.amounts = NoAmounts,
         Goes(w, step, j)
  PROVE  Sound(w) /\ pc'[w] = step /\ job'[w] = j
<1>1. step \in Steps /\ j \in AllJobs
  BY DEF RunSteps, Steps, AllJobs
<1>2. Moved(w) /\ pc'[w] = step /\ job'[w] = j
  BY <1>1, GoesMoves
<1>3. TypeOK'
  BY <1>2 DEF TypeOK, Moved, AllJobs, AssetFrame, database, assetTables, ledgerTables, bankTables,
     budgetTables, taxTables, registers
<1> QED
  BY <1>2, <1>3, LocalFacts, RunSound DEF AssetFrame

LEMMA EndReads ==
  ASSUME TypeOK, LocalsOK, NEW w \in Clerks, AssetFrame, UNCHANGED database, End(w)
  PROVE  Sound(w) /\ pc'[w] = "idle" /\ job'[w] = Idle
<1>1. TypeOK'
  BY EndMoves DEF TypeOK, Moved, AllJobs, AssetFrame, database, assetTables, ledgerTables, bankTables,
     budgetTables, taxTables, registers
<1> QED
  BY <1>1, EndMoves, EndSound

LEMMA HasRunMoves ==
  ASSUME TypeOK, LocalsOK, NEW w \in Clerks, HasRunForPeriod(w), AssetFrame
  PROVE  /\ Sound(w) /\ pc[w] = "has run" /\ UNCHANGED database
         /\ \/ pc'[w] = "idle"
            \/ pc'[w] = "list" /\ job'[w] = job[w] /\ job[w].month \notin runs
BY LocalFacts, ReadMoves, EndReads DEF HasRunForPeriod, RunSteps

LEMMA ListMoves ==
  ASSUME TypeOK, LocalsOK, NEW w \in Clerks, ListAssets(w), AssetFrame
  PROVE  /\ Sound(w) /\ pc[w] = "list" /\ UNCHANGED database
         /\ pc'[w] = "quota"
         /\ job'[w] = [job[w] EXCEPT !.todo = {a \in Assets : assets[a] = "ACTIVE"}]
         /\ job[w] \in Jobs /\ job[w].amounts = NoAmounts
<1>1. /\ pc[w] = "list" /\ UNCHANGED database
      /\ Goes(w, "quota", [job[w] EXCEPT !.todo = {a \in Assets : assets[a] = "ACTIVE"}])
  BY DEF ListAssets
<1>2. job[w] \in Jobs /\ job[w].amounts = NoAmounts
  BY <1>1, LocalFacts DEF RunSteps
<1>3. [job[w] EXCEPT !.todo = {a \in Assets : assets[a] = "ACTIVE"}] \in Jobs
      /\ [job[w] EXCEPT !.todo = {a \in Assets : assets[a] = "ACTIVE"}].month = job[w].month
  BY <1>2 DEF Jobs
<1> QED
  BY <1>1, <1>2, <1>3, ReadMoves DEF RunSteps

LEMMA NextAssetMoves ==
  ASSUME TypeOK, LocalsOK, NEW w \in Clerks, NextAsset(w), AssetFrame
  PROVE  /\ Sound(w) /\ pc[w] = "quota" /\ UNCHANGED database /\ job[w] \in Jobs
         /\ pc'[w] \in {"quota", "status"}
         /\ \E a \in job[w].todo :
              /\ a \in Assets
              /\ job'[w].todo = job[w].todo \ {a} /\ job'[w].month = job[w].month
              /\ job'[w].amounts = [job[w].amounts EXCEPT ![a] = Quota(a, accumulated[a])]
              /\ pc'[w] = "status" => job'[w].asset = a
<1>1. /\ pc[w] = "quota" /\ UNCHANGED database /\ job[w] \in Jobs
  BY LocalFacts DEF NextAsset, RunSteps
<1>2. PICK a \in job[w].todo :
        LET amount == Quota(a, accumulated[a])
            j == [job[w] EXCEPT !.todo = @ \ {a}, !.amounts[a] = amount]
        IN Goes(w, "status", [j EXCEPT !.asset = a]) \/ Goes(w, "quota", j)
  BY DEF NextAsset
<1> DEFINE j == [job[w] EXCEPT !.todo = @ \ {a}, !.amounts[a] = Quota(a, accumulated[a])]
           k == [j EXCEPT !.asset = a]
<1>3. a \in Assets
  BY <1>1 DEF Jobs
<1>4. Quota(a, accumulated[a]) \in Nat
  BY <1>3, QuotaType DEF TypeOK
<1>5. /\ j \in Jobs /\ j.month = job[w].month /\ j.todo = job[w].todo \ {a}
      /\ j.amounts = [job[w].amounts EXCEPT ![a] = Quota(a, accumulated[a])]
  BY <1>1, <1>3, <1>4 DEF Jobs
<1>6. k \in Jobs /\ k.month = j.month /\ k.todo = j.todo /\ k.amounts = j.amounts /\ k.asset = a
  <2> HIDE DEF j
  <2> QED
    BY <1>3, <1>5 DEF Jobs
<1>7. Goes(w, "status", k) \/ Goes(w, "quota", j)
  BY <1>2
<1> HIDE DEF j, k
<1>8. Sound(w) /\ ((pc'[w] = "status" /\ job'[w] = k) \/ (pc'[w] = "quota" /\ job'[w] = j))
  <2>1. "status" \in RunSteps /\ "quota" \in RunSteps /\ pc[w] \in RunSteps
    BY <1>1 DEF RunSteps
  <2>2. k.asset \in Assets /\ k.month = job[w].month /\ UNCHANGED database
    BY <1>1, <1>3, <1>5, <1>6
  <2>3. CASE Goes(w, "status", k)
    <3>1. Sound(w) /\ pc'[w] = "status" /\ job'[w] = k
      BY <1>6, <2>1, <2>2, <2>3, ReadMoves
    <3> QED
      BY <3>1
  <2>4. CASE Goes(w, "quota", j)
    <3>1. Sound(w) /\ pc'[w] = "quota" /\ job'[w] = j
      BY <1>5, <2>1, <2>2, <2>4, ReadMoves
    <3> QED
      BY <3>1
  <2> QED
    BY <1>7, <2>3, <2>4
<1> QED
  BY <1>1, <1>3, <1>5, <1>6, <1>8

LEMMA EndOfListMoves ==
  ASSUME TypeOK, LocalsOK, NEW w \in Clerks, EndOfList(w), AssetFrame
  PROVE  /\ Sound(w) /\ pc[w] = "quota" /\ UNCHANGED database
         /\ pc'[w] = "idle" \/ (pc'[w] = "post" /\ job'[w] = job[w])
BY LocalFacts, ReadMoves, EndReads DEF EndOfList, RunSteps

\* The request does not know which of its two ends it came to: it goes on, or is over.
LEMMA AppliedGoes ==
  ASSUME TypeOK, NEW w \in Clerks, NEW step \in Steps, Applied(w, step, job[w])
  PROVE  Moved(w) /\ GoesOn(w, step, job[w])
BY JobType, AppliedMoves DEF GoesOn

LEMMA AssetTypes ==
  ASSUME TypeOK, NEW w \in Clerks, Moved(w), AssetFrame,
         assets' \in [Assets -> AssetStatuses \cup {"none"}], accumulated' \in [Assets -> Nat],
         runs' \subseteq Months, entries' \in [Entries -> EntryRows],
         \A e \in Entries : entries'[e].status = "none" => entries'[e] = NoEntryRow
  PROVE  TypeOK'
BY DEF TypeOK, Moved, AllJobs, AssetFrame, bankTables, budgetTables, taxTables, registers

LEMMA StatusMoves ==
  ASSUME TypeOK, LocalsOK, NEW w \in Clerks, SetFullyDepreciated(w), AssetFrame
  PROVE  /\ Sound(w) /\ pc[w] = "status" /\ UNCHANGED <<accumulated, runs, entries>>
         /\ job[w].asset \in Assets
         /\ \/ assets' = [assets EXCEPT ![job[w].asset] = "FULLY_DEPRECIATED"]
            \/ assets' = assets
         /\ pc'[w] = "quota" /\ job'[w].todo = job[w].todo /\ job'[w].month = job[w].month
         /\ job'[w].amounts = job[w].amounts
<1> DEFINE j == [job[w] EXCEPT !.asset = NoAsset]
<1>1. /\ pc[w] = "status" /\ UNCHANGED <<accumulated, runs, entries>> /\ Goes(w, "quota", j)
      /\ \/ assets' = [assets EXCEPT ![job[w].asset] = "FULLY_DEPRECIATED"]
         \/ assets' = assets
  BY DEF SetFullyDepreciated, ledgerTables
<1>2. job[w] \in Jobs /\ job[w].asset \in Assets /\ "depreciate" \in duties[w] /\ job[w].month \in Months
  BY <1>1, LocalFacts DEF RunSteps
<1>3. /\ j \in Jobs /\ j.todo = job[w].todo /\ j.month = job[w].month /\ j.amounts = job[w].amounts
  BY <1>2 DEF Jobs
<1> HIDE DEF j
<1>4. Moved(w) /\ pc'[w] = "quota" /\ job'[w] = j
  BY <1>1, <1>3, GoesMoves DEF Steps, AllJobs
<1>5. TypeOK'
  <2>1. assets' \in [Assets -> AssetStatuses \cup {"none"}]
    BY <1>1, <1>2 DEF TypeOK, AssetStatuses
  <2> QED
    BY <1>1, <1>4, <2>1, AssetTypes DEF TypeOK
<1>6. Sound(w)
  BY <1>2, <1>3, <1>4, <1>5, RunSound DEF RunSteps, AssetFrame
<1> QED
  BY <1>1, <1>2, <1>3, <1>4, <1>6

\* An entry of one of the two kinds is made of the locals of the request.
LEMMA CreateEntryMakes ==
  ASSUME TypeOK, NEW w \in Clerks, job[w] \in Jobs, NEW source \in {"depreciation", "disposal"},
         NEW e \in Entries, CreateEntry(w, e, source)
  PROVE  /\ entries[e].status = "none" /\ entries[e].source = "manual"
         /\ entries' \in [Entries -> EntryRows]
         /\ entries'[e].status = "POSTED" /\ entries'[e].source = source
         /\ entries'[e].month = job[w].month /\ entries'[e].asset = job[w].asset
         /\ entries'[e].amounts = job[w].amounts
         /\ \A f \in Entries \ {e} : entries'[f] = entries[f]
<1> DEFINE r == NewEntry(source, job[w])
<1>1. /\ r \in EntryRows /\ r.status = "POSTED" /\ r.source = source /\ r.month = job[w].month
      /\ r.asset = job[w].asset /\ r.amounts = job[w].amounts
  BY DEF NewEntry, EntryRows, Jobs
<1>2. entries[e].status = "none" /\ entries' = [entries EXCEPT ![e] = r]
  BY DEF CreateEntry
<1>3. entries \in [Entries -> EntryRows] /\ entries[e].source = "manual"
  BY <1>2 DEF TypeOK, NoEntryRow
<1> HIDE DEF r
<1> QED
  BY <1>1, <1>2, <1>3

LEMMA PostDepreciationMoves ==
  ASSUME TypeOK, LocalsOK, NEW w \in Clerks, PostDepreciation(w), AssetFrame
  PROVE  /\ Sound(w) /\ pc[w] = "post" /\ UNCHANGED assetTables /\ job[w] \in Jobs
         /\ \E e \in Entries :
              /\ entries[e].status = "none" /\ entries[e].source = "manual"
              /\ entries'[e].status = "POSTED" /\ entries'[e].source = "depreciation"
              /\ entries'[e].month = job[w].month
              /\ \A f \in Entries \ {e} : entries'[f] = entries[f]
         /\ GoesOn(w, "record", job[w])
<1>1. /\ pc[w] = "post" /\ UNCHANGED assetTables /\ Applied(w, "record", job[w])
  BY DEF PostDepreciation
<1>2. PICK e \in Entries : CreateEntry(w, e, "depreciation")
  BY DEF PostDepreciation
<1>3. job[w] \in Jobs /\ "depreciate" \in duties[w] /\ job[w].month \in Months
  BY <1>1, LocalFacts DEF RunSteps
<1>4. /\ entries[e].status = "none" /\ entries[e].source = "manual"
      /\ entries' \in [Entries -> EntryRows]
      /\ entries'[e].status = "POSTED" /\ entries'[e].source = "depreciation"
      /\ entries'[e].month = job[w].month
      /\ \A f \in Entries \ {e} : entries'[f] = entries[f]
  BY <1>2, <1>3, CreateEntryMakes
<1>5. Moved(w) /\ GoesOn(w, "record", job[w])
  BY <1>1, AppliedGoes DEF Steps
<1>6. TypeOK'
  BY <1>1, <1>4, <1>5, AssetTypes DEF TypeOK, assetTables
<1>7. Sound(w)
  <2>1. CASE pc'[w] = "record" /\ job'[w] = job[w]
    BY <1>3, <1>5, <1>6, <2>1, RunSound DEF RunSteps, AssetFrame
  <2>2. CASE pc'[w] = "idle" /\ job'[w] = Idle
    BY <1>5, <1>6, <2>2, IdleType DEF Sound, LocalOK, TaxSteps, RateSteps, Depreciates, Quotas, Disposes,
       OnItsWay, PeriodSteps, RunSteps, DisposalSteps
  <2> QED
    BY <1>5, <2>1, <2>2 DEF GoesOn
<1> QED
  BY <1>1, <1>3, <1>4, <1>5, <1>7

LEMMA CreateRunMoves ==
  ASSUME TypeOK, LocalsOK, NEW w \in Clerks, CreateRun(w), AssetFrame
  PROVE  /\ Sound(w) /\ pc[w] = "record" /\ UNCHANGED <<assets, entries>> /\ pc'[w] = "idle"
         /\ job[w] \in Jobs
         /\ \/ job[w].month \in runs /\ UNCHANGED <<runs, accumulated>>
            \/ /\ job[w].month \notin runs /\ runs' = runs \cup {job[w].month}
               /\ accumulated' = [a \in Assets |-> accumulated[a] + job[w].amounts[a]]
<1>1. /\ pc[w] = "record" /\ UNCHANGED <<assets, entries>> /\ End(w)
      /\ \/ job[w].month \in runs /\ UNCHANGED <<runs, accumulated>>
         \/ /\ job[w].month \notin runs /\ runs' = runs \cup {job[w].month}
            /\ accumulated' = [a \in Assets |-> accumulated[a] + job[w].amounts[a]]
  BY DEF CreateRun, ledgerTables
<1>2. job[w] \in Jobs /\ job[w].month \in Months
  BY <1>1, LocalFacts DEF RunSteps
<1>3. runs' \subseteq Months
  BY <1>1, <1>2 DEF TypeOK
<1>4. accumulated' \in [Assets -> Nat]
  BY <1>1, <1>2 DEF TypeOK, Jobs
<1>5. TypeOK'
  BY <1>1, <1>3, <1>4, EndMoves, AssetTypes DEF TypeOK
<1> QED
  BY <1>1, <1>2, <1>5, EndSound

LEMMA GetAccumulatedMoves ==
  ASSUME TypeOK, LocalsOK, NEW w \in Clerks, GetAccumulated(w), AssetFrame
  PROVE  /\ Sound(w) /\ pc[w] = "accumulated" /\ UNCHANGED database
         /\ pc'[w] = "retire" /\ job'[w].asset = job[w].asset /\ job[w].asset \in Assets
         /\ job'[w].amounts[job[w].asset] = accumulated[job[w].asset]
<1> DEFINE j == [job[w] EXCEPT !.amounts[job[w].asset] = accumulated[job[w].asset]]
<1>1. pc[w] = "accumulated" /\ UNCHANGED database /\ Goes(w, "retire", j)
  BY DEF GetAccumulated
<1>2. job[w] \in Jobs /\ "dispose" \in duties[w] /\ job[w].asset \in Assets
  BY <1>1, LocalFacts DEF DisposalSteps
<1>3. accumulated[job[w].asset] \in Nat
  BY <1>2 DEF TypeOK
<1>4. j \in Jobs /\ j.asset = job[w].asset /\ j.amounts[job[w].asset] = accumulated[job[w].asset]
  BY <1>2, <1>3 DEF Jobs
<1> HIDE DEF j
<1>5. Moved(w) /\ pc'[w] = "retire" /\ job'[w] = j
  BY <1>1, <1>4, GoesMoves DEF Steps, AllJobs
<1>6. TypeOK'
  BY <1>1, <1>5, AssetTypes DEF TypeOK, database, assetTables, ledgerTables
<1> QED
  BY <1>1, <1>2, <1>4, <1>5, <1>6, DisposalSound DEF DisposalSteps, AssetFrame

LEMMA PostDisposalMoves ==
  ASSUME TypeOK, LocalsOK, NEW w \in Clerks, PostDisposal(w), AssetFrame
  PROVE  /\ Sound(w) /\ pc[w] = "retire" /\ UNCHANGED assetTables /\ job[w].asset \in Assets
         /\ \E e \in Entries :
              /\ entries[e].status = "none" /\ entries[e].source = "manual"
              /\ entries'[e].status = "POSTED" /\ entries'[e].source = "disposal"
              /\ entries'[e].asset = job[w].asset /\ entries'[e].amounts = job[w].amounts
              /\ \A f \in Entries \ {e} : entries'[f] = entries[f]
         /\ GoesOn(w, "dispose", job[w])
<1>1. /\ pc[w] = "retire" /\ UNCHANGED assetTables /\ Applied(w, "dispose", job[w])
  BY DEF PostDisposal
<1>2. PICK e \in Entries : CreateEntry(w, e, "disposal")
  BY DEF PostDisposal
<1>3. job[w] \in Jobs /\ "dispose" \in duties[w] /\ job[w].asset \in Assets
  BY <1>1, LocalFacts DEF DisposalSteps
<1>4. /\ entries[e].status = "none" /\ entries[e].source = "manual"
      /\ entries' \in [Entries -> EntryRows]
      /\ entries'[e].status = "POSTED" /\ entries'[e].source = "disposal"
      /\ entries'[e].asset = job[w].asset /\ entries'[e].amounts = job[w].amounts
      /\ \A f \in Entries \ {e} : entries'[f] = entries[f]
  BY <1>2, <1>3, CreateEntryMakes
<1>5. Moved(w) /\ GoesOn(w, "dispose", job[w])
  BY <1>1, AppliedGoes DEF Steps
<1>6. TypeOK'
  BY <1>1, <1>4, <1>5, AssetTypes DEF TypeOK, assetTables
<1>7. Sound(w)
  <2>1. CASE pc'[w] = "dispose" /\ job'[w] = job[w]
    BY <1>3, <1>5, <1>6, <2>1, DisposalSound DEF DisposalSteps, AssetFrame
  <2>2. CASE pc'[w] = "idle" /\ job'[w] = Idle
    BY <1>5, <1>6, <2>2, IdleType DEF Sound, LocalOK, TaxSteps, RateSteps, Depreciates, Quotas, Disposes,
       OnItsWay, PeriodSteps, RunSteps, DisposalSteps
  <2> QED
    BY <1>5, <2>1, <2>2 DEF GoesOn
<1> QED
  BY <1>1, <1>3, <1>4, <1>5, <1>7

LEMMA SetDisposedMoves ==
  ASSUME TypeOK, LocalsOK, NEW w \in Clerks, SetDisposed(w), AssetFrame
  PROVE  /\ Sound(w) /\ pc[w] = "dispose" /\ UNCHANGED <<accumulated, runs, entries>>
         /\ pc'[w] = "idle" /\ job[w].asset \in Assets
         /\ assets' = [assets EXCEPT ![job[w].asset] = "DISPOSED"]
<1>1. /\ pc[w] = "dispose" /\ UNCHANGED <<accumulated, runs, entries>> /\ End(w)
      /\ assets' = [assets EXCEPT ![job[w].asset] = "DISPOSED"]
  BY DEF SetDisposed, ledgerTables
<1>2. job[w].asset \in Assets
  BY <1>1, LocalFacts DEF DisposalSteps
<1>3. assets' \in [Assets -> AssetStatuses \cup {"none"}]
  BY <1>1, <1>2 DEF TypeOK, AssetStatuses
<1>4. TypeOK'
  BY <1>1, <1>3, EndMoves, AssetTypes DEF TypeOK
<1> QED
  BY <1>1, <1>2, <1>4, EndSound

-----------------------------------------------------------------------------
(* The bank, the budgets, the registers, and failures.                     *)

PlainSteps == {"voucher type", "enter", "void period", "void", "close", "reopen", "reconcile",
               "delete line", "delete lines", "delete", "approve", "deactivate"}

\* A request at a step that asks nothing of its locals is in order.
LEMMA PlainSound ==
  ASSUME NEW w \in Clerks, TypeOK', Moved(w), pc'[w] \in PlainSteps, job'[w] \in Jobs
  PROVE  Sound(w)
BY DEF Sound, PlainSteps, LocalOK, TaxSteps, RateSteps, Depreciates, Quotas, Disposes, OnItsWay,
   PeriodSteps, RunSteps, DisposalSteps

\* So is one that has not begun.
LEMMA IdleSound ==
  ASSUME TypeOK, LocalsOK, NEW w \in Clerks, pc[w] = "idle", UNCHANGED <<pc, job>>, TypeOK'
  PROVE  Sound(w) /\ pc'[w] = "idle"
<1>1. Moved(w)
  BY DEF Moved, TypeOK, AllJobs
<1>2. LocalOK(w)'
  BY LocalFacts, IdleType DEF LocalOK, TaxSteps, RateSteps, Depreciates, Quotas, Disposes, OnItsWay,
     PeriodSteps, RunSteps, DisposalSteps
<1> QED
  BY <1>1, <1>2 DEF Sound

LEMMA LinkTypes ==
  /\ "none" \in Links /\ NoEntry \in Links /\ Entries \subseteq Links
BY DEF Links

BankSteps   == {"idle", "reconcile", "mark", "mark other"}
BankFrame   == UNCHANGED <<duties, assetTables, ledgerTables, budgetTables, taxTables, registers>>

LEMMA BankTypes ==
  ASSUME TypeOK, NEW w \in Clerks, Moved(w) \/ UNCHANGED <<pc, job>>, BankFrame,
         statement' \in [Statement -> Links], marks' \in [Entries -> Links]
  PROVE  TypeOK'
BY DEF TypeOK, Moved, AllJobs, BankFrame, assetTables, ledgerTables, budgetTables, taxTables, registers

LEMMA StatementMoves ==
  ASSUME TypeOK, LocalsOK, NEW w \in Clerks, BankFrame,
         \/ \E l \in Statement : \/ handleAddStatementLine(w, l)
                                  \/ \E e \in Entries : handleReconcile(w, l, e)
         \/ Reconcile(w)
  PROVE  Sound(w) /\ UNCHANGED marks /\ pc[w] \in {"idle", "reconcile"} /\ pc'[w] \in {"idle", "reconcile"}
<1>1. CASE \E l \in Statement : handleAddStatementLine(w, l)
  <2>1. PICK l \in Statement : handleAddStatementLine(w, l)
    BY <1>1
  <2>2. /\ pc[w] = "idle" /\ statement' = [statement EXCEPT ![l] = NoEntry]
        /\ UNCHANGED <<marks, pc, job>>
    BY <2>1 DEF handleAddStatementLine, AddStatementLine, Takes
  <2>3. TypeOK'
    BY <2>2, LinkTypes, BankTypes DEF TypeOK
  <2> QED
    BY <2>2, <2>3, IdleSound
<1>2. CASE \E l \in Statement : \E e \in Entries : handleReconcile(w, l, e)
  <2>1. PICK l \in Statement, e \in Entries : handleReconcile(w, l, e)
    BY <1>2
  <2> DEFINE j == [Idle EXCEPT !.line = l, !.entry = e]
  <2>2. j \in Jobs
    BY IdleType DEF Jobs, Idle
  <2>3. pc[w] = "idle" /\ Begin(w, "reconcile", j)
    BY <2>1 DEF handleReconcile, Takes
  <2> HIDE DEF j
  <2>4. Moved(w) /\ pc'[w] = "reconcile" /\ job'[w] \in Jobs /\ UNCHANGED <<statement, marks>>
    BY <2>2, <2>3, BeginMoves DEF Steps, AllJobs, database, bankTables
  <2>5. TypeOK'
    BY <2>4, BankTypes DEF TypeOK
  <2> QED
    BY <2>3, <2>4, <2>5, PlainSound DEF PlainSteps
<1>3. CASE Reconcile(w)
  <2>1. /\ pc[w] = "reconcile" /\ End(w) /\ UNCHANGED marks
        /\ \/ statement' = statement
           \/ statement' = [statement EXCEPT ![job[w].line] = job[w].entry]
    BY <1>3 DEF Reconcile
  <2>2. job[w].entry \in Links
    <3>1. job[w] \in Jobs
      BY <2>1, LocalFacts DEF TaxSteps, RateSteps
    <3> QED
      BY <3>1, LinkTypes DEF Jobs
  <2>3. TypeOK'
    <3>1. statement' \in [Statement -> Links]
      BY <2>1, <2>2 DEF TypeOK
    <3> QED
      BY <2>1, <3>1, EndMoves, BankTypes DEF TypeOK
  <2> QED
    BY <2>1, <2>3, EndSound
<1> QED
  BY <1>1, <1>2, <1>3

LEMMA BeginMarkMoves ==
  ASSUME TypeOK, LocalsOK, NEW w \in Clerks, NEW e \in Entries, NEW f \in Entries \cup {NoEntry},
         handleMarkReconciled(w, e, f), BankFrame
  PROVE  /\ Sound(w) /\ UNCHANGED marks /\ pc[w] = "idle" /\ pc'[w] = "mark"
         /\ job'[w].entry = e /\ job'[w].other = f
         /\ \/ "remark" \in duties[w]
            \/ "mark" \in duties[w] /\ e # f /\ marks[e] = "none" /\ (f \in Entries => marks[f] = "none")
<1> DEFINE j == [Idle EXCEPT !.entry = e, !.other = f]
<1>1. j \in Jobs /\ j.entry = e /\ j.other = f
  BY IdleType DEF Jobs, Idle
<1>2. /\ pc[w] = "idle" /\ Begin(w, "mark", j)
      /\ \/ "remark" \in duties[w]
         \/ "mark" \in duties[w] /\ e # f /\ marks[e] = "none" /\ (f \in Entries => marks[f] = "none")
  BY BackOfficeAssumption DEF handleMarkReconciled, Takes, Mark, Remark, OpenLines
<1> HIDE DEF j
<1>3. Moved(w) /\ pc'[w] = "mark" /\ job'[w] = j /\ UNCHANGED <<statement, marks>>
  BY <1>1, <1>2, BeginMoves DEF Steps, AllJobs, database, bankTables
<1>4. TypeOK'
  BY <1>3, BankTypes DEF TypeOK
<1>5. LocalOK(w)'
  <2>1. {"mark", "remark"} \cap duties'[w] # {}
    BY <1>2 DEF BankFrame
  <2> QED
    BY <1>1, <1>3, <2>1 DEF LocalOK, TaxSteps, RateSteps, Depreciates, Quotas, Disposes, OnItsWay, PeriodSteps,
       RunSteps, DisposalSteps
<1> QED
  BY <1>1, <1>2, <1>3, <1>4, <1>5 DEF Sound

\* What a request that marks carries.
LEMMA MarkFacts ==
  ASSUME TypeOK, LocalsOK, NEW w \in Clerks, pc[w] \in {"mark", "mark other"}
  PROVE  /\ job[w] \in Jobs /\ job[w].entry \in Entries /\ job[w].other \in Entries \cup {NoEntry}
         /\ {"mark", "remark"} \cap duties[w] # {}
         /\ pc[w] = "mark other" => job[w].other \in Entries
<1>1. job[w] \in Jobs
  BY LocalFacts DEF TaxSteps, RateSteps
<1> QED
  BY <1>1 DEF LocalsOK, LocalOK, Jobs

LEMMA MarkOneMoves ==
  ASSUME TypeOK, LocalsOK, NEW w \in Clerks, MarkOne(w), BankFrame
  PROVE  /\ Sound(w) /\ pc[w] = "mark" /\ marks' = [marks EXCEPT ![job[w].entry] = job[w].other]
         /\ \/ pc'[w] = "idle" /\ (job[w].other = NoEntry \/ Faults[w] # {})
            \/ pc'[w] = "mark other" /\ job'[w] = job[w] /\ job[w].other # NoEntry
<1>1. /\ pc[w] = "mark" /\ marks' = [marks EXCEPT ![job[w].entry] = job[w].other] /\ UNCHANGED statement
      /\ \/ job[w].other = NoEntry /\ End(w)
         \/ job[w].other # NoEntry /\ Applied(w, "mark other", job[w])
  BY DEF MarkOne
<1>2. /\ job[w] \in Jobs /\ job[w].entry \in Entries /\ job[w].other \in Entries \cup {NoEntry}
      /\ {"mark", "remark"} \cap duties[w] # {}
  BY <1>1, MarkFacts
<1>3. marks' \in [Entries -> Links]
  BY <1>1, <1>2, LinkTypes DEF TypeOK
<1>4. /\ Moved(w)
      /\ \/ pc'[w] = "idle" /\ job'[w] = Idle /\ (job[w].other = NoEntry \/ Faults[w] # {})
         \/ pc'[w] = "mark other" /\ job'[w] = job[w] /\ job[w].other # NoEntry
  <2>1. "mark other" \in Steps
    BY DEF Steps
  <2> QED
    BY <1>1, <2>1, EndMoves, AppliedGoes DEF GoesOn
<1>5. TypeOK'
  BY <1>1, <1>3, <1>4, BankTypes DEF TypeOK
<1>6. LocalOK(w)'
  <2>1. CASE pc'[w] = "idle" /\ job'[w] = Idle
    BY <2>1, IdleType DEF LocalOK, TaxSteps, RateSteps, Depreciates, Quotas, Disposes, OnItsWay,
       PeriodSteps, RunSteps, DisposalSteps
  <2>2. CASE pc'[w] = "mark other" /\ job'[w] = job[w] /\ job[w].other # NoEntry
    <3>1. {"mark", "remark"} \cap duties'[w] # {}
      BY <1>2 DEF BankFrame
    <3> QED
      BY <1>2, <2>2, <3>1 DEF LocalOK, TaxSteps, RateSteps, Depreciates, Quotas, Disposes, OnItsWay,
         PeriodSteps, RunSteps, DisposalSteps
  <2> QED
    BY <1>4, <2>1, <2>2
<1> QED
  BY <1>1, <1>4, <1>5, <1>6 DEF Sound

LEMMA MarkOtherMoves ==
  ASSUME TypeOK, LocalsOK, NEW w \in Clerks, MarkOther(w), BankFrame
  PROVE  /\ Sound(w) /\ pc[w] = "mark other" /\ pc'[w] = "idle"
         /\ marks' = [marks EXCEPT ![job[w].other] = job[w].entry]
<1>1. /\ pc[w] = "mark other" /\ End(w) /\ UNCHANGED statement
      /\ marks' = [marks EXCEPT ![job[w].other] = job[w].entry]
  BY DEF MarkOther
<1>2. marks' \in [Entries -> Links]
  BY <1>1, MarkFacts, LinkTypes DEF TypeOK
<1>3. TypeOK'
  BY <1>1, <1>2, EndMoves, BankTypes DEF TypeOK
<1> QED
  BY <1>1, <1>3, EndSound

LEMMA UnmarkMoves ==
  ASSUME TypeOK, LocalsOK, NEW w \in Clerks, NEW e \in Entries, handleUnmarkReconciled(w, e), BankFrame
  PROVE  /\ Sound(w) /\ pc[w] = "idle" /\ "unmark" \in duties[w] /\ UNCHANGED <<pc, job>>
         /\ marks' = [f \in Entries |-> IF f = e \/ marks[f] = e THEN "none" ELSE marks[f]]
<1>1. /\ pc[w] = "idle" /\ "unmark" \in duties[w] /\ UNCHANGED <<pc, job, statement>>
      /\ marks' = [f \in Entries |-> IF f = e \/ marks[f] = e THEN "none" ELSE marks[f]]
  BY DEF handleUnmarkReconciled, Unmark, Takes
<1>2. marks' \in [Entries -> Links]
  BY <1>1, LinkTypes DEF TypeOK
<1>3. TypeOK'
  BY <1>1, <1>2, BankTypes DEF TypeOK
<1> QED
  BY <1>1, <1>3, IdleSound

BudgetSteps == {"idle", "delete lines", "delete", "upsert", "delete line", "approve"}
BudgetFrame == UNCHANGED <<duties, assetTables, ledgerTables, bankTables, taxTables, registers>>

LEMMA BudgetTypes ==
  ASSUME TypeOK, NEW w \in Clerks, Moved(w) \/ UNCHANGED <<pc, job>>, BudgetFrame,
         budgets' \in [Budgets -> BudgetStatuses \cup {"none"}], lines' \subseteq Budgets \X Accounts
  PROVE  TypeOK'
BY DEF TypeOK, Moved, AllJobs, BudgetFrame, assetTables, ledgerTables, bankTables, taxTables, registers

LEMMA BudgetMoves ==
  ASSUME TypeOK, LocalsOK, NEW w \in Clerks, BudgetStep(w), UNCHANGED <<duties, taxTables, registers>>
  PROVE  Sound(w) /\ BudgetFrame /\ pc[w] \in BudgetSteps /\ pc'[w] \in BudgetSteps
<1>0. budgets \in [Budgets -> BudgetStatuses \cup {"none"}] /\ lines \subseteq Budgets \X Accounts
  BY DEF TypeOK
<1>1. ASSUME NEW b \in Budgets, handleCreateBudget(w, b)
      PROVE  Sound(w) /\ BudgetFrame /\ pc[w] \in BudgetSteps /\ pc'[w] \in BudgetSteps
  <2>1. /\ pc[w] = "idle" /\ UNCHANGED <<pc, job, lines>> /\ BudgetFrame
        /\ budgets' = [budgets EXCEPT ![b] = "DRAFT"]
    BY <1>1 DEF handleCreateBudget, CreateBudget, Takes, BudgetFrame
  <2>2. TypeOK'
    BY <1>0, <2>1, BudgetTypes DEF BudgetStatuses
  <2> QED
    BY <2>1, <2>2, IdleSound DEF BudgetSteps
<1>2. ASSUME NEW b \in Budgets, NEW c \in Accounts \cup {NoAccount},
             \/ handleDeleteBudget(w, b) \/ handleApproveBudget(w, b)
             \/ c \in Accounts /\ (handleSetBudgetLine(w, b, c) \/ handleDeleteBudgetLine(w, b, c))
      PROVE  Sound(w) /\ BudgetFrame /\ pc[w] \in BudgetSteps /\ pc'[w] \in BudgetSteps
  <2>1. PICK step \in {"delete lines", "approve", "upsert", "delete line"},
             j \in {[Idle EXCEPT !.budget = b], [Idle EXCEPT !.budget = b, !.account = c]} :
          /\ pc[w] = "idle" /\ Begin(w, step, j)
          /\ step = "upsert" => c \in Accounts /\ j = [Idle EXCEPT !.budget = b, !.account = c]
    BY <1>2 DEF handleDeleteBudget, DeleteBudget, handleApproveBudget, ApproveBudget,
       handleSetBudgetLine, SetLine, handleDeleteBudgetLine, DeleteLine, Takes
  <2>2. j \in Jobs /\ j.budget \in Budgets /\ (step = "upsert" => j.account \in Accounts)
    BY <2>1, IdleType DEF Jobs, Idle
  <2>3. Moved(w) /\ pc'[w] = step /\ job'[w] = j /\ UNCHANGED database
    <3>1. step \in Steps
      BY DEF Steps
    <3> QED
      BY <2>1, <2>2, <3>1, BeginMoves DEF AllJobs
  <2>4. TypeOK' /\ BudgetFrame
    <3>1. BudgetFrame /\ UNCHANGED <<budgets, lines>>
      BY <2>3 DEF BudgetFrame, database, budgetTables
    <3> QED
      BY <1>0, <2>3, <3>1, BudgetTypes
  <2>5. LocalOK(w)'
    BY <2>2, <2>3 DEF LocalOK, TaxSteps, RateSteps, Depreciates, Quotas, Disposes, OnItsWay,
       PeriodSteps, RunSteps, DisposalSteps
  <2> QED
    BY <2>1, <2>3, <2>4, <2>5 DEF Sound, BudgetSteps
<1>3. ASSUME pc[w] \in BudgetSteps, End(w), BudgetFrame,
             budgets' \in [Budgets -> BudgetStatuses \cup {"none"}], lines' \subseteq Budgets \X Accounts
      PROVE  Sound(w) /\ BudgetFrame /\ pc[w] \in BudgetSteps /\ pc'[w] \in BudgetSteps
  BY <1>3, EndMoves, BudgetTypes, EndSound DEF BudgetSteps
<1>4. CASE DeleteBudgetLines(w)
  <2>1. /\ pc[w] = "delete lines" /\ BudgetFrame /\ Applied(w, "delete", job[w])
        /\ UNCHANGED budgets /\ lines' \subseteq lines
    BY <1>4 DEF DeleteBudgetLines, BudgetFrame
  <2>2. Moved(w) /\ GoesOn(w, "delete", job[w])
    BY <2>1, AppliedGoes DEF Steps
  <2>3. TypeOK'
    BY <1>0, <2>1, <2>2, BudgetTypes
  <2>4. job[w] \in Jobs
    BY <2>1, LocalFacts DEF TaxSteps, RateSteps
  <2>5. CASE pc'[w] = "delete" /\ job'[w] = job[w]
    BY <2>1, <2>2, <2>3, <2>4, <2>5, PlainSound DEF PlainSteps, BudgetSteps
  <2>6. CASE pc'[w] = "idle" /\ job'[w] = Idle
    <3>1. LocalOK(w)'
      BY <2>6, IdleType DEF LocalOK, TaxSteps, RateSteps, Depreciates, Quotas, Disposes, OnItsWay,
         PeriodSteps, RunSteps, DisposalSteps
    <3> QED
      BY <2>1, <2>2, <2>3, <2>6, <3>1 DEF Sound, BudgetSteps
  <2> QED
    BY <2>2, <2>5, <2>6 DEF GoesOn
<1>5. CASE DeleteBudgetRow(w) \/ DeleteLineRow(w) \/ UpdateStatus(w)
  <2>1. /\ pc[w] \in BudgetSteps /\ BudgetFrame /\ End(w) /\ lines' \subseteq lines
        /\ \/ budgets' = budgets
           \/ \E s \in {"none", "APPROVED"} : budgets' = [budgets EXCEPT ![job[w].budget] = s]
    BY <1>5 DEF DeleteBudgetRow, DeleteLineRow, UpdateStatus, BudgetFrame, BudgetSteps
  <2>2. budgets' \in [Budgets -> BudgetStatuses \cup {"none"}]
    BY <1>0, <2>1 DEF BudgetStatuses
  <2> QED
    BY <1>0, <1>3, <2>1, <2>2
<1>6. CASE UpsertLine(w)
  <2>1. /\ pc[w] = "upsert" /\ BudgetFrame /\ End(w) /\ UNCHANGED budgets
        /\ lines' \subseteq lines \cup {<<job[w].budget, job[w].account>>}
    BY <1>6 DEF UpsertLine, BudgetFrame
  <2>2. job[w].budget \in Budgets /\ job[w].account \in Accounts
    BY <2>1 DEF LocalsOK, LocalOK
  <2>3. lines' \subseteq Budgets \X Accounts
    BY <1>0, <2>1, <2>2
  <2> QED
    BY <1>0, <1>3, <2>1, <2>3 DEF BudgetSteps
<1> QED
  BY <1>1, <1>2, <1>4, <1>5, <1>6 DEF BudgetStep

LEMMA RegistersMoves ==
  ASSUME TypeOK, LocalsOK, NEW w \in Clerks, RegisterStep(w), UNCHANGED <<duties, database, taxTables>>
  PROVE  Sound(w) /\ pc[w] \in {"idle", "deactivate"} /\ pc'[w] \in {"idle", "deactivate"}
<1>1. ASSUME Moved(w) \/ UNCHANGED <<pc, job>>,
             voucherTypes' \in [VoucherTypes -> {"none", "active", "inactive"}],
             banks' \in [Banks -> {"none", "active", "inactive"}]
      PROVE  TypeOK'
  BY <1>1 DEF TypeOK, Moved, AllJobs, database, assetTables, ledgerTables, bankTables, budgetTables, taxTables
<1>2. ASSUME NEW t \in VoucherTypes, handleCreateVoucherType(w, t)
      PROVE  Sound(w) /\ pc[w] \in {"idle", "deactivate"} /\ pc'[w] \in {"idle", "deactivate"}
  <2>1. /\ pc[w] = "idle" /\ UNCHANGED <<pc, job, banks>>
        /\ voucherTypes' = [voucherTypes EXCEPT ![t] = "active"]
    BY <1>2 DEF handleCreateVoucherType, RegisterVoucherType, Takes
  <2>2. TypeOK'
    BY <1>1, <2>1 DEF TypeOK
  <2> QED
    BY <2>1, <2>2, IdleSound
<1>3. ASSUME NEW t \in VoucherTypes, handleDeactivateVoucherType(w, t)
      PROVE  Sound(w) /\ pc[w] \in {"idle", "deactivate"} /\ pc'[w] \in {"idle", "deactivate"}
  <2> DEFINE j == [Idle EXCEPT !.type = t]
  <2>1. j \in Jobs
    BY IdleType DEF Jobs, Idle
  <2>2. pc[w] = "idle" /\ Goes(w, "deactivate", j) /\ UNCHANGED registers
    BY <1>3 DEF handleDeactivateVoucherType, Takes
  <2> HIDE DEF j
  <2>3. Moved(w) /\ pc'[w] = "deactivate" /\ job'[w] = j
    BY <2>1, <2>2, GoesMoves DEF Steps, AllJobs
  <2>4. TypeOK'
    BY <1>1, <2>2, <2>3 DEF TypeOK, registers
  <2> QED
    BY <2>1, <2>2, <2>3, <2>4, PlainSound DEF PlainSteps
<1>4. CASE DeactivateVoucherType(w)
  <2>1. /\ pc[w] = "deactivate" /\ End(w) /\ UNCHANGED banks
        /\ voucherTypes' = [voucherTypes EXCEPT ![job[w].type] = "inactive"]
    BY <1>4 DEF DeactivateVoucherType, RegisterVoucherType
  <2>2. TypeOK'
    BY <1>1, <2>1, EndMoves DEF TypeOK
  <2> QED
    BY <2>1, <2>2, EndSound
<1>5. ASSUME NEW b \in Banks, handleCreateBankAccount(w, b) \/ handleDeactivateBankAccount(w, b)
      PROVE  Sound(w) /\ pc[w] \in {"idle", "deactivate"} /\ pc'[w] \in {"idle", "deactivate"}
  <2>1. /\ pc[w] = "idle" /\ UNCHANGED <<pc, job, voucherTypes>>
        /\ \E s \in {"active", "inactive"} : banks' = [banks EXCEPT ![b] = s]
    BY <1>5 DEF handleCreateBankAccount, CreateAccount, handleDeactivateBankAccount, DeactivateAccount, Takes
  <2>2. TypeOK'
    BY <1>1, <2>1 DEF TypeOK
  <2> QED
    BY <2>1, <2>2, IdleSound
<1> QED
  BY <1>2, <1>3, <1>4, <1>5 DEF RegisterStep

LEMMA FailureMoves ==
  ASSUME TypeOK, LocalsOK, NEW w \in Clerks, Failure(w), UNCHANGED duties
  PROVE  Sound(w) /\ UNCHANGED <<database, taxTables, registers>> /\ pc'[w] = "idle" /\ Faults[w] # {}
<1>1. End(w) /\ UNCHANGED <<database, taxTables, registers>> /\ Faults[w] # {}
  BY DEF Failure, StatementFails, Crash
<1>2. TypeOK'
  BY <1>1, EndMoves DEF TypeOK, Moved, AllJobs, database, assetTables, ledgerTables, bankTables,
     budgetTables, taxTables, registers
<1> QED
  BY <1>1, <1>2, EndSound

-----------------------------------------------------------------------------
(* Sums over finite sets: what the fold of the community modules comes to. *)

\* f adds up g over each subset of S.
Adds(f, g, S) ==
  f = [s \in SUBSET S |-> IF s = {} THEN 0
                          ELSE g[CHOOSE x \in s : TRUE] + f[s \ {CHOOSE x \in s : TRUE}]]

\* Of a non-empty collection of finite sets one is minimal: the induction over finite
\* sets that follows rests on it.
LEMMA MinimalSubset ==
  ASSUME NEW S, IsFiniteSet(S), NEW C, C \subseteq SUBSET S, C # {}
  PROVE  \E T \in C : \A U \in C : U \subseteq T => U = T
<1>1. C \subseteq FiniteSubsetsOf(S)
  BY FS_FiniteSubsetsOfFinite
<1>2. PICK T \in C : \A U \in C : ~ (<<U, T>> \in StrictSubsetOrdering(S))
  BY <1>1, FS_StrictSubsetOrderingWellFounded, WFMin
<1>3. ASSUME NEW U \in C, U \subseteq T, U # T
      PROVE  <<U, T>> \in StrictSubsetOrdering(S)
  <2> U \in SUBSET S /\ T \in SUBSET S
    OBVIOUS
  <2>1. <<U, T>> \in (SUBSET S) \X (SUBSET S)
    OBVIOUS
  <2>2. <<U, T>>[1] = U /\ <<U, T>>[2] = T
    OBVIOUS
  <2> QED BY <2>1, <2>2, <1>3 DEF StrictSubsetOrdering
<1>4. \A U \in C : U \subseteq T => U = T
  BY <1>2, <1>3
<1> QED BY <1>4

\* There is one such function on the subsets that two of them share.
LEMMA AddsUnique ==
  ASSUME NEW S, IsFiniteSet(S), NEW T, T \subseteq S, NEW g, NEW f, NEW h,
         Adds(f, g, S), Adds(h, g, T)
  PROVE  f[T] = h[T]
<1> DEFINE C == {s \in SUBSET T : f[s] # h[s]}
<1>1. SUFFICES ASSUME C # {} PROVE FALSE
  OBVIOUS
<1>2. IsFiniteSet(T)
  BY FS_Subset
<1>3. PICK s \in C : \A u \in C : u \subseteq s => u = s
  <2> C \subseteq SUBSET T
    OBVIOUS
  <2> HIDE DEF C
  <2> QED BY <1>1, <1>2, MinimalSubset
<1> DEFINE x == CHOOSE x \in s : TRUE
<1>4. s \in SUBSET T /\ s \in SUBSET S /\ f[s] # h[s]
  BY <1>3
<1>5. s # {} 
  BY <1>4 DEF Adds
<1>6. x \in s
  BY <1>5
<1>7. s \ {x} \in SUBSET T /\ s \ {x} \in SUBSET S /\ s \ {x} # s
  BY <1>4, <1>6
<1>8. f[s \ {x}] = h[s \ {x}]
  BY <1>3, <1>7
<1>9. f[s] = g[x] + f[s \ {x}] /\ h[s] = g[x] + h[s \ {x}]
  BY <1>4, <1>5 DEF Adds
<1> QED BY <1>4, <1>8, <1>9

\* It restricts to subsets,
LEMMA AddsRestricted ==
  ASSUME NEW S, NEW T, T \subseteq S, NEW g, NEW f, Adds(f, g, S),
         NEW h, h = [s \in SUBSET T |-> f[s]]
  PROVE  Adds(h, g, T)
<1>1. ASSUME NEW s \in SUBSET T
      PROVE  h[s] = IF s = {} THEN 0
                    ELSE g[CHOOSE x \in s : TRUE] + h[s \ {CHOOSE x \in s : TRUE}]
  <2>1. s \in SUBSET S /\ \A y : s \ {y} \in SUBSET T
    OBVIOUS
  <2>2. f[s] = IF s = {} THEN 0
               ELSE g[CHOOSE x \in s : TRUE] + f[s \ {CHOOSE x \in s : TRUE}]
    BY <2>1 DEF Adds
  <2> QED
    BY <2>1, <2>2
<1>2. h = [s \in SUBSET T |-> h[s]]
  OBVIOUS
<1> QED
  BY <1>1, <1>2 DEF Adds

\* there is one for every finite set,
LEMMA AddsExists ==
  ASSUME NEW S, IsFiniteSet(S), NEW g
  PROVE  \E f : Adds(f, g, S)
<1> DEFINE C == {T \in SUBSET S : ~ \E f : Adds(f, g, T)}
<1>1. SUFFICES ASSUME C # {} PROVE FALSE
  <2> S \in SUBSET S
    OBVIOUS
  <2> QED OBVIOUS
<1>3. PICK T \in C : \A u \in C : u \subseteq T => u = T
  <2> C \subseteq SUBSET S
    OBVIOUS
  <2> HIDE DEF C
  <2> QED BY <1>1, MinimalSubset
<1>4. T \in SUBSET S /\ ~ \E f : Adds(f, g, T)
  BY <1>3
<1>5. \A U \in SUBSET T : U # T => \E f : Adds(f, g, U)
  BY <1>3, <1>4
<1> DEFINE F(U) == CHOOSE f : Adds(f, g, U)
           pick(s) == CHOOSE x \in s : TRUE
           val(s) == IF s = {} THEN 0 ELSE g[pick(s)] + F(s \ {pick(s)})[s \ {pick(s)}]
           v == [s \in SUBSET T |-> val(s)]
<1>6. \A U \in SUBSET T : U # T => Adds(F(U), g, U)
  BY <1>5
<1>7. \A s : s # {} => pick(s) \in s
  OBVIOUS
<1>8. ASSUME NEW s \in SUBSET T, s # T
      PROVE  v[s] = F(s)[s]
  <2>1. CASE s = {}
    <3>1. Adds(F(s), g, s) /\ s \in SUBSET s
      BY <1>6, <1>8
    <3>2. F(s)[s] = 0
      BY <3>1, <2>1 DEF Adds
    <3> QED BY <3>2, <2>1
  <2>2. CASE s # {}
    <3> DEFINE u == s \ {pick(s)}
    <3>1. u \in SUBSET T /\ u # T /\ u \subseteq s /\ s \in SUBSET s /\ u \in SUBSET s
      BY <1>7, <1>8, <2>2
    <3>2. Adds(F(s), g, s) /\ Adds(F(u), g, u)
      BY <3>1, <1>6, <1>8
    <3>3. IsFiniteSet(s)
      BY <1>4, FS_Subset
    <3>4. F(s)[u] = F(u)[u]
      <4> HIDE DEF F, u
      <4> QED BY <3>1, <3>2, <3>3, AddsUnique
    <3>5. F(s)[s] = g[pick(s)] + F(s)[u]
      BY <3>1, <3>2, <2>2 DEF Adds
    <3>6. v[s] = g[pick(s)] + F(u)[u]
      BY <2>2
    <3> QED BY <3>4, <3>5, <3>6
  <2> QED BY <2>1, <2>2
<1>9. ASSUME NEW s \in SUBSET T
      PROVE  v[s] = IF s = {} THEN 0 ELSE g[pick(s)] + v[s \ {pick(s)}]
  <2>1. CASE s = {}
    BY <2>1
  <2>2. CASE s # {}
    <3> DEFINE u == s \ {pick(s)}
    <3>1. u \in SUBSET T /\ u # T
      BY <1>7, <2>2
    <3>2. v[u] = F(u)[u]
      <4> HIDE DEF v, F, u
      <4> QED BY <3>1, <1>8
    <3>3. v[s] = g[pick(s)] + F(u)[u]
      BY <2>2
    <3> HIDE DEF v, F
    <3> QED BY <3>2, <3>3, <2>2
  <2> QED BY <2>1, <2>2
<1>10. v = [s \in SUBSET T |-> v[s]]
  OBVIOUS
<1>11. Adds(v, g, T)
  <2> HIDE DEF v
  <2> QED BY <1>9, <1>10 DEF Adds
<1> QED BY <1>4, <1>11

\* and it adds up natural numbers to one of them, integers to an integer.
LEMMA AddsType ==
  ASSUME NEW S, IsFiniteSet(S), NEW g, NEW R \in {Nat, Int}, \A x \in S : g[x] \in R, NEW f, Adds(f, g, S)
  PROVE  \A s \in SUBSET S : f[s] \in R
<1> DEFINE C == {s \in SUBSET S : f[s] \notin R}
<1>1. SUFFICES ASSUME C # {} PROVE FALSE
  OBVIOUS
<1>3. PICK s \in C : \A u \in C : u \subseteq s => u = s
  <2> C \subseteq SUBSET S
    OBVIOUS
  <2> HIDE DEF C
  <2> QED BY <1>1, MinimalSubset
<1> DEFINE x == CHOOSE x \in s : TRUE
<1>4. s \in SUBSET S /\ f[s] \notin R
  BY <1>3
<1>5. s # {}
  BY <1>4 DEF Adds
<1>6. x \in s
  BY <1>5
<1>7. s \ {x} \in SUBSET S /\ s \ {x} # s
  BY <1>4, <1>6
<1>8. f[s \ {x}] \in R
  BY <1>3, <1>7
<1>9. f[s] = g[x] + f[s \ {x}]
  BY <1>4, <1>5 DEF Adds
<1>10. g[x] \in R
  BY <1>4, <1>6
<1> HIDE DEF x
<1> QED BY <1>4, <1>8, <1>9, <1>10

\* In whatever order.
LEMMA AddsElement ==
  ASSUME NEW S, IsFiniteSet(S), NEW g, \A x \in S : g[x] \in Int, NEW f, Adds(f, g, S)
  PROVE  \A s \in SUBSET S : \A x \in s : f[s] = g[x] + f[s \ {x}]
<1> DEFINE C == {s \in SUBSET S : \E x \in s : f[s] # g[x] + f[s \ {x}]}
<1>1. SUFFICES ASSUME C # {} PROVE FALSE
  OBVIOUS
<1>3. PICK s \in C : \A u \in C : u \subseteq s => u = s
  <2> C \subseteq SUBSET S
    OBVIOUS
  <2> HIDE DEF C
  <2> QED BY <1>1, MinimalSubset
<1>4. s \in SUBSET S
  BY <1>3
<1>5. PICK x \in s : f[s] # g[x] + f[s \ {x}]
  BY <1>3
<1> DEFINE y == CHOOSE z \in s : TRUE
<1>6. y \in s
  BY <1>5
<1>7. f[s] = g[y] + f[s \ {y}]
  BY <1>4, <1>5 DEF Adds
<1> HIDE DEF y
<1>8. x # y
  BY <1>5, <1>7
<1>9. \A u \in SUBSET S : u \subseteq s /\ u # s => \A z \in u : f[u] = g[z] + f[u \ {z}]
  BY <1>3
<1>10. f[s \ {y}] = g[x] + f[(s \ {y}) \ {x}]
  <2>1. s \ {y} \in SUBSET S /\ s \ {y} \subseteq s /\ s \ {y} # s /\ x \in s \ {y}
    BY <1>4, <1>6, <1>8
  <2> QED BY <2>1, <1>9
<1>11. f[s \ {x}] = g[y] + f[(s \ {x}) \ {y}]
  <2>1. s \ {x} \in SUBSET S /\ s \ {x} \subseteq s /\ s \ {x} # s /\ y \in s \ {x}
    BY <1>4, <1>6, <1>8
  <2> QED BY <2>1, <1>9
<1>12. (s \ {x}) \ {y} = (s \ {y}) \ {x}
  OBVIOUS
<1>13. f[(s \ {y}) \ {x}] \in Int /\ g[x] \in Int /\ g[y] \in Int
  <2>1. (s \ {y}) \ {x} \in SUBSET S
    BY <1>4
  <2>2. \A u \in SUBSET S : f[u] \in Int
    BY AddsType
  <2> QED BY <2>1, <2>2, <1>4, <1>6
<1> DEFINE r == f[(s \ {y}) \ {x}]
<1>14. f[s] = g[y] + (g[x] + r) /\ f[s \ {x}] = g[y] + r
  BY <1>7, <1>10, <1>11, <1>12
<1>15. r \in Int
  BY <1>13
<1> HIDE DEF r
<1>16. f[s] = g[x] + f[s \ {x}]
  BY <1>13, <1>14, <1>15
<1> QED BY <1>5, <1>16

\* The fold of the community modules is such a sum.
LEMMA TotalAdds ==
  ASSUME NEW S, IsFiniteSet(S), NEW c, NEW g, \A d \in S : g[d] = d[c], NEW f, Adds(f, g, S)
  PROVE  Total(c, S) = f[S]
<1> DEFINE Eq(h) == h = [s \in SUBSET S |-> IF s = {} THEN 0
                          ELSE (CHOOSE x \in s : TRUE)[c] + h[s \ {CHOOSE x \in s : TRUE}]]
<1>1. Total(c, S) = (CHOOSE h : Eq(h))[S]
  BY DEF Total, MapThenSumSet, MapThenFoldSet
<1>2. ASSUME NEW h PROVE Eq(h) <=> Adds(h, g, S)
  <2>1. \A s \in SUBSET S : s # {} => g[CHOOSE x \in s : TRUE] = (CHOOSE x \in s : TRUE)[c]
    OBVIOUS
  <2>2. [s \in SUBSET S |-> IF s = {} THEN 0
            ELSE (CHOOSE x \in s : TRUE)[c] + h[s \ {CHOOSE x \in s : TRUE}]] =
        [s \in SUBSET S |-> IF s = {} THEN 0
            ELSE g[CHOOSE x \in s : TRUE] + h[s \ {CHOOSE x \in s : TRUE}]]
    BY <2>1
  <2> QED BY <2>2 DEF Adds
<1>3. Eq(f)
  BY <1>2
<1>4. Eq(CHOOSE h : Eq(h))
  <2> HIDE DEF Eq
  <2> QED BY <1>3
<1>5. Adds(CHOOSE h : Eq(h), g, S)
  <2> HIDE DEF Eq
  <2> QED BY <1>2, <1>4
<1>6. (CHOOSE h : Eq(h))[S] = f[S]
  <2> HIDE DEF Eq
  <2> QED BY <1>5, AddsUnique
<1> QED BY <1>1, <1>6

\* What Total comes to: nothing of nothing, and one more row adds what it has.
LEMMA TotalOf ==
  ASSUME NEW S, IsFiniteSet(S), S \subseteq DeclarationRows, NEW c \in {"net", "pay", "carry"}
  PROVE  /\ Total(c, S) \in Int /\ (c # "net" => Total(c, S) \in Nat)
         /\ S = {} => Total(c, S) = 0
         /\ \A x \in S : Total(c, S) = x[c] + Total(c, S \ {x})
<1> DEFINE g == [d \in S |-> d[c]]
<1>1. \A d \in S : g[d] = d[c] /\ d[c] \in Int /\ (c # "net" => d[c] \in Nat)
  <2>1. CASE c = "net"
    BY <2>1 DEF DeclarationRows
  <2>2. CASE c = "pay"
    BY <2>2 DEF DeclarationRows
  <2>3. CASE c = "carry"
    BY <2>3 DEF DeclarationRows
  <2> QED
    BY <2>1, <2>2, <2>3
<1> HIDE DEF g
<1>2. PICK f : Adds(f, g, S)
  BY AddsExists
<1>3. Total(c, S) = f[S]
  BY <1>1, <1>2, TotalAdds
<1>4. Total(c, S) \in Int
  <2>1. \A s \in SUBSET S : f[s] \in Int
    BY <1>1, <1>2, AddsType
  <2> QED
    BY <1>3, <2>1
<1>5. ASSUME c # "net"
      PROVE  Total(c, S) \in Nat
  <2>1. \A x \in S : g[x] \in Nat
    BY <1>1, <1>5
  <2>2. \A s \in SUBSET S : f[s] \in Nat
    BY <1>2, <2>1, AddsType
  <2> QED
    BY <1>3, <2>2
<1>6. ASSUME S = {}
      PROVE  Total(c, S) = 0
  BY <1>2, <1>3, <1>6 DEF Adds
<1>7. \A y \in S : g[y] \in Int
  BY <1>1
<1>8. ASSUME NEW x \in S
      PROVE  Total(c, S) = x[c] + Total(c, S \ {x})
  <2> DEFINE T == S \ {x}
             h == [s \in SUBSET T |-> f[s]]
  <2>1. T \subseteq S /\ IsFiniteSet(T)
    BY FS_Subset
  <2>2. h = [s \in SUBSET T |-> f[s]] /\ h[T] = f[T]
    OBVIOUS
  <2>3. Adds(h, g, T)
    <3> HIDE DEF T, h
    <3> QED
      BY <1>2, <2>1, <2>2, AddsRestricted
  <2>4. Total(c, T) = h[T]
    <3> HIDE DEF T, h
    <3>1. \A d \in T : g[d] = d[c]
      BY <1>1, <2>1
    <3> QED
      BY <2>1, <2>3, <3>1, TotalAdds
  <2>5. f[S] = g[x] + f[S \ {x}]
    <3> HIDE DEF T, h
    <3> QED
      BY <1>2, <1>7, AddsElement
  <2> QED
    BY <1>1, <1>3, <2>2, <2>4, <2>5
<1> QED
  BY <1>4, <1>5, <1>6, <1>8

\* Of a set of one, what it has.
LEMMA TotalOfOne ==
  ASSUME NEW d \in DeclarationRows, NEW c \in {"net", "pay", "carry"}
  PROVE  Total(c, {d}) = d[c]
<1>1. IsFiniteSet({d}) /\ {d} \subseteq DeclarationRows /\ IsFiniteSet({})
  BY FS_Singleton, FS_EmptySet
<1>2. Total(c, {d}) = d[c] + Total(c, {d} \ {d})
  BY <1>1, TotalOf
<1>3. {d} \ {d} = {} /\ Total(c, {}) = 0
  BY <1>1, TotalOf
<1>4. d[c] \in Int
  <2>1. CASE c = "net"
    BY <2>1 DEF DeclarationRows
  <2>2. CASE c = "pay"
    BY <2>2 DEF DeclarationRows
  <2>3. CASE c = "carry"
    BY <2>3 DEF DeclarationRows
  <2> QED
    BY <2>1, <2>2, <2>3
<1> QED
  BY <1>2, <1>3, <1>4

-----------------------------------------------------------------------------
(* Tax declarations.                                                       *)

TaxFrame == UNCHANGED <<duties, database, registers>>

LEMMA TaxTypes ==
  ASSUME TypeOK, NEW w \in Clerks, Moved(w) \/ UNCHANGED <<pc, job>>, TaxFrame,
         declarations' \subseteq DeclarationRows, IsFiniteSet(declarations'), tariff' \subseteq Tariffs,
         rates' \in [Days \X Pairs -> Sources \cup {"none"}], today' \in Days
  PROVE  TypeOK'
BY DEF TypeOK, Moved, AllJobs, TaxFrame, database, assetTables, ledgerTables, bankTables, budgetTables,
   registers

\* A share in basis points of an amount is one.
LEMMA BpType ==
  ASSUME NEW amount \in Nat, NEW rate \in Nat
  PROVE  bp(amount, rate) \in Nat
<1>1. ASSUME NEW n \in Nat PROVE n \div 10000 \in Nat
  OBVIOUS
<1>2. amount * rate \in Nat
  OBVIOUS
<1> QED
  BY <1>1, <1>2 DEF bp

\* A period comes after those that are declared, unless somebody declares late.
After(w, tax, p) ==
  "declare late" \in duties[w] \/ \A d \in declarations : d.tax = tax => d.period < p

LEMMA GenerateMoves ==
  ASSUME TypeOK, LocalsOK, NEW w \in Clerks, TaxFrame, NEW tax \in Taxes, NEW p \in Bimesters,
         NEW net \in Int, NEW step \in TaxSteps, InOrder(w, tax, p), GenerateTax(w, step, tax, p, net)
  PROVE  /\ Sound(w) /\ pc[w] = "idle" /\ pc'[w] = step /\ UNCHANGED taxTables
         /\ job'[w].tax = tax /\ job'[w].period = p
         /\ tax \in duties[w] /\ After(w, tax, p)
<1> DEFINE j == [tax |-> tax, period |-> p, net |-> net, previous |-> 0]
<1>1. /\ pc[w] = "idle" /\ Begin(w, step, j) /\ UNCHANGED taxTables
      /\ tax \in duties[w] /\ After(w, tax, p)
  BY DEF GenerateTax, InOrder, Takes, After, Declared
<1>2. j \in TaxJobs /\ j.tax = tax /\ j.period = p
  BY BackOfficeAssumption DEF TaxJobs
<1> HIDE DEF j
<1>3. Moved(w) /\ pc'[w] = step /\ job'[w] = j
  <2>1. step \in Steps
    BY DEF TaxSteps, Steps
  <2> QED
    BY <1>1, <1>2, <2>1, BeginMoves DEF AllJobs
<1>4. TypeOK'
  BY <1>1, <1>3, TaxTypes DEF TypeOK, taxTables
<1>5. LocalOK(w)'
  <2>1. tax \in duties'[w]
    BY <1>1 DEF TaxFrame
  <2> QED
    BY <1>2, <1>3, <2>1 DEF LocalOK, TaxSteps, RateSteps, Depreciates, Quotas, Disposes, OnItsWay,
       PeriodSteps, RunSteps, DisposalSteps
<1> QED
  BY <1>1, <1>2, <1>3, <1>4, <1>5 DEF Sound

LEMMA BeginTaxMoves ==
  ASSUME TypeOK, LocalsOK, NEW w \in Clerks, TaxFrame, NEW p \in Bimesters, NEW m \in Movements,
         \/ handleGenerateIVA(w, p, m) \/ handleGenerateICA(w, p, m)
         \/ \E t \in Tariffs : handleGenerateIncomeTax(w, p, m, t.rate)
  PROVE  /\ Sound(w) /\ pc[w] = "idle" /\ pc'[w] \in TaxSteps /\ UNCHANGED taxTables
         /\ job'[w].period = p /\ job'[w].tax \in duties[w] /\ After(w, job'[w].tax, p)
         /\ pc'[w] = "declare" => job'[w].tax = "income"
<1>1. m.credit \in Nat /\ m.debit \in Nat /\ m.credit - m.debit \in Int
      /\ (m.credit > m.debit => m.credit - m.debit \in Nat)
  BY BackOfficeAssumption
<1>2. \A t \in Tariffs : t.rate \in Nat /\ t.surcharge \in Nat
  BY BackOfficeAssumption
<1>3. CASE handleGenerateIVA(w, p, m)
  <2>1. InOrder(w, "iva", p) /\ GenerateTax(w, "carry", "iva", p, m.credit - m.debit)
    BY <1>3 DEF handleGenerateIVA, GenerateIVA
  <2>2. "carry" \in TaxSteps /\ "iva" \in Taxes
    BY DEF TaxSteps, Taxes
  <2> QED
    BY <1>1, <2>1, <2>2, GenerateMoves
<1>4. CASE handleGenerateICA(w, p, m)
  <2>1. InOrder(w, "ica", p) /\ GenerateICA(w, p, m)
    BY <1>4 DEF handleGenerateICA
  <2>2. PICK t \in tariff, base \in {0, m.credit - m.debit} :
          /\ base = IF m.credit > m.debit THEN m.credit - m.debit ELSE 0
          /\ GenerateTax(w, "carry", "ica", p, bp(base, t.rate) + bp(bp(base, t.rate), t.surcharge))
    BY <2>1 DEF GenerateICA
  <2>3. base \in Nat /\ t.rate \in Nat /\ t.surcharge \in Nat
    BY <1>1, <1>2, <2>2 DEF TypeOK
  <2>4. bp(base, t.rate) + bp(bp(base, t.rate), t.surcharge) \in Int
    <3>1. bp(base, t.rate) \in Nat
      BY <2>3, BpType
    <3>2. bp(bp(base, t.rate), t.surcharge) \in Nat
      BY <2>3, <3>1, BpType
    <3> QED
      BY <3>1, <3>2
  <2>5. "carry" \in TaxSteps /\ "ica" \in Taxes
    BY DEF TaxSteps, Taxes
  <2> QED
    BY <2>1, <2>2, <2>4, <2>5, GenerateMoves
<1>5. CASE \E t \in Tariffs : handleGenerateIncomeTax(w, p, m, t.rate)
  <2>1. PICK t \in Tariffs : InOrder(w, "income", p) /\ GenerateIncomeTax(w, p, m, t.rate)
    BY <1>5 DEF handleGenerateIncomeTax
  <2> DEFINE net == IF m.credit > m.debit THEN bp(m.credit - m.debit, t.rate) ELSE 0
  <2>2. net \in Int
    <3>1. CASE m.credit > m.debit
      <4>1. m.credit - m.debit \in Nat /\ t.rate \in Nat
        BY <1>1, <1>2, <3>1
      <4>2. bp(m.credit - m.debit, t.rate) \in Nat
        BY <4>1, BpType
      <4> QED
        BY <3>1, <4>2
    <3>2. CASE ~ (m.credit > m.debit)
      BY <3>2
    <3> QED
      BY <3>1, <3>2
  <2>3. GenerateTax(w, "declare", "income", p, net)
    BY <2>1 DEF GenerateIncomeTax
  <2>4. "declare" \in TaxSteps /\ "income" \in Taxes
    BY DEF TaxSteps, Taxes
  <2> HIDE DEF net
  <2> QED
    BY <2>1, <2>2, <2>3, <2>4, GenerateMoves
<1> QED
  BY <1>3, <1>4, <1>5

\* What a request of taxes holds.
LEMMA TaxFacts ==
  ASSUME TypeOK, LocalsOK, NEW w \in Clerks, pc[w] \in TaxSteps
  PROVE  job[w] \in TaxJobs /\ job[w].tax \in duties[w] /\ job[w].tax \in Taxes /\ job[w].period \in Nat
         /\ job[w].net \in Int /\ job[w].previous \in Nat
BY DEF LocalsOK, LocalOK, TaxJobs

LEMMA CarryMoves ==
  ASSUME TypeOK, LocalsOK, NEW w \in Clerks, TaxFrame, GetLastCarryForward(w)
  PROVE  /\ Sound(w) /\ pc[w] = "carry" /\ pc'[w] = "declare" /\ UNCHANGED taxTables
         /\ job'[w].tax = job[w].tax /\ job'[w].period = job[w].period
         /\ job'[w].previous = Total("carry", LastCarryForward(job[w].tax, job[w].period))
<1> DEFINE last == LastCarryForward(job[w].tax, job[w].period)
           j == [job[w] EXCEPT !.previous = Total("carry", last)]
<1>1. pc[w] = "carry" /\ Goes(w, "declare", j) /\ UNCHANGED taxTables
  BY DEF GetLastCarryForward
<1>2. Total("carry", last) \in Nat
  <2>1. last \subseteq declarations
    BY DEF LastCarryForward
  <2>2. last \subseteq DeclarationRows /\ IsFiniteSet(last)
    BY <2>1, FS_Subset DEF TypeOK
  <2> HIDE DEF last
  <2> QED
    BY <2>2, TotalOf
<1>3. job[w] \in TaxJobs /\ job[w].tax \in duties[w]
  BY <1>1, TaxFacts DEF TaxSteps
<1>4. j \in TaxJobs /\ j.tax = job[w].tax /\ j.period = job[w].period /\ j.previous = Total("carry", last)
  <2> HIDE DEF last
  <2> QED
    BY <1>2, <1>3 DEF TaxJobs
<1> HIDE DEF j
<1>5. Moved(w) /\ pc'[w] = "declare" /\ job'[w] = j
  <2>1. "declare" \in Steps
    BY DEF Steps
  <2> QED
    BY <1>1, <1>4, <2>1, GoesMoves DEF AllJobs
<1>6. TypeOK'
  BY <1>1, <1>5, TaxTypes DEF TypeOK, taxTables
<1>7. LocalOK(w)'
  <2>1. j.tax \in duties'[w]
    BY <1>3, <1>4 DEF TaxFrame
  <2> QED
    BY <1>4, <1>5, <2>1 DEF LocalOK, TaxSteps, RateSteps, Depreciates, Quotas, Disposes, OnItsWay,
       PeriodSteps, RunSteps, DisposalSteps
<1> QED
  BY <1>1, <1>4, <1>5, <1>6, <1>7 DEF Sound

\* What a declaration pays less what it carries forward is what it owes less the credit
\* it took.
LEMMA DeclarationType ==
  ASSUME NEW j \in TaxJobs
  PROVE  /\ Declaration(j) \in DeclarationRows /\ Declaration(j).tax = j.tax /\ Declaration(j).period = j.period
         /\ Declaration(j).net = j.net
         /\ Declaration(j).pay - Declaration(j).carry = j.net - j.previous
BY DEF Declaration, DeclarationRows, TaxJobs

LEMMA DeclareMoves ==
  ASSUME TypeOK, LocalsOK, NEW w \in Clerks, TaxFrame, CreateDeclaration(w)
  PROVE  /\ Sound(w) /\ pc[w] = "declare" /\ pc'[w] = "idle" /\ UNCHANGED <<tariff, rates, today>>
         /\ \/ /\ \E d \in declarations : d.tax = job[w].tax /\ d.period = job[w].period
               /\ declarations' = declarations
            \/ /\ \A d \in declarations : ~ (d.tax = job[w].tax /\ d.period = job[w].period)
               /\ declarations' = declarations \cup {Declaration(job[w])}
<1>1. /\ pc[w] = "declare" /\ End(w) /\ UNCHANGED <<tariff, rates, today>>
      /\ \/ /\ \E d \in declarations : d.tax = job[w].tax /\ d.period = job[w].period
            /\ declarations' = declarations
         \/ /\ \A d \in declarations : ~ (d.tax = job[w].tax /\ d.period = job[w].period)
            /\ declarations' = declarations \cup {Declaration(job[w])}
  BY DEF CreateDeclaration, Declared
<1>2. declarations' \subseteq DeclarationRows /\ IsFiniteSet(declarations')
  <2>1. Declaration(job[w]) \in DeclarationRows
    BY <1>1, TaxFacts, DeclarationType DEF TaxSteps
  <2>2. declarations \subseteq DeclarationRows /\ IsFiniteSet(declarations)
    BY DEF TypeOK
  <2> QED
    BY <1>1, <2>1, <2>2, FS_AddElement
<1>3. TypeOK'
  BY <1>1, <1>2, EndMoves, TaxTypes DEF TypeOK
<1> QED
  BY <1>1, <1>3, EndSound

LEMMA TariffMoves ==
  ASSUME TypeOK, LocalsOK, NEW w \in Clerks, TaxFrame, NEW t \in Tariffs, handleSetICATariff(w, t)
  PROVE  Sound(w) /\ pc[w] = "idle" /\ UNCHANGED <<declarations, rates, today, pc, job>>
<1>1. pc[w] = "idle" /\ tariff' = {t} /\ UNCHANGED <<declarations, rates, today, pc, job>>
  BY DEF handleSetICATariff, SetTariff, Takes
<1>2. TypeOK'
  BY <1>1, TaxTypes DEF TypeOK
<1> QED
  BY <1>1, <1>2, IdleSound

LEMMA FiledMoves ==
  ASSUME TypeOK, LocalsOK, NEW w \in Clerks, TaxFrame, NEW d \in declarations,
         handleFileIVA(w, d) \/ handleFileICA(w, d) \/ handleFileIncomeTax(w, d)
  PROVE  /\ Sound(w) /\ pc[w] = "idle" /\ UNCHANGED <<tariff, rates, today, pc, job>>
         /\ declarations' = (declarations \ {d}) \cup {[d EXCEPT !.status = "FILED"]}
<1>1. /\ pc[w] = "idle" /\ UNCHANGED <<tariff, rates, today, pc, job>>
      /\ declarations' = (declarations \ {d}) \cup {[d EXCEPT !.status = "FILED"]}
  BY DEF handleFileIVA, handleFileICA, handleFileIncomeTax, MarkFiled, Takes
<1>2. declarations' \subseteq DeclarationRows /\ IsFiniteSet(declarations')
  <2>1. [d EXCEPT !.status = "FILED"] \in DeclarationRows
    BY DEF TypeOK, DeclarationRows
  <2>2. declarations \ {d} \subseteq declarations
    OBVIOUS
  <2>3. IsFiniteSet(declarations \ {d})
    BY <2>2, FS_Subset DEF TypeOK
  <2> QED
    BY <1>1, <2>1, <2>3, FS_AddElement DEF TypeOK
<1>3. TypeOK'
  BY <1>1, <1>2, TaxTypes DEF TypeOK
<1> QED
  BY <1>1, <1>3, IdleSound

-----------------------------------------------------------------------------
(* Exchange rates.                                                         *)

LEMMA ManualMoves ==
  ASSUME TypeOK, LocalsOK, NEW w \in Clerks, TaxFrame, NEW d \in Days, NEW p \in Pairs,
         NEW source \in Sources, handleSetExchangeRate(w, d, p, source)
  PROVE  /\ Sound(w) /\ pc[w] = "idle" /\ UNCHANGED <<declarations, tariff, today, pc, job>>
         /\ "rate" \in duties[w] /\ rates' = [rates EXCEPT ![<<d, p>>] = source]
<1>1. /\ pc[w] = "idle" /\ UNCHANGED <<declarations, tariff, today, pc, job>>
      /\ "rate" \in duties[w] /\ rates' = [rates EXCEPT ![<<d, p>>] = source]
  BY DEF handleSetExchangeRate, SetExchangeRate, Takes
<1>2. TypeOK'
  BY <1>1, TaxTypes DEF TypeOK
<1> QED
  BY <1>1, <1>2, IdleSound

\* A request at a step of the exchange rate carries the day, the pair and the attempt.
LEMMA RateSound ==
  ASSUME TypeOK, LocalsOK, NEW w \in Clerks, TaxFrame, NEW step \in RateSteps, NEW j \in RateJobs,
         Goes(w, step, j), UNCHANGED taxTables,
         step \in {"fetch", "set rate"} /\ j.tries = 0 => "lookup" \in duties[w],
         step \in {"fetch daily", "hour"} => j.tries > 0
  PROVE  Sound(w) /\ pc'[w] = step /\ job'[w] = j
<1>1. Moved(w) /\ pc'[w] = step /\ job'[w] = j
  <2>1. step \in Steps
    BY DEF RateSteps, Steps
  <2> QED
    BY <2>1, GoesMoves DEF AllJobs
<1>2. TypeOK'
  BY <1>1, TaxTypes DEF TypeOK, taxTables
<1>3. LocalOK(w)'
  BY <1>1 DEF TaxFrame, LocalOK, TaxSteps, RateSteps, Depreciates, Quotas, Disposes, OnItsWay,
     PeriodSteps, RunSteps, DisposalSteps
<1> QED
  BY <1>1, <1>2, <1>3 DEF Sound

\* What a step of the exchange rate other than its saving or capture may do.
RateReads(w) ==
  /\ UNCHANGED taxTables /\ pc[w] \in {"idle"} \cup RateSteps /\ pc'[w] \in {"idle"} \cup RateSteps
  /\ pc'[w] \in {"fetch", "set rate"} /\ job'[w].tries = 0 =>
       \/ pc[w] = "fetch" /\ job'[w] = job[w]
       \/ rates[<<job'[w].day, job'[w].pair>>] = "none"

LEMMA RateReadsMoves ==
  ASSUME TypeOK, LocalsOK, NEW w \in Clerks, TaxFrame,
         \/ \E d \in Days, p \in Pairs : handleLookupExchangeRate(w, d, p)
         \/ handleSyncExchangeRate(w) \/ RunTRMDailySync(w) \/ FetchTRM(w) \/ TryAgain(w)
  PROVE  Sound(w) /\ RateReads(w)
<1>1. ASSUME NEW step \in RateSteps, NEW d \in Days, NEW p \in Pairs, NEW n \in {0, 1, 2},
             Asks(w, step, d, p, n),
             pc[w] \in {"idle"} \cup RateSteps,
             n \in {1, 2} \/ (n = 0 /\ step = "fetch" /\ "lookup" \in duties[w] /\ rates[<<d, p>>] = "none")
      PROVE  Sound(w) /\ RateReads(w)
  <2> DEFINE j == [day |-> d, pair |-> p, tries |-> n]
  <2>1. j \in RateJobs /\ j.day = d /\ j.pair = p /\ j.tries = n
    <3>1. n \in 0..2
      OBVIOUS
    <3> QED
      BY <3>1 DEF RateJobs
  <2>2. Goes(w, step, j) /\ UNCHANGED taxTables
    BY <1>1 DEF Asks, Begin
  <2> HIDE DEF j
  <2>3. Sound(w) /\ pc'[w] = step /\ job'[w] = j
    <3>1. /\ j.tries = 0 => "lookup" \in duties[w]
          /\ step \in {"fetch daily", "hour"} => j.tries > 0
      <4>1. CASE n \in {1, 2}
        <5>1. j.tries = 1 \/ j.tries = 2
          BY <2>1, <4>1
        <5>2. j.tries # 0 /\ j.tries > 0
          BY <5>1
        <5> QED
          BY <5>2
      <4>2. CASE n = 0 /\ step = "fetch" /\ "lookup" \in duties[w]
        BY <2>1, <4>2
      <4> QED
        BY <1>1, <4>1, <4>2
    <3> QED
      BY <2>1, <2>2, <3>1, RateSound
  <2> QED
    <3>1. pc'[w] \in {"fetch", "set rate"} /\ job'[w].tries = 0 => rates[<<job'[w].day, job'[w].pair>>] = "none"
      <4>1. CASE n \in {1, 2}
        <5>1. j.tries = 1 \/ j.tries = 2
          BY <2>1, <4>1
        <5>2. job'[w].tries # 0
          BY <2>3, <5>1
        <5> QED
          BY <5>2
      <4>2. CASE rates[<<d, p>>] = "none"
        BY <2>1, <2>3, <4>2
      <4> QED
        BY <1>1, <4>1, <4>2
    <3> QED
      BY <1>1, <2>2, <2>3, <3>1 DEF RateReads
<1>2. CASE \E d \in Days, p \in Pairs : handleLookupExchangeRate(w, d, p)
  <2>1. PICK d \in Days, p \in Pairs : handleLookupExchangeRate(w, d, p)
    BY <1>2
  <2>2. pc[w] = "idle" /\ "lookup" \in duties[w] /\ rates[<<d, p>>] = "none" /\ Asks(w, "fetch", d, p, 0)
    BY <2>1 DEF handleLookupExchangeRate, GetOrFetch, Takes
  <2> QED
    BY <1>1, <2>2 DEF RateSteps
<1>3. CASE handleSyncExchangeRate(w)
  <2>1. pc[w] = "idle" /\ Asks(w, "fetch", today, Official, 1) /\ today \in Days
    BY <1>3 DEF handleSyncExchangeRate, Sync, Takes, TypeOK
  <2> QED
    <3>1. "fetch" \in RateSteps /\ "fetch daily" \in RateSteps /\ pc[w] \in {"idle"} \cup RateSteps
      BY <2>1 DEF RateSteps
    <3>2. 1 \in {1, 2} /\ 2 \in {1, 2} /\ 1 \in {0, 1, 2} /\ 2 \in {0, 1, 2} /\ Official \in Pairs
      BY BackOfficeAssumption
    <3> QED
      BY <1>1, <2>1, <3>1, <3>2
<1>4. CASE RunTRMDailySync(w)
  <2>1. pc[w] = "idle" /\ Asks(w, "fetch daily", today, Official, 1) /\ today \in Days
    BY <1>4 DEF RunTRMDailySync, Takes, TypeOK
  <2> QED
    <3>1. "fetch" \in RateSteps /\ "fetch daily" \in RateSteps /\ pc[w] \in {"idle"} \cup RateSteps
      BY <2>1 DEF RateSteps
    <3>2. 1 \in {1, 2} /\ 2 \in {1, 2} /\ 1 \in {0, 1, 2} /\ 2 \in {0, 1, 2} /\ Official \in Pairs
      BY BackOfficeAssumption
    <3> QED
      BY <1>1, <2>1, <3>1, <3>2
<1>5. CASE TryAgain(w)
  <2>1. pc[w] = "hour" /\ Asks(w, "fetch daily", today, Official, 2) /\ today \in Days
    BY <1>5 DEF TryAgain, TypeOK
  <2> QED
    <3>1. "fetch" \in RateSteps /\ "fetch daily" \in RateSteps /\ pc[w] \in {"idle"} \cup RateSteps
      BY <2>1 DEF RateSteps
    <3>2. 1 \in {1, 2} /\ 2 \in {1, 2} /\ 1 \in {0, 1, 2} /\ 2 \in {0, 1, 2} /\ Official \in Pairs
      BY BackOfficeAssumption
    <3> QED
      BY <1>1, <2>1, <3>1, <3>2
<1>6. CASE FetchTRM(w)
  <2>1. /\ pc[w] \in {"fetch", "fetch daily"} /\ UNCHANGED taxTables
        /\ \/ Goes(w, "set rate", job[w]) \/ End(w)
           \/ pc[w] = "fetch daily" /\ Goes(w, "hour", job[w])
    BY <1>6 DEF FetchTRM
  <2>2. /\ job[w] \in RateJobs /\ pc[w] \in RateSteps
        /\ pc[w] = "fetch" /\ job[w].tries = 0 => "lookup" \in duties[w]
        /\ pc[w] = "fetch daily" => job[w].tries > 0
    BY <2>1 DEF LocalsOK, LocalOK, RateSteps
  <2>3. CASE End(w)
    <3>1. TypeOK'
      BY <2>1, <2>3, EndMoves, TaxTypes DEF TypeOK, taxTables
    <3> QED
      BY <2>1, <2>2, <2>3, <3>1, EndSound DEF RateReads
  <2>4. CASE Goes(w, "hour", job[w]) /\ pc[w] = "fetch daily"
    <3>1. job[w].tries > 0
      BY <2>2, <2>4
    <3>2. Sound(w) /\ pc'[w] = "hour" /\ job'[w] = job[w]
      BY <2>1, <2>2, <2>4, <3>1, RateSound DEF RateSteps
    <3> QED
      BY <2>1, <2>2, <3>2 DEF RateReads, RateSteps
  <2>5. CASE Goes(w, "set rate", job[w]) /\ pc[w] = "fetch"
    <3>1. Sound(w) /\ pc'[w] = "set rate" /\ job'[w] = job[w]
      BY <2>1, <2>2, <2>5, RateSound DEF RateSteps
    <3> QED
      BY <2>1, <2>2, <2>5, <3>1 DEF RateReads, RateSteps
  <2>6. CASE Goes(w, "set rate", job[w]) /\ pc[w] = "fetch daily"
    <3>1. job[w].tries # 0
      <4>1. job[w].tries \in 0..2 /\ job[w].tries > 0
        BY <2>2, <2>6 DEF RateJobs
      <4> QED
        BY <4>1
    <3>2. Sound(w) /\ pc'[w] = "set rate" /\ job'[w] = job[w]
      BY <2>1, <2>2, <2>6, <3>1, RateSound DEF RateSteps
    <3> QED
      BY <2>1, <2>2, <3>1, <3>2 DEF RateReads, RateSteps
  <2> QED
    BY <2>1, <2>3, <2>4, <2>5, <2>6
<1> QED
  BY <1>2, <1>3, <1>4, <1>5, <1>6

LEMMA SaveRateMoves ==
  ASSUME TypeOK, LocalsOK, NEW w \in Clerks, TaxFrame, SaveRate(w)
  PROVE  /\ Sound(w) /\ pc[w] = "set rate" /\ pc'[w] = "idle" /\ UNCHANGED <<declarations, tariff, today>>
         /\ job[w] \in RateJobs /\ rates' = [rates EXCEPT ![<<job[w].day, Official>>] = "SUPERFINANCIERA"]
<1>1. /\ pc[w] = "set rate" /\ End(w) /\ UNCHANGED <<declarations, tariff, today>>
      /\ rates' = [rates EXCEPT ![<<job[w].day, Official>>] = "SUPERFINANCIERA"]
  BY DEF SaveRate
<1>2. job[w] \in RateJobs
  BY <1>1 DEF LocalsOK, LocalOK, RateSteps
<1>3. TypeOK'
  <2>1. rates' \in [Days \X Pairs -> Sources \cup {"none"}]
    BY <1>1, <1>2, BackOfficeAssumption DEF TypeOK, Sources, RateJobs
  <2> QED
    BY <1>1, <2>1, EndMoves, TaxTypes DEF TypeOK
<1> QED
  BY <1>1, <1>2, <1>3, EndSound

-----------------------------------------------------------------------------
(* What one request does leaves the others as they were.                   *)

\* The locals of the others stay in order.
LEMMA LocalsKept ==
  ASSUME LocalsOK, NEW w \in Clerks, Sound(w), UNCHANGED duties
  PROVE  LocalsOK'
<1>1. ASSUME NEW v \in Clerks, v # w
      PROVE  LocalOK(v)'
  <2>1. pc'[v] = pc[v] /\ job'[v] = job[v] /\ LocalOK(v)
    BY <1>1 DEF Sound, Moved, LocalsOK
  <2>2. (Depreciates(v)' <=> Depreciates(v)) /\ (Disposes(v)' <=> Disposes(v)) /\ (Quotas(v)' <=> Quotas(v))
    BY <2>1 DEF Depreciates, Disposes, Quotas, OnItsWay
  <2> QED
    BY <2>1, <2>2 DEF LocalOK
<1> QED
  BY <1>1 DEF LocalsOK, Sound

\* Who serves what, and what fails, is settled.
LEMMA SameShift ==
  ASSUME UNCHANGED duties, NEW K \in SUBSET Requests
  PROVE  (OneAt(K)' <=> OneAt(K)) /\ (Spared(K)' <=> Spared(K))
BY DEF OneAt, Spared

\* Who depreciates or disposes has that among his duties.
LEMMA AssetDuties ==
  ASSUME LocalsOK, NEW v \in Clerks
  PROVE  /\ pc[v] \in {"has run", "list"} \/ Quotas(v) \/ Depreciates(v) => "depreciate" \in duties[v]
         /\ Disposes(v) \/ pc[v] \in DisposalSteps => "dispose" \in duties[v] /\ job[v].asset \in Assets
BY DEF LocalsOK, LocalOK, Quotas, Depreciates, Disposes, RunSteps, DisposalSteps

\* Where one goroutine depreciates, no other is at a step of a run.
LEMMA OneRun ==
  ASSUME LocalsOK, OneAt({"depreciate"}), NEW w \in Clerks, "depreciate" \in duties[w],
         NEW v \in Clerks, v # w
  PROVE  ~ Quotas(v) /\ pc[v] # "list" /\ pc[v] # "record"
<1>1. "depreciate" \notin duties[v]
  BY DEF OneAt
<1> QED
  BY <1>1, AssetDuties DEF Quotas

\* QuotasOK after a step that neither adds to what is accumulated nor to what a run takes.
LEMMA QuotasKept ==
  ASSUME QuotasOK, NEW w \in Clerks, Moved(w), UNCHANGED <<duties, accumulated>>,
         Quotas(w)' => Quotas(w) /\ job'[w].amounts = job[w].amounts
  PROVE  QuotasOK'
<1> SUFFICES ASSUME OneAt({"depreciate"})'
             PROVE  /\ \A a \in Assets : accumulated'[a] > 0 => accumulated'[a] <= Depreciable(a)
                    /\ \A v \in Clerks : Quotas(v)' =>
                         \A a \in Assets : job'[v].amounts[a] > 0 =>
                           accumulated'[a] + job'[v].amounts[a] <= Depreciable(a)
  BY DEF QuotasOK, Depreciable
<1>1. OneAt({"depreciate"})
  BY DEF OneAt
<1>2. \A v \in Clerks : Quotas(v)' => Quotas(v) /\ job'[v].amounts = job[v].amounts
  BY DEF Moved, Quotas
<1> QED
  BY <1>1, <1>2 DEF QuotasOK

\* RunsOK after a step that makes no entry of a depreciation and no run.
LEMMA RunsKept ==
  ASSUME RunsOK, LocalsOK, NEW w \in Clerks, Moved(w), UNCHANGED <<duties, runs>>,
         \A m \in Months : DepreciationOf(m)' = DepreciationOf(m),
         pc'[w] # "record", pc[w] = "record" => Faults[w] # {},
         pc'[w] = "list" \/ Quotas(w)' =>
           job'[w].month \notin runs
             \/ ((pc[w] = "list" \/ Quotas(w)) /\ job'[w].month = job[w].month)
  PROVE  RunsOK'
<1> SUFFICES ASSUME OneAt({"depreciate"})', Spared({"depreciate"})'
             PROVE  /\ \A m \in Months : /\ \A e, f \in DepreciationOf(m)' : e = f
                                         /\ DepreciationOf(m)' # {} <=> m \in runs' \/ At(m)'
                    /\ \A v \in Clerks : pc'[v] = "list" \/ Quotas(v)' => job'[v].month \notin runs'
  BY DEF RunsOK
<1>1. OneAt({"depreciate"}) /\ Spared({"depreciate"})
  BY DEF OneAt, Spared
<1>2. pc[w] # "record"
  <2>1. pc[w] = "record" => "depreciate" \in duties[w]
    BY AssetDuties DEF Quotas
  <2> QED
    BY <1>1, <2>1 DEF Spared
<1>3. \A m \in Months : At(m)' <=> At(m)
  BY <1>2 DEF At, Moved
<1>4. ASSUME NEW v \in Clerks, pc'[v] = "list" \/ Quotas(v)'
      PROVE  job'[v].month \notin runs'
  <2>1. CASE v = w
    BY <1>1, <1>4, <2>1 DEF RunsOK
  <2>2. CASE v # w
    BY <1>1, <1>4, <2>2 DEF RunsOK, Moved, Quotas
  <2> QED
    BY <2>1, <2>2
<1>5. \A m \in Months : /\ \A e, f \in DepreciationOf(m) : e = f
                        /\ DepreciationOf(m) # {} <=> m \in runs \/ At(m)
  BY <1>1 DEF RunsOK
<1> QED
  BY <1>3, <1>4, <1>5

\* The parts of DisposalsOK.
DisposalCase == OneAt({"depreciate", "dispose"}) /\ Spared({"depreciate", "dispose"})

Retired(a) ==
  /\ \A e \in DisposalOf(a) : entries[e].amounts[a] = accumulated[a]
  /\ \A e, f \in DisposalOf(a) : e = f
  /\ DisposalOf(a) # {} =>
       assets[a] = "DISPOSED" \/ (\E w \in Clerks : pc[w] = "dispose" /\ job[w].asset = a)

Retires(w) ==
  /\ Disposes(w) => assets[job[w].asset] \notin {"none", "DISPOSED"}
  /\ pc[w] = "retire" => job[w].amounts[job[w].asset] = accumulated[job[w].asset]
  /\ pc[w] = "status" => assets[job[w].asset] # "DISPOSED"
  /\ Quotas(w) => \A a \in Assets :
       (a \in job[w].todo \/ job[w].amounts[a] > 0) => assets[a] # "DISPOSED"

\* DisposalsOK by its parts, before and after a step.
LEMMA DisposalParts ==
  DisposalsOK <=> (DisposalCase => (\A a \in Assets : Retired(a)) /\ (\A w \in Clerks : Retires(w)))
BY DEF DisposalsOK, DisposalCase, Retired, Retires

LEMMA DisposalPartsNext ==
  DisposalsOK' <=> (DisposalCase' => (\A a \in Assets : Retired(a)') /\ (\A w \in Clerks : Retires(w)'))
BY DEF DisposalsOK, DisposalCase, Retired, Retires

\* Where one goroutine serves depreciations and disposals, no other is at a step of either.
LEMMA OneDesk ==
  ASSUME LocalsOK, DisposalCase, NEW w \in Clerks, {"depreciate", "dispose"} \cap duties[w] # {}
  PROVE  /\ Faults[w] = {}
         /\ \A v \in Clerks \ {w} : ~ Quotas(v) /\ ~ Disposes(v) /\ pc[v] \notin DisposalSteps /\ pc[v] # "status"
<1>1. Faults[w] = {}
  BY DEF DisposalCase, Spared
<1>2. ASSUME NEW v \in Clerks \ {w}
      PROVE  "depreciate" \notin duties[v] /\ "dispose" \notin duties[v]
  BY <1>2 DEF DisposalCase, OneAt
<1> QED
  BY <1>1, <1>2, AssetDuties DEF Quotas

\* Another request's part in it is not touched by what leaves the statuses that matter alone.
LEMMA RetiresKept ==
  ASSUME NEW w \in Clerks, Moved(w), NEW v \in Clerks \ {w}, Retires(v), UNCHANGED accumulated,
         LocalsOK, TypeOK,
         \A a \in Assets : assets'[a] = assets[a] \/ (assets[a] # "DISPOSED" /\ assets'[a] \notin {"none", "DISPOSED"})
  PROVE  Retires(v)'
<1>1. pc'[v] = pc[v] /\ job'[v] = job[v]
  BY DEF Moved
<1>2. Disposes(v)' <=> Disposes(v)
  BY <1>1 DEF Disposes, OnItsWay
<1>3. Quotas(v)' <=> Quotas(v)
  BY <1>1 DEF Quotas
<1>4. /\ Disposes(v) => job[v].asset \in Assets
      /\ pc[v] = "retire" => job[v].asset \in Assets
      /\ pc[v] = "status" => job[v].asset \in Assets
  BY AssetDuties, LocalFacts DEF DisposalSteps
<1> QED
  BY <1>1, <1>2, <1>3, <1>4 DEF Retires

\* DisposalsOK after a step that makes no entry of a disposal and ends none.
LEMMA DisposalsKept ==
  ASSUME DisposalsOK, TypeOK, LocalsOK, NEW w \in Clerks, Moved(w), UNCHANGED <<duties, accumulated>>,
         \A a \in Assets : /\ DisposalOf(a)' = DisposalOf(a)
                           /\ \A e \in DisposalOf(a) : entries'[e].amounts = entries[e].amounts,
         pc'[w] # "dispose", pc[w] = "dispose" => Faults[w] # {},
         DisposalCase =>
           /\ \A a \in Assets : assets'[a] = assets[a]
                 \/ (assets[a] # "DISPOSED" /\ assets'[a] \notin {"none", "DISPOSED"})
           /\ Retires(w)'
  PROVE  DisposalsOK'
<1> SUFFICES ASSUME DisposalCase'
             PROVE  (\A a \in Assets : Retired(a)') /\ (\A v \in Clerks : Retires(v)')
  BY DisposalPartsNext
<1>1. DisposalCase
  BY DEF DisposalCase, OneAt, Spared
<1>2. (\A a \in Assets : Retired(a)) /\ (\A v \in Clerks : Retires(v))
  BY <1>1, DisposalParts
<1>3. \A v \in Clerks : Retires(v)'
  BY <1>1, <1>2, RetiresKept
<1>4. pc[w] # "dispose"
  <2>1. pc[w] = "dispose" => "dispose" \in duties[w]
    BY AssetDuties DEF DisposalSteps
  <2> QED
    BY <1>1, <2>1 DEF DisposalCase, Spared
<1>5. ASSUME NEW a \in Assets
      PROVE  Retired(a)'
  <2>1. Retired(a)
    BY <1>2
  <2>2. (\E v \in Clerks : pc'[v] = "dispose" /\ job'[v].asset = a)
          <=> (\E v \in Clerks : pc[v] = "dispose" /\ job[v].asset = a)
    BY <1>4 DEF Moved
  <2>3. assets[a] = "DISPOSED" => assets'[a] = "DISPOSED"
    BY <1>1
  <2> QED
    BY <2>1, <2>2, <2>3 DEF Retired
<1> QED
  BY <1>3, <1>5

-----------------------------------------------------------------------------
(* The invariants of assets.                                               *)

AssetInv == QuotasOK /\ RunsOK /\ DisposalsOK

\* A step that is no step of depreciation or disposal.
AssetsAway(w) ==
  /\ UNCHANGED assetTables /\ BooksKept
  /\ pc[w] \in {"record", "dispose"} => Faults[w] # {}
  /\ pc'[w] \notin {"list", "quota", "status", "post", "record", "retire", "dispose"}
  /\ Disposes(w)' => Disposes(w) /\ job'[w].asset = job[w].asset

\* A step that leaves the assets and the entries about them as they were.
LEMMA AssetsKept ==
  ASSUME TypeOK, LocalsOK, NEW w \in Clerks, Moved(w), UNCHANGED duties, AssetsAway(w), AssetInv
  PROVE  AssetInv'
<1>1. QuotasOK'
  BY QuotasKept DEF AssetInv, AssetsAway, assetTables, Quotas
<1>2. RunsOK'
  BY RunsKept DEF AssetInv, AssetsAway, assetTables, Quotas, BooksKept
<1>3. DisposalsOK'
  <2>1. ASSUME DisposalCase
        PROVE  Retires(w)'
    <3>1. Retires(w)
      BY <2>1, DisposalParts DEF AssetInv
    <3> QED
      BY <3>1 DEF Retires, AssetsAway, assetTables, Quotas
  <2> QED
    BY <2>1, DisposalsKept DEF AssetInv, AssetsAway, assetTables, BooksKept
<1> QED
  BY <1>1, <1>2, <1>3 DEF AssetInv

LEMMA NoneMade ==
  ASSUME UNCHANGED entries
  PROVE  /\ \A m \in Months : DepreciationOf(m)' = DepreciationOf(m)
         /\ \A a \in Assets : /\ DisposalOf(a)' = DisposalOf(a)
                              /\ \A e \in DisposalOf(a) : entries'[e].amounts = entries[e].amounts
BY DEF DepreciationOf, DisposalOf

LEMMA RegisterKeeps ==
  ASSUME TypeOK, LocalsOK, AssetInv, NEW w \in Clerks, NEW a \in Assets,
         handleCreateFixedAsset(w, a), AssetFrame
  PROVE  AssetInv'
<1>1. /\ Moved(w) /\ pc[w] = "idle" /\ UNCHANGED <<pc, job, accumulated, runs, entries, duties>>
      /\ assets[a] = "none" /\ assets' = [assets EXCEPT ![a] = "ACTIVE"]
  BY RegisterMoves DEF Sound, AssetFrame
<1>2. \A b \in Assets : assets'[b] = assets[b] \/ (assets[b] # "DISPOSED" /\ assets'[b] \notin {"none", "DISPOSED"})
  BY <1>1 DEF TypeOK
<1>3. QuotasOK' /\ RunsOK'
  BY <1>1, NoneMade, QuotasKept, RunsKept DEF AssetInv, Quotas
<1>4. ~ Disposes(w)' /\ ~ Quotas(w)' /\ pc'[w] \notin {"retire", "status"}
  BY <1>1, IdleAt DEF Disposes, Quotas, OnItsWay
<1>5. DisposalsOK'
  <2>1. Retires(w)'
    BY <1>4 DEF Retires
  <2> QED
    BY <1>1, <1>2, <2>1, NoneMade, DisposalsKept DEF AssetInv
<1> QED
  BY <1>3, <1>5 DEF AssetInv

\* A step of a run or a disposal that only reads.
LEMMA ReadKeeps ==
  ASSUME TypeOK, LocalsOK, AssetInv, NEW w \in Clerks, Moved(w), UNCHANGED <<duties, database>>,
         pc[w] \notin {"record", "dispose"}, pc'[w] \notin {"record", "dispose"},
         Quotas(w)' => Quotas(w) /\ job'[w].amounts = job[w].amounts,
         pc'[w] = "list" \/ Quotas(w)' =>
           job'[w].month \notin runs
             \/ ((pc[w] = "list" \/ Quotas(w)) /\ job'[w].month = job[w].month),
         DisposalCase => Retires(w)'
  PROVE  AssetInv'
<1>1. UNCHANGED <<assets, accumulated, runs, entries>>
  BY DEF database, assetTables, ledgerTables
<1>2. QuotasOK' /\ RunsOK'
  BY <1>1, NoneMade, QuotasKept, RunsKept DEF AssetInv
<1>3. DisposalsOK'
  BY <1>1, NoneMade, DisposalsKept DEF AssetInv
<1> QED
  BY <1>2, <1>3 DEF AssetInv

LEMMA BeginKeeps ==
  ASSUME TypeOK, LocalsOK, AssetInv, NEW w \in Clerks, AssetFrame,
         \/ \E m \in Months : handleRunDepreciation(w, m)
         \/ \E a \in Assets, m \in Months : handleDisposeFixedAsset(w, a, m)
  PROVE  AssetInv'
<1>1. /\ Moved(w) /\ UNCHANGED database /\ pc[w] = "idle" /\ pc'[w] = "period"
      /\ Disposes(w)' => assets[job'[w].asset] \notin {"none", "DISPOSED"}
  BY RunMoves, DisposeMoves DEF Sound
<1>2. Retires(w)'
  BY <1>1 DEF Retires, Quotas, database, assetTables
<1> QED
  BY <1>1, <1>2, ReadKeeps DEF Quotas, AssetFrame

LEMMA HasRunKeeps ==
  ASSUME TypeOK, LocalsOK, AssetInv, NEW w \in Clerks, AssetFrame, HasRunForPeriod(w)
  PROVE  AssetInv'
<1>1. /\ Moved(w) /\ UNCHANGED database /\ pc[w] = "has run"
      /\ \/ pc'[w] = "idle"
         \/ pc'[w] = "list" /\ job'[w] = job[w] /\ job[w].month \notin runs
  BY HasRunMoves DEF Sound
<1>2. Retires(w)'
  BY <1>1 DEF Retires, Quotas, Disposes, DisposalSteps, OnItsWay, PeriodSteps
<1> QED
  BY <1>1, <1>2, ReadKeeps DEF Quotas, AssetFrame

LEMMA EndOfListKeeps ==
  ASSUME TypeOK, LocalsOK, AssetInv, NEW w \in Clerks, AssetFrame, EndOfList(w)
  PROVE  AssetInv'
<1>1. /\ Moved(w) /\ UNCHANGED database /\ pc[w] = "quota"
      /\ pc'[w] = "idle" \/ (pc'[w] = "post" /\ job'[w] = job[w])
  BY EndOfListMoves DEF Sound
<1>2. ASSUME DisposalCase
      PROVE  Retires(w)'
  <2>1. Retires(w)
    BY <1>2, DisposalParts DEF AssetInv
  <2> QED
    BY <1>1, <2>1 DEF Retires, Quotas, Disposes, DisposalSteps, OnItsWay, PeriodSteps, database, assetTables
<1> QED
  BY <1>1, <1>2, ReadKeeps DEF Quotas, AssetFrame

LEMMA GetAccumulatedKeeps ==
  ASSUME TypeOK, LocalsOK, AssetInv, NEW w \in Clerks, AssetFrame, GetAccumulated(w)
  PROVE  AssetInv'
<1>1. /\ Moved(w) /\ UNCHANGED database /\ pc[w] = "accumulated" /\ pc'[w] = "retire"
      /\ job'[w].asset = job[w].asset /\ job'[w].amounts[job[w].asset] = accumulated[job[w].asset]
  BY GetAccumulatedMoves DEF Sound
<1>2. ASSUME DisposalCase
      PROVE  Retires(w)'
  <2>1. Retires(w) /\ Disposes(w)
    BY <1>1, <1>2, DisposalParts DEF AssetInv, Disposes, DisposalSteps
  <2> QED
    BY <1>1, <2>1 DEF Retires, Quotas, Disposes, DisposalSteps, OnItsWay, PeriodSteps, database, assetTables
<1> QED
  BY <1>1, <1>2, ReadKeeps DEF Quotas, AssetFrame

\* A run begins with no asset counted.
LEMMA ListKeeps ==
  ASSUME TypeOK, LocalsOK, AssetInv, NEW w \in Clerks, AssetFrame, ListAssets(w)
  PROVE  AssetInv'
<1>1. /\ Moved(w) /\ UNCHANGED <<duties, assets, accumulated, runs, entries>> /\ pc[w] = "list" /\ pc'[w] = "quota"
      /\ job[w] \in Jobs /\ job[w].amounts = NoAmounts
      /\ job'[w] = [job[w] EXCEPT !.todo = {a \in Assets : assets[a] = "ACTIVE"}]
  BY ListMoves DEF Sound, database, assetTables, ledgerTables, AssetFrame
<1>2. /\ \A a \in Assets : job'[w].amounts[a] = 0
      /\ \A a \in job'[w].todo : assets[a] = "ACTIVE"
      /\ job'[w].month = job[w].month
  BY <1>1 DEF Jobs, NoAmounts
<1>3. QuotasOK'
  <2> SUFFICES ASSUME OneAt({"depreciate"})'
               PROVE  /\ \A a \in Assets : accumulated'[a] > 0 => accumulated'[a] <= Depreciable(a)
                      /\ \A v \in Clerks : Quotas(v)' =>
                           \A a \in Assets : job'[v].amounts[a] > 0 =>
                             accumulated'[a] + job'[v].amounts[a] <= Depreciable(a)
    BY DEF QuotasOK, Depreciable
  <2>1. OneAt({"depreciate"})
    BY <1>1 DEF OneAt
  <2>2. ASSUME NEW v \in Clerks, Quotas(v)', NEW a \in Assets, job'[v].amounts[a] > 0
        PROVE  accumulated'[a] + job'[v].amounts[a] <= Depreciable(a)
    <3>1. v # w
      BY <1>2, <2>2
    <3>2. Quotas(v) /\ job'[v] = job[v]
      BY <1>1, <2>2, <3>1 DEF Moved, Quotas
    <3> QED
      BY <1>1, <2>1, <2>2, <3>2 DEF AssetInv, QuotasOK
  <2> QED
    BY <1>1, <2>1, <2>2 DEF AssetInv, QuotasOK
<1>4. RunsOK'
  <2>1. pc'[w] # "record" /\ pc[w] # "record"
    BY <1>1
  <2> QED
    BY <1>1, <1>2, <2>1, NoneMade, RunsKept DEF AssetInv
<1>5. DisposalsOK'
  <2>1. Retires(w)'
    <3>1. \A a \in Assets : (a \in job'[w].todo \/ job'[w].amounts[a] > 0) => assets'[a] # "DISPOSED"
      BY <1>1, <1>2
    <3> QED
      BY <1>1, <3>1 DEF Retires, Quotas, Disposes, DisposalSteps, OnItsWay, PeriodSteps
  <2> QED
    BY <1>1, <2>1, NoneMade, DisposalsKept DEF AssetInv
<1> QED
  BY <1>3, <1>4, <1>5 DEF AssetInv

\* What a run takes from the next asset is at most what remains of it.
LEMMA NextAssetKeeps ==
  ASSUME TypeOK, LocalsOK, AssetInv, NEW w \in Clerks, AssetFrame, NextAsset(w)
  PROVE  AssetInv'
<1>1. /\ Moved(w) /\ UNCHANGED <<duties, assets, accumulated, runs, entries>> /\ pc[w] = "quota"
      /\ pc'[w] \in {"quota", "status"} /\ job[w] \in Jobs
  BY NextAssetMoves DEF Sound, database, assetTables, ledgerTables, AssetFrame
<1>2. PICK a \in job[w].todo :
        /\ a \in Assets
        /\ job'[w].todo = job[w].todo \ {a} /\ job'[w].month = job[w].month
        /\ job'[w].amounts = [job[w].amounts EXCEPT ![a] = Quota(a, accumulated[a])]
        /\ pc'[w] = "status" => job'[w].asset = a
  BY NextAssetMoves
<1>3. /\ \A b \in Assets \ {a} : job'[w].amounts[b] = job[w].amounts[b]
      /\ job'[w].amounts[a] = Quota(a, accumulated[a])
      /\ Quotas(w)
  BY <1>1, <1>2 DEF Jobs, Quotas
<1>4. QuotasOK'
  <2> SUFFICES ASSUME OneAt({"depreciate"})'
               PROVE  /\ \A b \in Assets : accumulated'[b] > 0 => accumulated'[b] <= Depreciable(b)
                      /\ \A v \in Clerks : Quotas(v)' =>
                           \A b \in Assets : job'[v].amounts[b] > 0 =>
                             accumulated'[b] + job'[v].amounts[b] <= Depreciable(b)
    BY DEF QuotasOK, Depreciable
  <2>1. OneAt({"depreciate"})
    BY <1>1 DEF OneAt
  <2>2. ASSUME NEW v \in Clerks, Quotas(v)', NEW b \in Assets, job'[v].amounts[b] > 0
        PROVE  accumulated'[b] + job'[v].amounts[b] <= Depreciable(b)
    <3>1. CASE v # w
      <4>1. Quotas(v) /\ job'[v] = job[v]
        BY <1>1, <2>2, <3>1 DEF Moved, Quotas
      <4> QED
        BY <1>1, <2>1, <2>2, <4>1 DEF AssetInv, QuotasOK
    <3>2. CASE v = w /\ b # a
      <4>1. job'[w].amounts[b] = job[w].amounts[b]
        BY <1>3, <3>2
      <4> QED
        BY <1>1, <1>3, <2>1, <2>2, <3>2, <4>1 DEF AssetInv, QuotasOK
    <3>3. CASE v = w /\ b = a
      <4>1. accumulated[a] \in Nat
        BY <1>2 DEF TypeOK
      <4>2. /\ Quota(a, accumulated[a]) \in Nat /\ Depreciable(a) \in Int
            /\ Quota(a, accumulated[a]) > 0 => Quota(a, accumulated[a]) <= Depreciable(a) - accumulated[a]
        BY <1>2, <4>1, QuotaType
      <4>3. Quota(a, accumulated[a]) > 0
        BY <1>3, <2>2, <3>3
      <4>4. accumulated[a] + Quota(a, accumulated[a]) <= Depreciable(a)
        BY <4>1, <4>2, <4>3
      <4> QED
        BY <1>1, <1>3, <3>3, <4>4
    <3> QED
      BY <3>1, <3>2, <3>3
  <2> QED
    BY <1>1, <2>1, <2>2 DEF AssetInv, QuotasOK
<1>5. RunsOK'
  <2>1. pc'[w] # "record" /\ pc[w] # "record"
    BY <1>1
  <2> QED
    BY <1>1, <1>2, <1>3, <2>1, NoneMade, RunsKept DEF AssetInv
<1>6. DisposalsOK'
  <2>1. ASSUME DisposalCase
        PROVE  Retires(w)'
    <3>1. \A b \in Assets : (b \in job[w].todo \/ job[w].amounts[b] > 0) => assets[b] # "DISPOSED"
      BY <1>3, <2>1, DisposalParts DEF AssetInv, Retires
    <3>2. \A b \in Assets : (b \in job'[w].todo \/ job'[w].amounts[b] > 0) => assets'[b] # "DISPOSED"
      BY <1>1, <1>2, <1>3, <3>1
    <3>3. pc'[w] = "status" => assets'[job'[w].asset] # "DISPOSED"
      BY <1>1, <1>2, <3>1
    <3> QED
      BY <1>1, <3>2, <3>3 DEF Retires, Disposes, DisposalSteps, OnItsWay, PeriodSteps
  <2>2. pc'[w] # "dispose" /\ pc[w] # "dispose"
    BY <1>1
  <2> QED
    BY <1>1, <2>1, <2>2, NoneMade, DisposalsKept DEF AssetInv
<1> QED
  BY <1>4, <1>5, <1>6 DEF AssetInv

LEMMA StatusKeeps ==
  ASSUME TypeOK, LocalsOK, AssetInv, NEW w \in Clerks, AssetFrame, SetFullyDepreciated(w)
  PROVE  AssetInv'
<1>1. /\ Moved(w) /\ UNCHANGED <<duties, accumulated, runs, entries>> /\ pc[w] = "status" /\ pc'[w] = "quota"
      /\ job[w].asset \in Assets
      /\ \/ assets' = [assets EXCEPT ![job[w].asset] = "FULLY_DEPRECIATED"]
         \/ assets' = assets
      /\ job'[w].todo = job[w].todo /\ job'[w].month = job[w].month
      /\ job'[w].amounts = job[w].amounts
  BY StatusMoves DEF Sound, AssetFrame
<1>2. QuotasOK' /\ RunsOK'
  BY <1>1, NoneMade, QuotasKept, RunsKept DEF AssetInv, Quotas
<1>3. DisposalsOK'
  <2>1. ASSUME DisposalCase
        PROVE  /\ \A a \in Assets : assets'[a] = assets[a]
                     \/ (assets[a] # "DISPOSED" /\ assets'[a] \notin {"none", "DISPOSED"})
               /\ Retires(w)'
    <3>1. Retires(w)
      BY <2>1, DisposalParts DEF AssetInv
    <3>2. assets[job[w].asset] # "DISPOSED"
      BY <1>1, <3>1 DEF Retires
    <3>3. \A a \in Assets : assets'[a] = assets[a]
             \/ (assets[a] # "DISPOSED" /\ assets'[a] \notin {"none", "DISPOSED"})
      BY <1>1, <3>2 DEF TypeOK
    <3>4. \A a \in Assets : (a \in job'[w].todo \/ job'[w].amounts[a] > 0) => assets'[a] # "DISPOSED"
      BY <1>1, <3>1, <3>3 DEF Retires, Quotas
    <3> QED
      BY <1>1, <3>3, <3>4 DEF Retires, Disposes, DisposalSteps, OnItsWay, PeriodSteps
  <2> QED
    BY <1>1, <2>1, NoneMade, DisposalsKept DEF AssetInv
<1> QED
  BY <1>2, <1>3 DEF AssetInv

\* The entry of a month's depreciation is the first.
LEMMA PostDepreciationKeeps ==
  ASSUME TypeOK, LocalsOK, AssetInv, NEW w \in Clerks, AssetFrame, PostDepreciation(w)
  PROVE  AssetInv'
<1>1. /\ Moved(w) /\ UNCHANGED <<duties, assets, accumulated, runs>> /\ pc[w] = "post"
      /\ job[w] \in Jobs /\ GoesOn(w, "record", job[w])
  BY PostDepreciationMoves DEF Sound, assetTables, AssetFrame
<1>2. PICK e \in Entries :
        /\ entries[e].status = "none" /\ entries[e].source = "manual"
        /\ entries'[e].status = "POSTED" /\ entries'[e].source = "depreciation"
        /\ entries'[e].month = job[w].month
        /\ \A f \in Entries \ {e} : entries'[f] = entries[f]
  BY PostDepreciationMoves
<1>3. PICK k \in Months : k = job[w].month /\ Quotas(w) /\ "depreciate" \in duties[w]
  BY <1>1, LocalFacts DEF Quotas, RunSteps
<1>4. /\ DepreciationOf(k)' = DepreciationOf(k) \cup {e}
      /\ \A m \in Months : m # k => DepreciationOf(m)' = DepreciationOf(m)
      /\ \A a \in Assets : /\ DisposalOf(a)' = DisposalOf(a)
                           /\ \A f \in DisposalOf(a) : entries'[f].amounts = entries[f].amounts
  <2>1. DepreciationOf(k)' = DepreciationOf(k) \cup {e}
    BY <1>2, <1>3 DEF DepreciationOf
  <2>2. \A m \in Months : m # k => DepreciationOf(m)' = DepreciationOf(m)
    BY <1>2, <1>3 DEF DepreciationOf
  <2>3. ASSUME NEW a \in Assets
        PROVE  /\ DisposalOf(a)' = DisposalOf(a)
               /\ \A f \in DisposalOf(a) : entries'[f].amounts = entries[f].amounts
    BY <1>2 DEF DisposalOf
  <2> QED
    BY <2>1, <2>2, <2>3
<1>5. QuotasOK'
  <2>1. Quotas(w)' => job'[w] = job[w]
    BY <1>1 DEF GoesOn, Quotas
  <2> QED
    BY <1>1, <1>3, <2>1, QuotasKept DEF AssetInv
<1>6. RunsOK'
  <2> SUFFICES ASSUME OneAt({"depreciate"})', Spared({"depreciate"})'
               PROVE  /\ \A m \in Months : /\ \A f, g \in DepreciationOf(m)' : f = g
                                           /\ DepreciationOf(m)' # {} <=> m \in runs' \/ At(m)'
                      /\ \A v \in Clerks : pc'[v] = "list" \/ Quotas(v)' => job'[v].month \notin runs'
    BY DEF RunsOK
  <2>1. OneAt({"depreciate"}) /\ Spared({"depreciate"})
    BY <1>1 DEF OneAt, Spared
  <2>2. pc'[w] = "record" /\ job'[w] = job[w]
    BY <1>1, <1>3, <2>1 DEF GoesOn, Spared
  <2>3. \A v \in Clerks \ {w} : ~ Quotas(v) /\ pc[v] # "list" /\ pc[v] # "record"
    BY <1>3, <2>1, OneRun
  <2>4. k \notin runs
    BY <1>3, <2>1 DEF AssetInv, RunsOK
  <2>5. \A m \in Months : ~ At(m)
    BY <1>1, <2>3 DEF At
  <2>6. \A m \in Months : At(m)' <=> m = k
    BY <1>1, <1>3, <2>2, <2>3 DEF At, Moved
  <2>7. DepreciationOf(k)' = {e}
    <3>1. DepreciationOf(k) = {}
      BY <1>3, <2>1, <2>4, <2>5 DEF AssetInv, RunsOK
    <3> QED
      BY <1>4, <3>1
  <2>8. ASSUME NEW m \in Months
        PROVE  /\ \A f, g \in DepreciationOf(m)' : f = g
               /\ DepreciationOf(m)' # {} <=> m \in runs' \/ At(m)'
    <3>1. CASE m = k
      BY <2>6, <2>7, <3>1
    <3>2. CASE m # k
      BY <1>1, <1>4, <2>1, <2>5, <2>6, <3>2 DEF AssetInv, RunsOK
    <3> QED
      BY <3>1, <3>2
  <2>9. ASSUME NEW v \in Clerks, pc'[v] = "list" \/ Quotas(v)'
        PROVE  job'[v].month \notin runs'
    <3>1. v = w
      BY <1>1, <2>3, <2>9 DEF Moved, Quotas
    <3> QED
      BY <1>1, <1>3, <2>2, <2>4, <3>1
  <2> QED
    BY <2>8, <2>9
<1>7. DisposalsOK'
  <2>1. ASSUME DisposalCase
        PROVE  Retires(w)'
    <3>1. Retires(w)
      BY <2>1, DisposalParts DEF AssetInv
    <3> QED
      BY <1>1, <1>3, <3>1 DEF GoesOn, Retires, Quotas, Disposes, DisposalSteps, OnItsWay, PeriodSteps
  <2>2. pc'[w] # "dispose" /\ pc[w] # "dispose"
    BY <1>1 DEF GoesOn
  <2> QED
    BY <1>1, <1>4, <2>1, <2>2, DisposalsKept DEF AssetInv
<1> QED
  BY <1>5, <1>6, <1>7 DEF AssetInv

\* What is recorded of a run is what it was found to take, of assets that are still there.
LEMMA CreateRunKeeps ==
  ASSUME TypeOK, LocalsOK, AssetInv, NEW w \in Clerks, AssetFrame, CreateRun(w)
  PROVE  AssetInv'
<1>1. /\ Moved(w) /\ UNCHANGED <<duties, assets, entries>> /\ pc[w] = "record" /\ pc'[w] = "idle"
      /\ job[w] \in Jobs
      /\ \/ job[w].month \in runs /\ UNCHANGED <<runs, accumulated>>
         \/ /\ job[w].month \notin runs /\ runs' = runs \cup {job[w].month}
            /\ accumulated' = [a \in Assets |-> accumulated[a] + job[w].amounts[a]]
  BY CreateRunMoves DEF Sound, AssetFrame
<1>2. Quotas(w) /\ "depreciate" \in duties[w] /\ job[w].month \in Months
  BY <1>1, LocalFacts DEF Quotas, RunSteps
<1>3. \A a \in Assets : /\ accumulated[a] \in Nat /\ job[w].amounts[a] \in Nat
                        /\ accumulated'[a] = accumulated[a] \/ accumulated'[a] = accumulated[a] + job[w].amounts[a]
  BY <1>1 DEF TypeOK, Jobs
<1>4. QuotasOK'
  <2> SUFFICES ASSUME OneAt({"depreciate"})'
               PROVE  /\ \A b \in Assets : accumulated'[b] > 0 => accumulated'[b] <= Depreciable(b)
                      /\ \A v \in Clerks : Quotas(v)' =>
                           \A b \in Assets : job'[v].amounts[b] > 0 =>
                             accumulated'[b] + job'[v].amounts[b] <= Depreciable(b)
    BY DEF QuotasOK, Depreciable
  <2>1. OneAt({"depreciate"})
    BY <1>1 DEF OneAt
  <2>2. \A v \in Clerks : ~ Quotas(v)'
    <3>1. \A v \in Clerks \ {w} : ~ Quotas(v)
      BY <1>2, <2>1, OneRun
    <3> QED
      BY <1>1, <3>1 DEF Moved, Quotas
  <2>3. ASSUME NEW b \in Assets, accumulated'[b] > 0
        PROVE  accumulated'[b] <= Depreciable(b)
    <3>1. CASE accumulated'[b] = accumulated[b]
      BY <2>1, <2>3, <3>1 DEF AssetInv, QuotasOK
    <3>2. CASE accumulated'[b] = accumulated[b] + job[w].amounts[b] /\ job[w].amounts[b] > 0
      <4>1. accumulated[b] + job[w].amounts[b] <= Depreciable(b)
        BY <1>2, <2>1, <3>2 DEF AssetInv, QuotasOK
      <4> QED
        BY <3>2, <4>1
    <3>3. accumulated'[b] = accumulated[b] \/ job[w].amounts[b] > 0
      BY <1>3
    <3> QED
      BY <1>3, <3>1, <3>2, <3>3
  <2> QED
    BY <2>2, <2>3
<1>5. RunsOK'
  <2> SUFFICES ASSUME OneAt({"depreciate"})', Spared({"depreciate"})'
               PROVE  /\ \A m \in Months : /\ \A f, g \in DepreciationOf(m)' : f = g
                                           /\ DepreciationOf(m)' # {} <=> m \in runs' \/ At(m)'
                      /\ \A v \in Clerks : pc'[v] = "list" \/ Quotas(v)' => job'[v].month \notin runs'
    BY DEF RunsOK
  <2>1. OneAt({"depreciate"}) /\ Spared({"depreciate"})
    BY <1>1 DEF OneAt, Spared
  <2>2. \A v \in Clerks \ {w} : ~ Quotas(v) /\ pc[v] # "list" /\ pc[v] # "record"
    BY <1>2, <2>1, OneRun
  <2>3. \A m \in Months : (At(m) <=> m = job[w].month) /\ ~ At(m)'
    BY <1>1, <2>2 DEF At, Moved
  <2>4. runs' = runs \cup {job[w].month}
    <3>1. job[w].month \notin runs
      BY <1>2, <2>1 DEF AssetInv, RunsOK
    <3> QED
      BY <1>1, <3>1
  <2>5. \A m \in Months : DepreciationOf(m)' = DepreciationOf(m)
    BY <1>1, NoneMade
  <2>6. \A m \in Months : /\ \A f, g \in DepreciationOf(m) : f = g
                          /\ DepreciationOf(m) # {} <=> m \in runs \/ At(m)
    BY <2>1 DEF AssetInv, RunsOK
  <2>7. \A v \in Clerks : ~ (pc'[v] = "list" \/ Quotas(v)')
    BY <1>1, <2>2 DEF Moved, Quotas
  <2> QED
    BY <2>3, <2>4, <2>5, <2>6, <2>7
<1>6. DisposalsOK'
  <2> SUFFICES ASSUME DisposalCase'
               PROVE  (\A a \in Assets : Retired(a)') /\ (\A v \in Clerks : Retires(v)')
    BY DisposalPartsNext
  <2>1. DisposalCase
    BY <1>1 DEF DisposalCase, OneAt, Spared
  <2>2. (\A a \in Assets : Retired(a)) /\ Retires(w)
    BY <2>1, DisposalParts DEF AssetInv
  <2>3. \A v \in Clerks \ {w} : ~ Quotas(v) /\ ~ Disposes(v) /\ pc[v] \notin DisposalSteps /\ pc[v] # "status"
    BY <1>2, <2>1, OneDesk
  <2>4. ASSUME NEW v \in Clerks
        PROVE  Retires(v)'
    <3>1. ~ Quotas(v)' /\ ~ Disposes(v)' /\ pc'[v] \notin DisposalSteps /\ pc'[v] # "status"
      <4>1. CASE v = w
        BY <1>1, <4>1 DEF Quotas, Disposes, DisposalSteps, OnItsWay, PeriodSteps
      <4>2. CASE v # w
        BY <1>1, <2>3, <4>2 DEF Moved, Quotas, Disposes, OnItsWay
      <4> QED
        BY <4>1, <4>2
    <3> QED
      BY <3>1 DEF Retires, DisposalSteps
  <2>5. \A v \in Clerks : pc[v] # "dispose"
    BY <1>1, <2>3 DEF DisposalSteps
  <2>6. ASSUME NEW a \in Assets
        PROVE  Retired(a)'
    <3>1. DisposalOf(a)' = DisposalOf(a) /\ (\A e \in DisposalOf(a) : entries'[e].amounts = entries[e].amounts)
      BY <1>1, NoneMade
    <3>2. DisposalOf(a) # {} => assets[a] = "DISPOSED"
      BY <2>2, <2>5 DEF Retired
    <3>3. assets[a] = "DISPOSED" => ~ (job[w].amounts[a] > 0)
      BY <1>2, <2>2 DEF Retires
    <3>4. DisposalOf(a) # {} => accumulated'[a] = accumulated[a]
      BY <1>3, <3>2, <3>3
    <3> QED
      BY <1>1, <2>2, <3>1, <3>2, <3>4 DEF Retired
  <2> QED
    BY <2>4, <2>6
<1> QED
  BY <1>4, <1>5, <1>6 DEF AssetInv

\* The entry of a disposal is the first of its asset, and has what was accumulated of it.
LEMMA PostDisposalKeeps ==
  ASSUME TypeOK, LocalsOK, AssetInv, NEW w \in Clerks, AssetFrame, PostDisposal(w)
  PROVE  AssetInv'
<1>1. /\ Moved(w) /\ UNCHANGED <<duties, assets, accumulated, runs>> /\ pc[w] = "retire"
      /\ GoesOn(w, "dispose", job[w])
  BY PostDisposalMoves DEF Sound, assetTables, AssetFrame
<1>2. PICK k \in Assets : k = job[w].asset
  BY PostDisposalMoves
<1>3. PICK e \in Entries :
        /\ entries[e].status = "none" /\ entries[e].source = "manual"
        /\ entries'[e].status = "POSTED" /\ entries'[e].source = "disposal"
        /\ entries'[e].asset = k /\ entries'[e].amounts = job[w].amounts
        /\ \A f \in Entries \ {e} : entries'[f] = entries[f]
  BY <1>2, PostDisposalMoves
<1>4. /\ DisposalOf(k)' = DisposalOf(k) \cup {e}
      /\ \A a \in Assets : a # k => DisposalOf(a)' = DisposalOf(a)
      /\ \A m \in Months : DepreciationOf(m)' = DepreciationOf(m)
      /\ \A a \in Assets : \A f \in DisposalOf(a) : entries'[f].amounts = entries[f].amounts
  <2>1. DisposalOf(k)' = DisposalOf(k) \cup {e}
    BY <1>3 DEF DisposalOf
  <2>2. \A a \in Assets : a # k => DisposalOf(a)' = DisposalOf(a)
    BY <1>3 DEF DisposalOf
  <2>3. \A m \in Months : DepreciationOf(m)' = DepreciationOf(m)
    BY <1>3 DEF DepreciationOf
  <2>4. \A a \in Assets : \A f \in DisposalOf(a) : entries'[f].amounts = entries[f].amounts
    BY <1>3 DEF DisposalOf
  <2> QED
    BY <2>1, <2>2, <2>3, <2>4
<1>5. QuotasOK' /\ RunsOK'
  <2>1. ~ Quotas(w)' /\ pc'[w] # "record" /\ pc[w] # "record" /\ pc'[w] # "list"
    BY <1>1 DEF GoesOn, Quotas
  <2> QED
    BY <1>1, <1>4, <2>1, QuotasKept, RunsKept DEF AssetInv
<1>6. DisposalsOK'
  <2> SUFFICES ASSUME DisposalCase'
               PROVE  (\A a \in Assets : Retired(a)') /\ (\A v \in Clerks : Retires(v)')
    BY DisposalPartsNext
  <2>1. DisposalCase
    BY <1>1 DEF DisposalCase, OneAt, Spared
  <2>2. (\A a \in Assets : Retired(a)) /\ Retires(w)
    BY <2>1, DisposalParts DEF AssetInv
  <2>3. Disposes(w) /\ "dispose" \in duties[w]
    BY <1>1, AssetDuties DEF Disposes, DisposalSteps
  <2>4. /\ Faults[w] = {}
        /\ \A v \in Clerks \ {w} : ~ Quotas(v) /\ ~ Disposes(v) /\ pc[v] \notin DisposalSteps /\ pc[v] # "status"
    BY <2>1, <2>3, OneDesk
  <2>5. pc'[w] = "dispose" /\ job'[w] = job[w]
    BY <1>1, <2>4 DEF GoesOn
  <2>6. ASSUME NEW v \in Clerks
        PROVE  Retires(v)'
    <3>1. CASE v = w
      BY <1>1, <2>2, <2>3, <2>5, <3>1 DEF Retires, Quotas
    <3>2. CASE v # w
      <4>1. ~ Quotas(v)' /\ ~ Disposes(v)' /\ pc'[v] \notin DisposalSteps /\ pc'[v] # "status"
        BY <1>1, <2>4, <3>2 DEF Moved, Quotas, Disposes, OnItsWay
      <4> QED
        BY <4>1 DEF Retires, DisposalSteps
    <3> QED
      BY <3>1, <3>2
  <2>7. \A v \in Clerks : pc[v] # "dispose"
    BY <1>1, <2>4 DEF DisposalSteps
  <2>8. Retired(k)'
    <3>1. assets[k] # "DISPOSED" /\ job[w].amounts[k] = accumulated[k]
      BY <1>1, <1>2, <2>2, <2>3 DEF Retires
    <3>2. DisposalOf(k) = {}
      BY <2>2, <2>7, <3>1 DEF Retired
    <3>3. DisposalOf(k)' = {e}
      BY <1>4, <3>2
    <3> QED
      BY <1>1, <1>2, <1>3, <2>5, <3>1, <3>3 DEF Retired
  <2>9. ASSUME NEW a \in Assets, a # k
        PROVE  Retired(a)'
    BY <1>1, <1>4, <2>2, <2>7, <2>9 DEF Retired
  <2> QED
    BY <2>6, <2>8, <2>9
<1> QED
  BY <1>5, <1>6 DEF AssetInv

LEMMA SetDisposedKeeps ==
  ASSUME TypeOK, LocalsOK, AssetInv, NEW w \in Clerks, AssetFrame, SetDisposed(w)
  PROVE  AssetInv'
<1>1. /\ Moved(w) /\ UNCHANGED <<duties, accumulated, runs, entries>> /\ pc[w] = "dispose"
      /\ pc'[w] = "idle" /\ job[w].asset \in Assets
      /\ assets' = [assets EXCEPT ![job[w].asset] = "DISPOSED"]
  BY SetDisposedMoves DEF Sound, AssetFrame
<1>2. QuotasOK' /\ RunsOK'
  BY <1>1, NoneMade, QuotasKept, RunsKept DEF AssetInv, Quotas
<1>3. DisposalsOK'
  <2> SUFFICES ASSUME DisposalCase'
               PROVE  (\A a \in Assets : Retired(a)') /\ (\A v \in Clerks : Retires(v)')
    BY DisposalPartsNext
  <2>1. DisposalCase
    BY <1>1 DEF DisposalCase, OneAt, Spared
  <2>2. \A a \in Assets : Retired(a)
    BY <2>1, DisposalParts DEF AssetInv
  <2>3. "dispose" \in duties[w]
    BY <1>1, AssetDuties DEF DisposalSteps
  <2>4. \A v \in Clerks \ {w} : ~ Quotas(v) /\ ~ Disposes(v) /\ pc[v] \notin DisposalSteps /\ pc[v] # "status"
    BY <2>1, <2>3, OneDesk
  <2>5. ASSUME NEW v \in Clerks
        PROVE  Retires(v)'
    <3>1. ~ Quotas(v)' /\ ~ Disposes(v)' /\ pc'[v] \notin DisposalSteps /\ pc'[v] # "status"
      <4>1. CASE v = w
        BY <1>1, <4>1 DEF Quotas, Disposes, DisposalSteps, OnItsWay, PeriodSteps
      <4>2. CASE v # w
        BY <1>1, <2>4, <4>2 DEF Moved, Quotas, Disposes, OnItsWay
      <4> QED
        BY <4>1, <4>2
    <3> QED
      BY <3>1 DEF Retires, DisposalSteps
  <2>6. ASSUME NEW a \in Assets
        PROVE  Retired(a)'
    <3>1. DisposalOf(a)' = DisposalOf(a) /\ (\A e \in DisposalOf(a) : entries'[e].amounts = entries[e].amounts)
      BY <1>1, NoneMade
    <3>2. DisposalOf(a) # {} => assets[a] = "DISPOSED" \/ a = job[w].asset
      BY <2>2, <2>4 DEF Retired, DisposalSteps
    <3>3. DisposalOf(a) # {} => assets'[a] = "DISPOSED"
      BY <1>1, <3>2 DEF TypeOK
    <3> QED
      BY <1>1, <2>2, <3>1, <3>3 DEF Retired
  <2> QED
    BY <2>5, <2>6
<1> QED
  BY <1>2, <1>3 DEF AssetInv

\* All steps of the desk of assets.
LEMMA AssetsStep ==
  ASSUME TypeOK, LocalsOK, AssetInv, NEW w \in Clerks, AssetFrame, AssetStep(w)
  PROVE  /\ Sound(w) /\ AssetInv'
         /\ pc[w] \in {"idle"} \cup RunSteps \cup DisposalSteps
         /\ pc'[w] \in {"idle", "period"} \cup RunSteps \cup DisposalSteps
<1> DEFINE Done == /\ Sound(w) /\ AssetInv'
                   /\ pc[w] \in {"idle"} \cup RunSteps \cup DisposalSteps
                   /\ pc'[w] \in {"idle", "period"} \cup RunSteps \cup DisposalSteps
<1>1. CASE \E a \in Assets : handleCreateFixedAsset(w, a)
  <2>1. PICK a \in Assets : handleCreateFixedAsset(w, a)
    BY <1>1
  <2>2. Sound(w) /\ pc[w] = "idle" /\ pc'[w] = "idle"
    BY <2>1, RegisterMoves
  <2> QED
    BY <2>1, <2>2, RegisterKeeps
<1>2. CASE \/ \E m \in Months : handleRunDepreciation(w, m)
           \/ \E a \in Assets, m \in Months : handleDisposeFixedAsset(w, a, m)
  <2>1. Sound(w) /\ pc[w] = "idle" /\ pc'[w] = "period"
    BY <1>2, RunMoves, DisposeMoves
  <2> QED
    BY <1>2, <2>1, BeginKeeps
<1>3. CASE HasRunForPeriod(w) \/ ListAssets(w)
  <2>1. Sound(w) /\ pc[w] \in {"has run", "list"} /\ pc'[w] \in {"idle", "list", "quota"}
    BY <1>3, HasRunMoves, ListMoves
  <2>2. AssetInv'
    BY <1>3, HasRunKeeps, ListKeeps
  <2> QED
    BY <2>1, <2>2 DEF RunSteps
<1>4. CASE NextAsset(w) \/ SetFullyDepreciated(w)
  <2>1. Sound(w) /\ pc[w] \in {"quota", "status"} /\ pc'[w] \in {"quota", "status"}
    BY <1>4, NextAssetMoves, StatusMoves
  <2>2. AssetInv'
    BY <1>4, NextAssetKeeps, StatusKeeps
  <2> QED
    BY <2>1, <2>2 DEF RunSteps
<1>5. CASE EndOfList(w) \/ PostDepreciation(w)
  <2>1. Sound(w) /\ pc[w] \in {"quota", "post"} /\ pc'[w] \in {"idle", "post", "record"}
    BY <1>5, EndOfListMoves, PostDepreciationMoves DEF GoesOn
  <2>2. AssetInv'
    BY <1>5, EndOfListKeeps, PostDepreciationKeeps
  <2> QED
    BY <2>1, <2>2 DEF RunSteps
<1>6. CASE CreateRun(w) \/ GetAccumulated(w)
  <2>1. Sound(w) /\ pc[w] \in {"record", "accumulated"} /\ pc'[w] \in {"idle", "retire"}
    BY <1>6, CreateRunMoves, GetAccumulatedMoves
  <2>2. AssetInv'
    BY <1>6, CreateRunKeeps, GetAccumulatedKeeps
  <2> QED
    BY <2>1, <2>2 DEF RunSteps, DisposalSteps
<1>7. CASE PostDisposal(w) \/ SetDisposed(w)
  <2>1. Sound(w) /\ pc[w] \in {"retire", "dispose"} /\ pc'[w] \in {"idle", "dispose"}
    BY <1>7, PostDisposalMoves, SetDisposedMoves DEF GoesOn
  <2>2. AssetInv'
    BY <1>7, PostDisposalKeeps, SetDisposedKeeps
  <2> QED
    BY <2>1, <2>2 DEF DisposalSteps
<1> HIDE DEF Done
<1> QED
  BY <1>1, <1>2, <1>3, <1>4, <1>5, <1>6, <1>7 DEF AssetStep

-----------------------------------------------------------------------------
(* The invariant of marks.                                                 *)

MarkCase == OneAt(Marking) /\ Spared(Marking) /\ (\A w \in Clerks : "remark" \notin duties[w])

Paired(e) ==
  marks[e] \in Entries =>
    marks[marks[e]] = e \/ (\E w \in Clerks : pc[w] = "mark other" /\ job[w].other = marks[e])

Marks(w) ==
  /\ pc[w] \in {"mark", "mark other"} =>
       /\ job[w].entry # job[w].other
       /\ job[w].other \in Entries => marks[job[w].other] = "none"
  /\ pc[w] = "mark" => marks[job[w].entry] = "none"
  /\ pc[w] = "mark other" =>
       /\ marks[job[w].entry] = job[w].other
       /\ \A e \in Entries : marks[e] = job[w].other => e = job[w].entry

\* MarksOK by its parts, before and after a step.
LEMMA MarkParts ==
  MarksOK <=> (MarkCase => (\A e \in Entries : Paired(e)) /\ (\A w \in Clerks : Marks(w)))
BY DEF MarksOK, MarkCase, Paired, Marks

LEMMA MarkPartsNext ==
  MarksOK' <=> (MarkCase' => (\A e \in Entries : Paired(e)') /\ (\A w \in Clerks : Marks(w)'))
BY DEF MarksOK, MarkCase, Paired, Marks

\* Where one goroutine marks, no other is at a step of it, and none fails.
LEMMA OneMarker ==
  ASSUME TypeOK, LocalsOK, MarkCase, NEW w \in Clerks, Marking \cap duties[w] # {}
  PROVE  /\ Faults[w] = {}
         /\ \A v \in Clerks \ {w} : pc[v] \notin {"mark", "mark other"}
<1>1. Faults[w] = {}
  BY DEF MarkCase, Spared
<1>2. ASSUME NEW v \in Clerks \ {w}
      PROVE  pc[v] \notin {"mark", "mark other"}
  <2>1. Marking \cap duties[v] = {}
    BY DEF MarkCase, OneAt
  <2> QED
    BY <2>1, MarkFacts DEF Marking
<1> QED
  BY <1>1, <1>2

\* A step of another desk.
MarksAway(w) ==
  /\ UNCHANGED marks /\ pc'[w] \notin {"mark", "mark other"}
  /\ pc[w] = "mark other" => Faults[w] # {}

\* A step that leaves the marks as they were.
LEMMA MarksKept ==
  ASSUME TypeOK, LocalsOK, MarksOK, NEW w \in Clerks, Moved(w), UNCHANGED duties, MarksAway(w)
  PROVE  MarksOK'
<1> SUFFICES ASSUME MarkCase'
             PROVE  (\A e \in Entries : Paired(e)') /\ (\A v \in Clerks : Marks(v)')
  BY MarkPartsNext
<1>1. MarkCase
  BY DEF MarkCase, OneAt, Spared
<1>2. (\A e \in Entries : Paired(e)) /\ (\A v \in Clerks : Marks(v))
  BY <1>1, MarkParts
<1>3. pc[w] # "mark other"
  <2>1. pc[w] = "mark other" => Marking \cap duties[w] # {}
    BY MarkFacts DEF Marking
  <2> QED
    BY <1>1, <2>1, OneMarker DEF MarksAway
<1>4. \A e \in Entries : Paired(e)'
  BY <1>2, <1>3 DEF Paired, MarksAway, Moved
<1>5. ASSUME NEW v \in Clerks
      PROVE  Marks(v)'
  <2>1. CASE v = w
    BY <2>1 DEF Marks, MarksAway
  <2>2. CASE v # w
    BY <1>2, <2>2 DEF Marks, MarksAway, Moved
  <2> QED
    BY <2>1, <2>2
<1> QED
  BY <1>4, <1>5

LEMMA BeginMarkKeeps ==
  ASSUME TypeOK, LocalsOK, MarksOK, NEW w \in Clerks, NEW e \in Entries, NEW f \in Entries \cup {NoEntry},
         handleMarkReconciled(w, e, f), BankFrame
  PROVE  MarksOK'
<1>1. /\ Moved(w) /\ UNCHANGED <<duties, marks>> /\ pc[w] = "idle" /\ pc'[w] = "mark"
      /\ job'[w].entry = e /\ job'[w].other = f
      /\ \/ "remark" \in duties[w]
         \/ "mark" \in duties[w] /\ e # f /\ marks[e] = "none" /\ (f \in Entries => marks[f] = "none")
  BY BeginMarkMoves DEF Sound, BankFrame
<1> SUFFICES ASSUME MarkCase'
             PROVE  (\A x \in Entries : Paired(x)') /\ (\A v \in Clerks : Marks(v)')
  BY MarkPartsNext
<1>2. MarkCase
  BY <1>1 DEF MarkCase, OneAt, Spared
<1>3. (\A x \in Entries : Paired(x)) /\ (\A v \in Clerks : Marks(v))
  BY <1>2, MarkParts
<1>4. \A x \in Entries : Paired(x)'
  <2>1. ASSUME NEW v \in Clerks, pc[v] = "mark other"
        PROVE  pc'[v] = pc[v] /\ job'[v] = job[v]
    BY <1>1, <2>1 DEF Moved
  <2>2. UNCHANGED marks
    BY <1>1
  <2>3. ASSUME NEW x \in Entries, marks[x] \in Entries, marks[marks[x]] # x
        PROVE  \E v \in Clerks : pc'[v] = "mark other" /\ job'[v].other = marks[x]
    <3>1. PICK v \in Clerks : pc[v] = "mark other" /\ job[v].other = marks[x]
      BY <1>3, <2>3 DEF Paired
    <3> QED
      BY <2>1, <3>1
  <2> QED
    BY <2>2, <2>3 DEF Paired
<1>5. ASSUME NEW v \in Clerks
      PROVE  Marks(v)'
  <2>1. CASE v = w
    BY <1>1, <1>2, <2>1 DEF Marks, MarkCase
  <2>2. CASE v # w
    BY <1>1, <1>3, <2>2 DEF Marks, Moved
  <2> QED
    BY <2>1, <2>2
<1> QED
  BY <1>4, <1>5

LEMMA MarkOneKeeps ==
  ASSUME TypeOK, LocalsOK, MarksOK, NEW w \in Clerks, MarkOne(w), BankFrame
  PROVE  MarksOK'
<1>1. /\ Moved(w) /\ UNCHANGED duties /\ pc[w] = "mark"
      /\ marks' = [marks EXCEPT ![job[w].entry] = job[w].other]
      /\ \/ pc'[w] = "idle" /\ (job[w].other = NoEntry \/ Faults[w] # {})
         \/ pc'[w] = "mark other" /\ job'[w] = job[w] /\ job[w].other # NoEntry
  BY MarkOneMoves DEF Sound, BankFrame
<1> SUFFICES ASSUME MarkCase'
             PROVE  (\A x \in Entries : Paired(x)') /\ (\A v \in Clerks : Marks(v)')
  BY MarkPartsNext
<1>2. MarkCase
  BY <1>1 DEF MarkCase, OneAt, Spared
<1>3. (\A x \in Entries : Paired(x)) /\ (\A v \in Clerks : Marks(v))
  BY <1>2, MarkParts
<1> DEFINE e == job[w].entry
           o == job[w].other
<1>4. e \in Entries /\ o \in Entries \cup {NoEntry} /\ Marking \cap duties[w] # {}
  BY <1>1, MarkFacts DEF Marking
<1>5. Faults[w] = {} /\ \A v \in Clerks \ {w} : pc[v] \notin {"mark", "mark other"}
  BY <1>2, <1>4, OneMarker
<1>6. e # o /\ marks[e] = "none" /\ (o \in Entries => marks[o] = "none")
  BY <1>1, <1>3 DEF Marks
<1>7. /\ marks'[e] = o /\ \A x \in Entries \ {e} : marks'[x] = marks[x]
      /\ "none" \notin Entries /\ NoEntry \notin Entries
  BY <1>1, <1>4, BackOfficeAssumption DEF TypeOK
<1>8. ASSUME NEW x \in Entries, marks[x] \in Entries
      PROVE  marks[marks[x]] = x
  BY <1>1, <1>3, <1>5, <1>8 DEF Paired
<1>9. \A v \in Clerks \ {w} : pc'[v] \notin {"mark", "mark other"}
  BY <1>1, <1>5 DEF Moved
<1>10. o \in Entries <=> pc'[w] = "mark other" /\ job'[w] = job[w]
  BY <1>1, <1>4, <1>5, <1>7
<1>11. ASSUME NEW x \in Entries
       PROVE  Paired(x)'
  <2>1. CASE x = e
    BY <1>7, <1>10, <2>1 DEF Paired
  <2>2. CASE x # e /\ marks'[x] \in Entries
    <3>1. marks[x] \in Entries /\ marks'[x] = marks[x] /\ marks[marks[x]] = x
      BY <1>7, <1>8, <2>2
    <3>2. marks[x] # e
      BY <1>6, <1>7, <3>1
    <3>3. marks'[marks'[x]] = x
      BY <1>7, <3>1, <3>2
    <3> QED
      BY <3>3 DEF Paired
  <2>3. CASE marks'[x] \notin Entries
    BY <2>3 DEF Paired
  <2> QED
    BY <2>1, <2>2, <2>3
<1>12. Marks(w)'
  <2>1. CASE o \in Entries
    <3>1. marks'[o] = "none" /\ marks'[e] = o
      BY <1>6, <1>7, <2>1
    <3>2. ASSUME NEW x \in Entries, marks'[x] = o
          PROVE  x = e
      <4>1. SUFFICES ASSUME x # e PROVE FALSE
        OBVIOUS
      <4>2. marks[x] = o /\ marks[o] = x
        BY <1>7, <1>8, <2>1, <3>2, <4>1
      <4> QED
        BY <1>6, <1>7, <2>1, <4>2
    <3> QED
      BY <1>6, <1>10, <2>1, <3>1, <3>2 DEF Marks
  <2>2. CASE o \notin Entries
    BY <1>1, <1>4, <1>5, <2>2 DEF Marks
  <2> QED
    BY <2>1, <2>2
<1> QED
  BY <1>9, <1>11, <1>12 DEF Marks

LEMMA MarkOtherKeeps ==
  ASSUME TypeOK, LocalsOK, MarksOK, NEW w \in Clerks, MarkOther(w), BankFrame
  PROVE  MarksOK'
<1>1. /\ Moved(w) /\ UNCHANGED duties /\ pc[w] = "mark other" /\ pc'[w] = "idle"
      /\ marks' = [marks EXCEPT ![job[w].other] = job[w].entry]
  BY MarkOtherMoves DEF Sound, BankFrame
<1> SUFFICES ASSUME MarkCase'
             PROVE  (\A x \in Entries : Paired(x)') /\ (\A v \in Clerks : Marks(v)')
  BY MarkPartsNext
<1>2. MarkCase
  BY <1>1 DEF MarkCase, OneAt, Spared
<1>3. (\A x \in Entries : Paired(x)) /\ (\A v \in Clerks : Marks(v))
  BY <1>2, MarkParts
<1> DEFINE e == job[w].entry
           o == job[w].other
<1>4. e \in Entries /\ o \in Entries /\ Marking \cap duties[w] # {}
  BY <1>1, MarkFacts DEF Marking
<1>5. \A v \in Clerks \ {w} : pc[v] \notin {"mark", "mark other"}
  BY <1>2, <1>4, OneMarker
<1>6. e # o /\ marks[e] = o /\ \A x \in Entries : marks[x] = o => x = e
  BY <1>1, <1>3 DEF Marks
<1>7. marks'[o] = e /\ \A x \in Entries \ {o} : marks'[x] = marks[x]
  BY <1>1, <1>4 DEF TypeOK
<1>8. \A v \in Clerks : pc'[v] \notin {"mark", "mark other"}
  BY <1>1, <1>5 DEF Moved
<1>9. ASSUME NEW x \in Entries
      PROVE  Paired(x)'
  <2>1. CASE x = o
    BY <1>4, <1>6, <1>7, <2>1 DEF Paired
  <2>2. CASE x = e
    BY <1>4, <1>6, <1>7, <2>2 DEF Paired
  <2>3. CASE x # o /\ x # e /\ marks'[x] \in Entries
    <3>1. marks'[x] = marks[x] /\ marks[x] \in Entries /\ marks[x] # o
      BY <1>6, <1>7, <2>3
    <3>2. marks[marks[x]] = x
      BY <1>3, <1>5, <1>6, <3>1 DEF Paired
    <3>3. marks'[marks'[x]] = x
      BY <1>7, <3>1, <3>2
    <3> QED
      BY <3>3 DEF Paired
  <2>4. CASE marks'[x] \notin Entries
    BY <2>4 DEF Paired
  <2> QED
    BY <2>1, <2>2, <2>3, <2>4
<1> QED
  BY <1>8, <1>9 DEF Marks

LEMMA UnmarkKeeps ==
  ASSUME TypeOK, LocalsOK, MarksOK, NEW w \in Clerks, NEW e \in Entries, handleUnmarkReconciled(w, e), BankFrame
  PROVE  MarksOK'
<1>1. /\ UNCHANGED <<duties, pc, job>> /\ pc[w] = "idle" /\ "unmark" \in duties[w]
      /\ marks' = [f \in Entries |-> IF f = e \/ marks[f] = e THEN "none" ELSE marks[f]]
  BY UnmarkMoves DEF BankFrame
<1> SUFFICES ASSUME MarkCase'
             PROVE  (\A x \in Entries : Paired(x)') /\ (\A v \in Clerks : Marks(v)')
  BY MarkPartsNext
<1>2. MarkCase
  BY <1>1 DEF MarkCase, OneAt, Spared
<1>3. \A x \in Entries : Paired(x)
  BY <1>2, MarkParts
<1>4. \A v \in Clerks : pc[v] \notin {"mark", "mark other"}
  <2>1. Marking \cap duties[w] # {}
    BY <1>1 DEF Marking
  <2> QED
    BY <1>1, <1>2, <2>1, OneMarker
<1>5. "none" \notin Entries
  BY BackOfficeAssumption
<1>6. ASSUME NEW x \in Entries, marks'[x] \in Entries
      PROVE  marks'[marks'[x]] = x
  <2>1. x # e /\ marks[x] # e /\ marks'[x] = marks[x] /\ marks[x] \in Entries
    BY <1>1, <1>5, <1>6
  <2>2. marks[marks[x]] = x
    BY <1>3, <1>4, <2>1 DEF Paired
  <2> QED
    BY <1>1, <2>1, <2>2
<1>7. \A x \in Entries : Paired(x)'
  BY <1>6 DEF Paired
<1> QED
  BY <1>1, <1>4, <1>7 DEF Marks

\* All steps of the desk of the bank.
LEMMA MarksStep ==
  ASSUME TypeOK, LocalsOK, MarksOK, NEW w \in Clerks, BankStep(w), BankFrame
  PROVE  Sound(w) /\ MarksOK' /\ pc[w] \in BankSteps /\ pc'[w] \in BankSteps
<1>1. CASE \/ \E l \in Statement : \/ handleAddStatementLine(w, l)
                                    \/ \E e \in Entries : handleReconcile(w, l, e)
           \/ Reconcile(w)
  <2>1. Sound(w) /\ UNCHANGED marks /\ pc[w] \in {"idle", "reconcile"} /\ pc'[w] \in {"idle", "reconcile"}
    BY <1>1, StatementMoves
  <2> QED
    BY <2>1, MarksKept DEF Sound, MarksAway, BankFrame, BankSteps
<1>2. CASE \E e \in Entries, f \in Entries \cup {NoEntry} : handleMarkReconciled(w, e, f)
  <2>1. PICK e \in Entries, f \in Entries \cup {NoEntry} : handleMarkReconciled(w, e, f)
    BY <1>2
  <2> QED
    BY <2>1, BeginMarkMoves, BeginMarkKeeps DEF BankSteps
<1>3. CASE \E e \in Entries : handleUnmarkReconciled(w, e)
  <2>1. PICK e \in Entries : handleUnmarkReconciled(w, e)
    BY <1>3
  <2> QED
    BY <2>1, UnmarkMoves, UnmarkKeeps DEF BankSteps
<1>4. CASE MarkOne(w)
  BY <1>4, MarkOneMoves, MarkOneKeeps DEF BankSteps
<1>5. CASE MarkOther(w)
  BY <1>5, MarkOtherMoves, MarkOtherKeeps DEF BankSteps
<1> QED
  BY <1>1, <1>2, <1>3, <1>4, <1>5 DEF BankStep

-----------------------------------------------------------------------------
(* The invariants of tax declarations.                                     *)

Ds(tax)   == {d \in declarations : d.tax = tax}
Last(tax) == {d \in Ds(tax) : \A e \in Ds(tax) : e.period <= d.period}

CreditCase(tax) == (\A w \in Clerks : "declare late" \notin duties[w]) /\ OneAt({tax})

Balanced(tax) == Total("net", Ds(tax)) = Total("pay", Ds(tax)) - Total("carry", Last(tax))

Declares(w, tax) ==
  pc[w] \in TaxSteps /\ job[w].tax = tax =>
    /\ \A d \in Ds(tax) : d.period < job[w].period
    /\ pc[w] = "declare" => job[w].previous = Total("carry", Last(tax))

\* CreditsOK by its parts, before and after a step.
LEMMA CreditParts ==
  CreditsOK <=> \A tax \in {"iva", "ica"} :
                  CreditCase(tax) => Balanced(tax) /\ (\A w \in Clerks : Declares(w, tax))
BY DEF CreditsOK, CreditCase, Balanced, Declares, Ds, Last

LEMMA CreditPartsNext ==
  CreditsOK' <=> \A tax \in {"iva", "ica"} :
                  CreditCase(tax)' => Balanced(tax)' /\ (\A w \in Clerks : Declares(w, tax)')
BY DEF CreditsOK, CreditCase, Balanced, Declares, Ds, Last

LEMMA DsType ==
  ASSUME TypeOK, NEW tax
  PROVE  /\ Ds(tax) \subseteq DeclarationRows /\ IsFiniteSet(Ds(tax))
         /\ Last(tax) \subseteq DeclarationRows /\ IsFiniteSet(Last(tax))
<1>1. Ds(tax) \subseteq declarations /\ Last(tax) \subseteq declarations
  BY DEF Ds, Last
<1> QED
  BY <1>1, FS_Subset DEF TypeOK

\* Where the declarations stay, so does what follows from them.
LEMMA CreditsKept ==
  ASSUME CreditsOK, NEW w \in Clerks, Moved(w), UNCHANGED <<duties, declarations>>,
         pc'[w] \notin TaxSteps
  PROVE  CreditsOK' /\ (OneDeclaration => OneDeclaration')
<1>1. \A tax : Ds(tax)' = Ds(tax) /\ Last(tax)' = Last(tax)
  BY DEF Ds, Last
<1>2. ASSUME NEW tax \in {"iva", "ica"}, CreditCase(tax)'
      PROVE  Balanced(tax)' /\ (\A v \in Clerks : Declares(v, tax)')
  <2>1. CreditCase(tax)
    BY <1>2 DEF CreditCase, OneAt
  <2>2. Balanced(tax) /\ (\A v \in Clerks : Declares(v, tax))
    BY <2>1, CreditParts
  <2>3. Balanced(tax)'
    BY <1>1, <2>2 DEF Balanced
  <2>4. ASSUME NEW v \in Clerks
        PROVE  Declares(v, tax)'
    <3>1. CASE v = w
      BY <3>1 DEF Declares
    <3>2. CASE v # w
      BY <1>1, <2>2, <3>2 DEF Declares, Moved
    <3> QED
      BY <3>1, <3>2
  <2> QED
    BY <2>3, <2>4
<1> QED
  BY <1>2, CreditPartsNext DEF OneDeclaration

LEMMA BeginTaxKeeps ==
  ASSUME TypeOK, LocalsOK, CreditsOK, NEW w \in Clerks, TaxFrame, NEW p \in Bimesters, NEW m \in Movements,
         \/ handleGenerateIVA(w, p, m) \/ handleGenerateICA(w, p, m)
         \/ \E t \in Tariffs : handleGenerateIncomeTax(w, p, m, t.rate)
  PROVE  CreditsOK'
<1>1. /\ Moved(w) /\ UNCHANGED <<duties, declarations>> /\ pc'[w] \in TaxSteps
      /\ job'[w].period = p /\ After(w, job'[w].tax, p)
      /\ pc'[w] = "declare" => job'[w].tax = "income"
  BY BeginTaxMoves DEF Sound, TaxFrame, taxTables
<1>2. \A tax : Ds(tax)' = Ds(tax) /\ Last(tax)' = Last(tax)
  BY <1>1 DEF Ds, Last
<1>3. ASSUME NEW tax \in {"iva", "ica"}, CreditCase(tax)'
      PROVE  Balanced(tax)' /\ (\A v \in Clerks : Declares(v, tax)')
  <2>1. CreditCase(tax)
    BY <1>1, <1>3 DEF CreditCase, OneAt
  <2>2. Balanced(tax) /\ (\A v \in Clerks : Declares(v, tax))
    BY <2>1, CreditParts
  <2>3. Balanced(tax)'
    BY <1>2, <2>2 DEF Balanced
  <2>4. ASSUME NEW v \in Clerks
        PROVE  Declares(v, tax)'
    <3>1. CASE v = w
      <4>1. job'[w].tax = tax => \A d \in Ds(tax)' : d.period < job'[w].period
        BY <1>1, <1>2, <2>1 DEF After, Ds, CreditCase
      <4>2. job'[w].tax = tax => pc'[w] # "declare"
        BY <1>1, <1>3
      <4> QED
        BY <3>1, <4>1, <4>2 DEF Declares
    <3>2. CASE v # w
      BY <1>1, <1>2, <2>2, <3>2 DEF Declares, Moved
    <3> QED
      BY <3>1, <3>2
  <2> QED
    BY <2>3, <2>4
<1> QED
  BY <1>3, CreditPartsNext

\* The last declaration before a period that comes after all is the last.
LEMMA CarryKeeps ==
  ASSUME TypeOK, LocalsOK, CreditsOK, NEW w \in Clerks, TaxFrame, GetLastCarryForward(w)
  PROVE  CreditsOK'
<1>1. /\ Moved(w) /\ UNCHANGED <<duties, declarations>> /\ pc[w] = "carry" /\ pc'[w] = "declare"
      /\ job'[w].tax = job[w].tax /\ job'[w].period = job[w].period
      /\ job'[w].previous = Total("carry", LastCarryForward(job[w].tax, job[w].period))
  BY CarryMoves DEF Sound, TaxFrame, taxTables
<1>2. \A tax : Ds(tax)' = Ds(tax) /\ Last(tax)' = Last(tax)
  BY <1>1 DEF Ds, Last
<1>3. ASSUME NEW tax \in {"iva", "ica"}, CreditCase(tax)'
      PROVE  Balanced(tax)' /\ (\A v \in Clerks : Declares(v, tax)')
  <2>1. CreditCase(tax)
    BY <1>1, <1>3 DEF CreditCase, OneAt
  <2>2. Balanced(tax) /\ (\A v \in Clerks : Declares(v, tax))
    BY <2>1, CreditParts
  <2>3. Balanced(tax)'
    BY <1>2, <2>2 DEF Balanced
  <2>4. ASSUME NEW v \in Clerks
        PROVE  Declares(v, tax)'
    <3>1. CASE v = w /\ job[w].tax = tax
      <4>1. \A d \in Ds(tax) : d.period < job[w].period
        BY <1>1, <2>2, <3>1 DEF Declares, TaxSteps
      <4>2. LastCarryForward(tax, job[w].period) = Last(tax)
        BY <4>1 DEF LastCarryForward, Last, Ds, Declared
      <4> QED
        BY <1>1, <1>2, <3>1, <4>1, <4>2 DEF Declares
    <3>2. CASE v = w /\ job[w].tax # tax
      BY <1>1, <3>2 DEF Declares
    <3>3. CASE v # w
      BY <1>1, <1>2, <2>2, <3>3 DEF Declares, Moved
    <3> QED
      BY <3>1, <3>2, <3>3
  <2> QED
    BY <2>3, <2>4
<1> QED
  BY <1>3, CreditPartsNext

\* What is over is paid and what is short is carried forward, with the credit used up.
LEMMA DeclareKeeps ==
  ASSUME TypeOK, LocalsOK, OneDeclaration, CreditsOK, NEW w \in Clerks, TaxFrame, CreateDeclaration(w)
  PROVE  OneDeclaration' /\ CreditsOK'
<1>1. /\ Moved(w) /\ UNCHANGED duties /\ pc[w] = "declare" /\ pc'[w] = "idle"
      /\ \/ /\ \E d \in declarations : d.tax = job[w].tax /\ d.period = job[w].period
            /\ declarations' = declarations
         \/ /\ \A d \in declarations : ~ (d.tax = job[w].tax /\ d.period = job[w].period)
            /\ declarations' = declarations \cup {Declaration(job[w])}
  BY DeclareMoves DEF Sound, TaxFrame
<1>2. CASE declarations' = declarations
  BY <1>1, <1>2, CreditsKept DEF TaxSteps
<1>3. CASE /\ \A d \in declarations : ~ (d.tax = job[w].tax /\ d.period = job[w].period)
           /\ declarations' = declarations \cup {Declaration(job[w])}
  <2>1. job[w] \in TaxJobs /\ job[w].tax \in duties[w] /\ job[w].period \in Nat
        /\ job[w].net \in Int /\ job[w].previous \in Nat
    BY <1>1, TaxFacts DEF TaxSteps
  <2> DEFINE D == Declaration(job[w])
  <2>2. /\ D \in DeclarationRows /\ D.tax = job[w].tax /\ D.period = job[w].period /\ D.net = job[w].net
        /\ D.pay - D.carry = job[w].net - job[w].previous
        /\ D.net \in Int /\ D.pay \in Nat /\ D.carry \in Nat
    BY <2>1, DeclarationType DEF DeclarationRows
  <2> HIDE DEF D
  <2>3. declarations' = declarations \cup {D}
    BY <1>3 DEF D
  <2>4. OneDeclaration'
    BY <1>3, <2>2, <2>3 DEF OneDeclaration
  <2>5. ASSUME NEW tax \in {"iva", "ica"}, CreditCase(tax)'
        PROVE  Balanced(tax)' /\ (\A v \in Clerks : Declares(v, tax)')
    <3>1. CreditCase(tax)
      BY <1>1, <2>5 DEF CreditCase, OneAt
    <3>2. Balanced(tax) /\ (\A v \in Clerks : Declares(v, tax))
      BY <3>1, CreditParts
    <3>3. CASE tax # job[w].tax
      <4>1. Ds(tax)' = Ds(tax)
        BY <2>2, <2>3, <3>3 DEF Ds
      <4>2. Last(tax)' = Last(tax)
        BY <4>1 DEF Last
      <4>3. ASSUME NEW v \in Clerks
            PROVE  Declares(v, tax)'
        <5>1. CASE v = w
          BY <1>1, <5>1 DEF Declares, TaxSteps
        <5>2. CASE v # w
          BY <1>1, <3>2, <4>1, <4>2, <5>2 DEF Declares, Moved
        <5> QED
          BY <5>1, <5>2
      <4> QED
        BY <3>2, <4>1, <4>2, <4>3 DEF Balanced
    <3>4. CASE tax = job[w].tax
      <4>1. /\ \A d \in Ds(tax) : d.period < D.period
            /\ job[w].previous = Total("carry", Last(tax))
        BY <1>1, <2>2, <3>2, <3>4 DEF Declares, TaxSteps
      <4>2. Ds(tax)' = Ds(tax) \cup {D}
        BY <2>2, <2>3, <3>4 DEF Ds
      <4>3. Ds(tax) \subseteq DeclarationRows /\ IsFiniteSet(Ds(tax))
        BY DsType
      <4>4. D \notin Ds(tax) /\ \A d \in Ds(tax) : d.period \in Nat
        BY <2>2, <4>1, <4>3 DEF DeclarationRows
      <4>5. Last(tax)' = {D}
        <5>1. D.period \in Nat
          BY <2>1, <2>2
        <5>2. \A d \in Ds(tax)' : D.period <= d.period => d = D
          BY <4>1, <4>2, <4>4, <5>1
        <5>3. \A d \in Ds(tax)' : d.period <= D.period
          BY <4>1, <4>2, <4>4, <5>1
        <5>4. D \in Ds(tax)'
          BY <4>2
        <5> QED
          BY <5>2, <5>3, <5>4 DEF Last
      <4> DEFINE E == Ds(tax) \cup {D}
      <4>6. E \subseteq DeclarationRows /\ IsFiniteSet(E) /\ E \ {D} = Ds(tax) /\ D \in E
        BY <2>2, <4>3, <4>4, FS_AddElement
      <4> HIDE DEF E
      <4>7. Total("net", E) = D["net"] + Total("net", Ds(tax)) /\ Total("pay", E) = D["pay"] + Total("pay", Ds(tax))
        BY <4>6, TotalOf
      <4>8. Total("net", Ds(tax)) \in Int /\ Total("pay", Ds(tax)) \in Int
        BY <4>3, TotalOf
      <4>9. Total("carry", {D}) = D["carry"]
        BY <2>2, TotalOfOne
      <4>10. D["net"] = D.net /\ D["pay"] = D.pay /\ D["carry"] = D.carry
        BY <2>2 DEF DeclarationRows
      <4>11. Total("net", Ds(tax)) = Total("pay", Ds(tax)) - job[w].previous
        BY <3>2, <4>1 DEF Balanced
      <4>12. Total("net", E) = Total("pay", E) - Total("carry", {D})
        BY <2>1, <2>2, <4>7, <4>8, <4>9, <4>10, <4>11
      <4>13. Balanced(tax)'
        BY <4>2, <4>5, <4>12 DEF Balanced, E
      <4>14. ASSUME NEW v \in Clerks
             PROVE  Declares(v, tax)'
        <5>1. CASE v = w
          BY <1>1, <5>1 DEF Declares, TaxSteps
        <5>2. CASE v # w
          <6>1. tax \notin duties[v]
            BY <2>1, <3>1, <3>4, <5>2 DEF CreditCase, OneAt
          <6>2. ~ (pc[v] \in TaxSteps /\ job[v].tax = tax)
            BY <6>1, TaxFacts
          <6> QED
            BY <1>1, <5>2, <6>2 DEF Declares, Moved
        <5> QED
          BY <5>1, <5>2
      <4> QED
        BY <4>13, <4>14
    <3> QED
      BY <3>3, <3>4
  <2> QED
    BY <2>4, <2>5, CreditPartsNext
<1> QED
  BY <1>1, <1>2, <1>3

\* A row that is replaced by one with the same amount changes no sum.
LEMMA TotalReplaced ==
  ASSUME NEW S, IsFiniteSet(S), S \subseteq DeclarationRows, NEW d \in S, NEW e \in DeclarationRows,
         e \notin S \ {d}, NEW c \in {"net", "pay", "carry"}, e[c] = d[c]
  PROVE  Total(c, (S \ {d}) \cup {e}) = Total(c, S)
<1> DEFINE R == S \ {d}
           T == R \cup {e}
<1>1. R \subseteq S /\ R \subseteq DeclarationRows /\ IsFiniteSet(R)
  <2>1. R \subseteq S
    OBVIOUS
  <2> QED
    BY <2>1, FS_Subset
<1>2. T \subseteq DeclarationRows /\ IsFiniteSet(T) /\ e \in T /\ T \ {e} = R
  <2> HIDE DEF R
  <2>1. e \notin R
    BY DEF R
  <2> QED
    BY <1>1, <2>1, FS_AddElement
<1>3. Total(c, S) = d[c] + Total(c, S \ {d})
  BY TotalOf
<1> HIDE DEF T
<1>4. Total(c, T) = e[c] + Total(c, T \ {e})
  BY <1>2, TotalOf
<1> QED
  BY <1>2, <1>3, <1>4 DEF T

LEMMA FiledKeeps ==
  ASSUME TypeOK, LocalsOK, OneDeclaration, CreditsOK, NEW w \in Clerks, TaxFrame, NEW d \in declarations,
         handleFileIVA(w, d) \/ handleFileICA(w, d) \/ handleFileIncomeTax(w, d)
  PROVE  OneDeclaration' /\ CreditsOK'
<1> DEFINE e == [d EXCEPT !.status = "FILED"]
<1>1. UNCHANGED <<duties, pc, job>> /\ declarations' = (declarations \ {d}) \cup {e}
  BY FiledMoves DEF TaxFrame
<1>2. /\ d \in DeclarationRows /\ e \in DeclarationRows /\ e.tax = d.tax /\ e.period = d.period
      /\ e["net"] = d["net"] /\ e["pay"] = d["pay"] /\ e["carry"] = d["carry"]
  BY DEF TypeOK, DeclarationRows
<1> HIDE DEF e
<1>3. e \notin declarations \ {d}
  BY <1>2 DEF OneDeclaration
<1>4. OneDeclaration'
  BY <1>1, <1>2 DEF OneDeclaration
<1>5. ASSUME NEW tax \in {"iva", "ica"}, CreditCase(tax)'
      PROVE  Balanced(tax)' /\ (\A v \in Clerks : Declares(v, tax)')
  <2>1. CreditCase(tax)
    BY <1>1, <1>5 DEF CreditCase, OneAt
  <2>2. Balanced(tax) /\ (\A v \in Clerks : Declares(v, tax))
    BY <2>1, CreditParts
  <2>3. CASE d.tax # tax
    <3>1. Ds(tax)' = Ds(tax)
      BY <1>1, <1>2, <2>3 DEF Ds
    <3>2. Last(tax)' = Last(tax)
      BY <3>1 DEF Last
    <3> QED
      BY <1>1, <2>2, <3>1, <3>2 DEF Balanced, Declares
  <2>4. CASE d.tax = tax
    <3>1. d \in Ds(tax) /\ Ds(tax)' = (Ds(tax) \ {d}) \cup {e} /\ e \notin Ds(tax) \ {d}
      BY <1>1, <1>2, <1>3, <2>4 DEF Ds
    <3>2. Ds(tax) \subseteq DeclarationRows /\ IsFiniteSet(Ds(tax))
          /\ Last(tax) \subseteq DeclarationRows /\ IsFiniteSet(Last(tax))
      BY DsType
    <3>3. Total("net", Ds(tax)') = Total("net", Ds(tax)) /\ Total("pay", Ds(tax)') = Total("pay", Ds(tax))
      BY <1>2, <3>1, <3>2, TotalReplaced
    <3>4. Total("carry", Last(tax)') = Total("carry", Last(tax))
      <4>1. CASE d \in Last(tax)
        <5>1. Last(tax)' = (Last(tax) \ {d}) \cup {e}
          BY <1>2, <3>1, <4>1 DEF Last
        <5>2. e \notin Last(tax) \ {d}
          BY <3>1 DEF Last
        <5> QED
          BY <1>2, <3>2, <4>1, <5>1, <5>2, TotalReplaced
      <4>2. CASE d \notin Last(tax)
        <5>1. Last(tax)' = Last(tax)
          BY <1>2, <3>1, <4>2 DEF Last
        <5> QED
          BY <5>1
      <4> QED
        BY <4>1, <4>2
    <3>5. Balanced(tax)'
      BY <2>2, <3>3, <3>4 DEF Balanced
    <3>6. ASSUME NEW v \in Clerks
          PROVE  Declares(v, tax)'
      BY <1>1, <1>2, <2>2, <3>1, <3>4 DEF Declares
    <3> QED
      BY <3>5, <3>6
  <2> QED
    BY <2>3, <2>4
<1> QED
  BY <1>4, <1>5, CreditPartsNext

\* All steps of the desk of taxes.
LEMMA TaxesStep ==
  ASSUME TypeOK, LocalsOK, OneDeclaration, CreditsOK, NEW w \in Clerks, TaxFrame, TaxStep(w)
  PROVE  /\ Sound(w) /\ OneDeclaration' /\ CreditsOK' /\ UNCHANGED rates
         /\ pc[w] \in {"idle"} \cup TaxSteps /\ pc'[w] \in {"idle"} \cup TaxSteps
<1>1. CASE \E p \in Bimesters, m \in Movements :
             \/ handleGenerateIVA(w, p, m) \/ handleGenerateICA(w, p, m)
             \/ \E t \in Tariffs : handleGenerateIncomeTax(w, p, m, t.rate)
  <2>1. PICK p \in Bimesters, m \in Movements :
             \/ handleGenerateIVA(w, p, m) \/ handleGenerateICA(w, p, m)
             \/ \E t \in Tariffs : handleGenerateIncomeTax(w, p, m, t.rate)
    BY <1>1
  <2>2. Sound(w) /\ pc[w] = "idle" /\ pc'[w] \in TaxSteps /\ UNCHANGED taxTables
    BY <2>1, BeginTaxMoves
  <2>3. CreditsOK'
    BY <2>1, BeginTaxKeeps
  <2> QED
    BY <2>2, <2>3 DEF taxTables, OneDeclaration
<1>2. CASE GetLastCarryForward(w)
  <2>1. Sound(w) /\ pc[w] = "carry" /\ pc'[w] = "declare" /\ UNCHANGED taxTables
    BY <1>2, CarryMoves
  <2>2. CreditsOK'
    BY <1>2, CarryKeeps
  <2> QED
    BY <2>1, <2>2 DEF taxTables, OneDeclaration, TaxSteps
<1>3. CASE CreateDeclaration(w)
  <2>1. Sound(w) /\ pc[w] = "declare" /\ pc'[w] = "idle" /\ UNCHANGED rates
    BY <1>3, DeclareMoves
  <2> QED
    BY <1>3, <2>1, DeclareKeeps DEF TaxSteps
<1>4. CASE \E t \in Tariffs : handleSetICATariff(w, t)
  <2>1. Sound(w) /\ pc[w] = "idle" /\ pc'[w] = "idle" /\ UNCHANGED <<declarations, rates>>
    BY <1>4, TariffMoves
  <2>2. CreditsOK' /\ OneDeclaration'
    BY <2>1, CreditsKept DEF Sound, TaxSteps, TaxFrame
  <2> QED
    BY <2>1, <2>2
<1>5. CASE \E d \in declarations : handleFileIVA(w, d) \/ handleFileICA(w, d) \/ handleFileIncomeTax(w, d)
  <2>1. PICK d \in declarations : handleFileIVA(w, d) \/ handleFileICA(w, d) \/ handleFileIncomeTax(w, d)
    BY <1>5
  <2>2. Sound(w) /\ pc[w] = "idle" /\ pc'[w] = "idle" /\ UNCHANGED rates
    BY <2>1, FiledMoves
  <2> QED
    BY <2>1, <2>2, FiledKeeps
<1> QED
  BY <1>1, <1>2, <1>3, <1>4, <1>5 DEF TaxStep

-----------------------------------------------------------------------------
(* The invariant of exchange rates.                                        *)

Looks(w) == pc[w] \in {"fetch", "set rate"} /\ job[w].tries = 0 /\ job[w].pair = Official

\* A step that leaves the rates as they were, and looks up no day that has one.
LEMMA LookupsKept ==
  ASSUME LookupsOK, NEW w \in Clerks, Moved(w), UNCHANGED <<duties, rates>>,
         Looks(w)' => \/ Looks(w) /\ job'[w] = job[w]
                      \/ rates[<<job'[w].day, Official>>] = "none"
  PROVE  LookupsOK'
<1> SUFFICES ASSUME OneAt({"rate", "lookup"})', NEW v \in Clerks, Looks(v)'
             PROVE  rates'[<<job'[v].day, Official>>] # "MANUAL"
  BY DEF LookupsOK, Looks
<1>1. OneAt({"rate", "lookup"})
  BY DEF OneAt
<1>2. CASE v = w
  BY <1>1, <1>2 DEF LookupsOK, Looks
<1>3. CASE v # w
  BY <1>1, <1>3 DEF LookupsOK, Looks, Moved
<1> QED
  BY <1>2, <1>3

\* All steps of the desk of the exchange rate.
LEMMA RatesStep ==
  ASSUME TypeOK, LocalsOK, LookupsOK, NEW w \in Clerks, TaxFrame, RateStep(w)
  PROVE  /\ Sound(w) /\ LookupsOK' /\ UNCHANGED declarations
         /\ pc[w] \in {"idle"} \cup RateSteps /\ pc'[w] \in {"idle"} \cup RateSteps
<1>1. CASE \/ \E d \in Days, p \in Pairs : handleLookupExchangeRate(w, d, p)
           \/ handleSyncExchangeRate(w) \/ RunTRMDailySync(w) \/ FetchTRM(w) \/ TryAgain(w)
  <2>1. Sound(w) /\ RateReads(w)
    BY <1>1, RateReadsMoves
  <2>2. LookupsOK'
    <3>1. Looks(w)' => \/ Looks(w) /\ job'[w] = job[w]
                       \/ rates[<<job'[w].day, Official>>] = "none"
      BY <2>1 DEF RateReads, Looks
    <3> QED
      BY <2>1, <3>1, LookupsKept DEF Sound, RateReads, TaxFrame, taxTables
  <2> QED
    BY <2>1, <2>2 DEF RateReads, taxTables
<1>2. CASE \E d \in Days, p \in Pairs, source \in Sources : handleSetExchangeRate(w, d, p, source)
  <2>1. PICK d \in Days, p \in Pairs, source \in Sources : handleSetExchangeRate(w, d, p, source)
    BY <1>2
  <2>2. /\ Sound(w) /\ pc[w] = "idle" /\ UNCHANGED <<declarations, pc, job, duties>>
        /\ "rate" \in duties[w]
    BY <2>1, ManualMoves DEF TaxFrame
  <2>3. ASSUME OneAt({"rate", "lookup"}), NEW v \in Clerks, Looks(v)
        PROVE  FALSE
    <3>1. "lookup" \in duties[v]
      BY <2>3 DEF LocalsOK, LocalOK, Looks
    <3>2. v = w
      BY <2>2, <2>3, <3>1 DEF OneAt
    <3> QED
      BY <2>2, <2>3, <3>2 DEF Looks
  <2>4. LookupsOK'
    <3>1. OneAt({"rate", "lookup"})' => OneAt({"rate", "lookup"})
      BY <2>2 DEF OneAt
    <3> QED
      BY <2>2, <2>3, <3>1 DEF LookupsOK, Looks
  <2> QED
    BY <2>2, <2>4
<1>3. CASE SaveRate(w)
  <2>1. /\ Sound(w) /\ pc[w] = "set rate" /\ pc'[w] = "idle" /\ UNCHANGED <<declarations, duties>>
        /\ rates' = [rates EXCEPT ![<<job[w].day, Official>>] = "SUPERFINANCIERA"]
    BY <1>3, SaveRateMoves DEF TaxFrame
  <2>2. LookupsOK'
    <3> SUFFICES ASSUME OneAt({"rate", "lookup"})', NEW v \in Clerks, Looks(v)'
                 PROVE  rates'[<<job'[v].day, Official>>] # "MANUAL"
      BY DEF LookupsOK, Looks
    <3>1. OneAt({"rate", "lookup"})
      BY <2>1 DEF OneAt
    <3>2. v # w
      BY <2>1 DEF Looks
    <3>3. rates[<<job[v].day, Official>>] # "MANUAL" /\ job'[v] = job[v]
      BY <2>1, <3>1, <3>2 DEF LookupsOK, Looks, Sound, Moved
    <3>4. job[v].day \in Days
      BY <2>1, <3>2 DEF LocalsOK, LocalOK, Looks, Sound, Moved, RateSteps, RateJobs
    <3>5. /\ rates' = [rates EXCEPT ![<<job[w].day, Official>>] = "SUPERFINANCIERA"]
          /\ DOMAIN rates = Days \X Pairs /\ <<job[v].day, Official>> \in Days \X Pairs
      BY <2>1, <3>4, BackOfficeAssumption DEF TypeOK
    <3>6. rates'[<<job[v].day, Official>>] \in {"SUPERFINANCIERA", rates[<<job[v].day, Official>>]}
      BY <3>5
    <3> QED
      BY <3>3, <3>6
  <2> QED
    BY <2>1, <2>2 DEF RateSteps
<1> QED
  BY <1>1, <1>2, <1>3 DEF RateStep

-----------------------------------------------------------------------------
(* All desks together.                                                     *)

\* Before the first request.
LEMMA BackOfficeInit ==
  ASSUME Init PROVE BackOfficeInv
<1>1. TypeOK
  <2>1. entries \in [Entries -> EntryRows]
    BY DEF Init, NoEntryRow, EntryRows, NoAmounts
  <2>2. assets \in [Assets -> AssetStatuses \cup {"none"}]
    BY DEF Init, AssetStatuses
  <2>3. accumulated \in [Assets -> Nat]
    BY DEF Init, NoAmounts
  <2>4. pc \in [Clerks -> Steps] /\ job \in [Clerks -> Jobs \cup TaxJobs \cup RateJobs]
    BY IdleType DEF Init, Steps
  <2>5. statement \in [Statement -> Links] /\ marks \in [Entries -> Links]
    BY DEF Init, Links
  <2>6. IsFiniteSet(declarations)
    BY FS_EmptySet DEF Init
  <2>7. today \in Days
    BY BackOfficeAssumption DEF Init
  <2> QED
    BY <2>1, <2>2, <2>3, <2>4, <2>5, <2>6, <2>7 DEF Init, TypeOK
<1>2. \A w \in Clerks : pc[w] = "idle" /\ job[w] = Idle
  BY DEF Init
<1>3. LocalsOK
  BY <1>2, IdleType DEF LocalsOK, LocalOK, TaxSteps, RateSteps, Depreciates, Quotas, Disposes, OnItsWay,
     PeriodSteps, RunSteps, DisposalSteps
<1>4. /\ \A m \in Months : DepreciationOf(m) = {} /\ ~ At(m)
      /\ \A a \in Assets : DisposalOf(a) = {}
  BY <1>2 DEF Init, NoEntryRow, DepreciationOf, DisposalOf, At
<1>5. QuotasOK
  BY <1>2 DEF Init, QuotasOK, Quotas, NoAmounts
<1>6. RunsOK
  <2>1. \A m \in Months : /\ \A e, f \in DepreciationOf(m) : e = f
                          /\ DepreciationOf(m) # {} <=> m \in runs \/ At(m)
    BY <1>4 DEF Init
  <2>2. \A w \in Clerks : ~ (pc[w] = "list" \/ Quotas(w))
    BY <1>2 DEF Quotas
  <2> QED
    BY <2>1, <2>2 DEF RunsOK
<1>7. DisposalsOK
  <2>1. \A a \in Assets : Retired(a)
    BY <1>4 DEF Retired
  <2>2. \A w \in Clerks : Retires(w)
    BY <1>2 DEF Retires, Quotas, Disposes, OnItsWay, PeriodSteps, DisposalSteps
  <2> QED
    BY <2>1, <2>2, DisposalParts
<1>8. MarksOK
  BY <1>2, BackOfficeAssumption DEF Init, MarksOK
<1>9. OneDeclaration
  BY DEF Init, OneDeclaration
<1>10. CreditsOK
  <2>1. \A tax : Ds(tax) = {} /\ Last(tax) = {}
    BY DEF Init, Ds, Last
  <2>2. Total("net", {}) = 0 /\ Total("pay", {}) = 0 /\ Total("carry", {}) = 0
    BY FS_EmptySet, TotalOf
  <2> QED
    BY <1>2, <2>1, <2>2, CreditParts DEF Balanced, Declares, TaxSteps
<1>11. LookupsOK
  BY <1>2 DEF LookupsOK
<1> QED
  BY <1>1, <1>3, <1>5, <1>6, <1>7, <1>8, <1>9, <1>10, <1>11 DEF BackOfficeInv

\* Where only the date changes, or nothing.
LEMMA Still ==
  ASSUME BackOfficeInv, today' \in Days,
         UNCHANGED <<duties, assets, accumulated, runs, entries, periods, statement, marks, budgets,
                     lines, declarations, tariff, rates, voucherTypes, banks, pc, job>>
  PROVE  BackOfficeInv'
<1>1. TypeOK'
  BY DEF BackOfficeInv, TypeOK
<1>2. \A w \in Clerks : /\ Depreciates(w)' <=> Depreciates(w)
                        /\ Disposes(w)' <=> Disposes(w)
                        /\ Quotas(w)' <=> Quotas(w)
  BY DEF Depreciates, Disposes, Quotas, OnItsWay
<1>3. LocalsOK'
  BY <1>2 DEF BackOfficeInv, LocalsOK, LocalOK
<1>4. /\ \A K \in SUBSET Requests : (OneAt(K)' <=> OneAt(K)) /\ (Spared(K)' <=> Spared(K))
      /\ \A m \in Months : DepreciationOf(m)' = DepreciationOf(m) /\ (At(m)' <=> At(m))
      /\ \A a \in Assets : DisposalOf(a)' = DisposalOf(a)
  BY DEF OneAt, Spared, DepreciationOf, DisposalOf, At
<1>5. QuotasOK' /\ RunsOK'
  BY <1>2, <1>4 DEF BackOfficeInv, QuotasOK, RunsOK, Requests
<1>6. DisposalsOK'
  <2>1. (\A a \in Assets : Retired(a)' <=> Retired(a)) /\ (\A w \in Clerks : Retires(w)' <=> Retires(w))
    BY <1>2, <1>4 DEF Retired, Retires
  <2> QED
    BY <1>4, <2>1, DisposalParts, DisposalPartsNext DEF BackOfficeInv, DisposalCase, Requests
<1>7. MarksOK'
  BY <1>4 DEF BackOfficeInv, MarksOK, Requests, Marking
<1>8. OneDeclaration' /\ CreditsOK'
  BY <1>4 DEF BackOfficeInv, OneDeclaration, CreditsOK, Requests
<1>9. LookupsOK'
  BY <1>4 DEF BackOfficeInv, LookupsOK, Requests
<1> QED
  BY <1>1, <1>3, <1>5, <1>6, <1>7, <1>8, <1>9 DEF BackOfficeInv

\* A step that is none of a run, a disposal, a marking, a declaration or a lookup.
LEMMA OtherAssets ==
  ASSUME BackOfficeInv, NEW w \in Clerks, Sound(w), UNCHANGED <<duties, assetTables>>, BooksKept,
         pc[w] \in {"record", "dispose"} => Faults[w] # {},
         pc'[w] \notin {"list", "quota", "status", "post", "record", "retire", "dispose"},
         Disposes(w)' => Disposes(w) /\ job'[w].asset = job[w].asset
  PROVE  QuotasOK' /\ RunsOK' /\ DisposalsOK'
<1>1. AssetsAway(w)
  BY DEF AssetsAway
<1> QED
  BY <1>1, AssetsKept DEF BackOfficeInv, AssetInv, Sound

LEMMA OtherMarks ==
  ASSUME BackOfficeInv, NEW w \in Clerks, Sound(w), UNCHANGED <<duties, marks>>,
         pc'[w] \notin {"mark", "mark other"}, pc[w] = "mark other" => Faults[w] # {}
  PROVE  MarksOK'
BY MarksKept DEF BackOfficeInv, MarksAway, Sound

LEMMA OtherTaxes ==
  ASSUME BackOfficeInv, NEW w \in Clerks, Sound(w), UNCHANGED <<duties, declarations>>,
         pc'[w] \notin TaxSteps
  PROVE  OneDeclaration' /\ CreditsOK'
BY CreditsKept DEF BackOfficeInv, Sound

LEMMA OtherRates ==
  ASSUME BackOfficeInv, NEW w \in Clerks, Sound(w), UNCHANGED <<duties, rates>>,
         pc'[w] \notin {"fetch", "set rate"}
  PROVE  LookupsOK'
BY LookupsKept DEF BackOfficeInv, Looks, Sound

\* A step of one clerk, desk by desk.
LEMMA LedgerKeeps ==
  ASSUME BackOfficeInv, NEW w \in Clerks, LedgerStep(w), UNCHANGED <<duties, taxTables, registers>>
  PROVE  BackOfficeInv'
<1>1. Sound(w) /\ LedgerQuiet(w)
  BY LedgerMoves DEF BackOfficeInv
<1>2. /\ pc[w] \notin {"record", "dispose", "mark other"}
      /\ pc'[w] \notin {"list", "quota", "status", "post", "record", "retire", "dispose", "mark", "mark other",
                        "fetch", "set rate"} \cup TaxSteps
  BY <1>1 DEF LedgerQuiet, LedgerSteps, PeriodSteps, TaxSteps
<1>3. UNCHANGED <<assetTables, marks, declarations, rates>>
  BY <1>1 DEF LedgerQuiet, bankTables, taxTables
<1>4. QuotasOK' /\ RunsOK' /\ DisposalsOK'
  BY <1>1, <1>2, <1>3, OtherAssets DEF LedgerQuiet
<1>5. MarksOK' /\ OneDeclaration' /\ CreditsOK' /\ LookupsOK'
  BY <1>1, <1>2, <1>3, OtherMarks, OtherTaxes, OtherRates
<1>6. LocalsOK'
  BY <1>1, LocalsKept DEF BackOfficeInv
<1> QED
  BY <1>1, <1>4, <1>5, <1>6 DEF BackOfficeInv, Sound

LEMMA AssetKeeps ==
  ASSUME BackOfficeInv, NEW w \in Clerks, AssetStep(w), UNCHANGED <<duties, taxTables, registers>>
  PROVE  BackOfficeInv'
<1>1. AssetFrame
  <2>1. UNCHANGED <<periods, bankTables, budgetTables>>
    BY DEF AssetStep, handleCreateFixedAsset, CreateFixedAsset, handleRunDepreciation, RunDepreciation,
       handleDisposeFixedAsset, Dispose, Begin, HasRunForPeriod, ListAssets, NextAsset, SetFullyDepreciated,
       EndOfList, PostDepreciation, CreateRun, GetAccumulated, PostDisposal, SetDisposed, database, ledgerTables
  <2> QED
    BY <2>1 DEF AssetFrame
<1>2. /\ Sound(w) /\ QuotasOK' /\ RunsOK' /\ DisposalsOK'
      /\ pc[w] \in {"idle"} \cup RunSteps \cup DisposalSteps
      /\ pc'[w] \in {"idle", "period"} \cup RunSteps \cup DisposalSteps
  BY <1>1, AssetsStep DEF BackOfficeInv, AssetInv
<1>3. /\ pc[w] # "mark other"
      /\ pc'[w] \notin {"mark", "mark other", "fetch", "set rate"} \cup TaxSteps
  BY <1>2 DEF RunSteps, DisposalSteps, TaxSteps
<1>4. UNCHANGED <<marks, declarations, rates>>
  BY <1>1 DEF AssetFrame, bankTables, taxTables
<1>5. MarksOK' /\ OneDeclaration' /\ CreditsOK' /\ LookupsOK'
  BY <1>2, <1>3, <1>4, OtherMarks, OtherTaxes, OtherRates
<1>6. LocalsOK'
  BY <1>2, LocalsKept DEF BackOfficeInv
<1> QED
  BY <1>2, <1>5, <1>6 DEF BackOfficeInv, Sound

LEMMA BankKeeps ==
  ASSUME BackOfficeInv, NEW w \in Clerks, BankStep(w), UNCHANGED <<duties, taxTables, registers>>
  PROVE  BackOfficeInv'
<1>1. BankFrame
  <2>1. UNCHANGED <<assetTables, ledgerTables, budgetTables>>
    BY DEF BankStep, handleAddStatementLine, AddStatementLine, handleReconcile, Reconcile,
       handleMarkReconciled, Mark, Remark, Begin, MarkOne, MarkOther, handleUnmarkReconciled, Unmark, database
  <2> QED
    BY <2>1 DEF BankFrame
<1>2. Sound(w) /\ MarksOK' /\ pc[w] \in BankSteps /\ pc'[w] \in BankSteps
  BY <1>1, MarksStep DEF BackOfficeInv
<1>3. /\ pc[w] \notin {"record", "dispose"}
      /\ pc'[w] \notin {"list", "quota", "status", "post", "record", "retire", "dispose",
                        "fetch", "set rate"} \cup TaxSteps
      /\ ~ Disposes(w)'
  BY <1>2 DEF BankSteps, TaxSteps, Disposes, OnItsWay, DisposalSteps, PeriodSteps
<1>4. UNCHANGED <<assetTables, declarations, rates>> /\ BooksKept
  BY <1>1, EntriesSame DEF BankFrame, ledgerTables, taxTables
<1>5. QuotasOK' /\ RunsOK' /\ DisposalsOK'
  BY <1>2, <1>3, <1>4, OtherAssets
<1>6. OneDeclaration' /\ CreditsOK' /\ LookupsOK'
  BY <1>2, <1>3, <1>4, OtherTaxes, OtherRates
<1>7. LocalsOK'
  BY <1>2, LocalsKept DEF BackOfficeInv
<1> QED
  BY <1>2, <1>5, <1>6, <1>7 DEF BackOfficeInv, Sound

\* Budgets, registers and whatever ends a request touch nothing that the others rest on.
LEMMA QuietKeeps ==
  ASSUME BackOfficeInv, NEW w \in Clerks, Sound(w), UNCHANGED duties,
         UNCHANGED <<assetTables, ledgerTables, marks, declarations, rates>>,
         pc'[w] \in BudgetSteps \cup {"idle", "deactivate"},
         pc[w] \in BudgetSteps \cup {"idle", "deactivate"} \/ Faults[w] # {}
  PROVE  BackOfficeInv'
<1>1. /\ pc[w] \in {"record", "dispose", "mark other"} => Faults[w] # {}
      /\ pc'[w] \notin {"list", "quota", "status", "post", "record", "retire", "dispose", "mark", "mark other",
                        "fetch", "set rate"} \cup TaxSteps
      /\ ~ Disposes(w)'
  BY DEF BudgetSteps, TaxSteps, Disposes, OnItsWay, DisposalSteps, PeriodSteps
<1>2. BooksKept
  BY EntriesSame DEF ledgerTables
<1>3. QuotasOK' /\ RunsOK' /\ DisposalsOK'
  BY <1>1, <1>2, OtherAssets
<1>4. MarksOK' /\ OneDeclaration' /\ CreditsOK' /\ LookupsOK'
  BY <1>1, OtherMarks, OtherTaxes, OtherRates
<1>5. LocalsOK'
  BY LocalsKept DEF BackOfficeInv
<1> QED
  BY <1>3, <1>4, <1>5 DEF BackOfficeInv, Sound

LEMMA TaxKeeps ==
  ASSUME BackOfficeInv, NEW w \in Clerks, TaxStep(w) \/ RateStep(w), UNCHANGED <<duties, database, registers>>
  PROVE  BackOfficeInv'
<1>1. TaxFrame
  BY DEF TaxFrame
<1>2. /\ Sound(w) /\ OneDeclaration' /\ CreditsOK' /\ LookupsOK'
      /\ pc[w] \in {"idle"} \cup TaxSteps \cup RateSteps
      /\ pc'[w] \in {"idle"} \cup TaxSteps \cup RateSteps
  <2>1. CASE TaxStep(w)
    <3>1. /\ Sound(w) /\ OneDeclaration' /\ CreditsOK' /\ UNCHANGED rates
          /\ pc[w] \in {"idle"} \cup TaxSteps /\ pc'[w] \in {"idle"} \cup TaxSteps
      BY <1>1, <2>1, TaxesStep DEF BackOfficeInv
    <3>2. pc'[w] \notin {"fetch", "set rate"}
      BY <3>1 DEF TaxSteps
    <3> QED
      BY <3>1, <3>2, OtherRates
  <2>2. CASE RateStep(w)
    <3>1. /\ Sound(w) /\ LookupsOK' /\ UNCHANGED declarations
          /\ pc[w] \in {"idle"} \cup RateSteps /\ pc'[w] \in {"idle"} \cup RateSteps
      BY <1>1, <2>2, RatesStep DEF BackOfficeInv
    <3>2. pc'[w] \notin TaxSteps
      BY <3>1 DEF TaxSteps, RateSteps
    <3> QED
      BY <3>1, <3>2, OtherTaxes
  <2> QED
    BY <2>1, <2>2
<1>3. /\ pc[w] \notin {"record", "dispose", "mark other"}
      /\ pc'[w] \notin {"list", "quota", "status", "post", "record", "retire", "dispose", "mark", "mark other"}
      /\ ~ Disposes(w)'
  BY <1>2 DEF TaxSteps, RateSteps, Disposes, OnItsWay, DisposalSteps, PeriodSteps
<1>4. UNCHANGED <<assetTables, marks>> /\ BooksKept
  BY EntriesSame DEF database, ledgerTables, bankTables
<1>5. QuotasOK' /\ RunsOK' /\ DisposalsOK' /\ MarksOK'
  BY <1>2, <1>3, <1>4, OtherAssets, OtherMarks
<1>6. LocalsOK'
  BY <1>2, LocalsKept DEF BackOfficeInv
<1> QED
  BY <1>2, <1>5, <1>6 DEF BackOfficeInv, Sound

\* The steps of all desks, the date and the failures.
LEMMA BackOfficeStep ==
  ASSUME BackOfficeInv, [Next]_vars
  PROVE  BackOfficeInv'
<1>1. CASE UNCHANGED vars
  BY <1>1, Still DEF vars, BackOfficeInv, TypeOK
<1>2. CASE Midnight /\ UNCHANGED <<duties, database, registers>>
  BY <1>2, Still DEF Midnight, database, registers, assetTables, ledgerTables, bankTables, budgetTables
<1>3. ASSUME NEW w \in Clerks, LedgerStep(w) \/ AssetStep(w) \/ BankStep(w) \/ BudgetStep(w),
             UNCHANGED <<duties, taxTables, registers>>
      PROVE  BackOfficeInv'
  <2>1. CASE BudgetStep(w)
    <3>1. Sound(w) /\ BudgetFrame /\ pc[w] \in BudgetSteps /\ pc'[w] \in BudgetSteps
      BY <1>3, <2>1, BudgetMoves DEF BackOfficeInv
    <3> QED
      BY <3>1, QuietKeeps DEF BudgetFrame, bankTables, taxTables
  <2> QED
    BY <1>3, <2>1, LedgerKeeps, AssetKeeps, BankKeeps
<1>4. ASSUME NEW w \in Clerks, TaxStep(w) \/ RateStep(w), UNCHANGED <<duties, database, registers>>
      PROVE  BackOfficeInv'
  BY <1>4, TaxKeeps
<1>5. ASSUME NEW w \in Clerks, RegisterStep(w), UNCHANGED <<duties, database, taxTables>>
      PROVE  BackOfficeInv'
  <2>1. Sound(w) /\ pc[w] \in {"idle", "deactivate"} /\ pc'[w] \in {"idle", "deactivate"}
    BY <1>5, RegistersMoves DEF BackOfficeInv
  <2> QED
    BY <1>5, <2>1, QuietKeeps DEF database, bankTables, taxTables
<1>6. ASSUME NEW w \in Clerks, Failure(w), UNCHANGED duties
      PROVE  BackOfficeInv'
  <2>1. Sound(w) /\ UNCHANGED <<database, taxTables, registers>> /\ pc'[w] = "idle" /\ Faults[w] # {}
    BY <1>6, FailureMoves DEF BackOfficeInv
  <2> QED
    BY <1>6, <2>1, QuietKeeps DEF database, bankTables, taxTables
<1> QED
  BY <1>1, <1>2, <1>3, <1>4, <1>5, <1>6 DEF Next

\* The inductive invariant, of all desks together (accounting/application).
THEOREM BackOfficeInvariant == Spec => []BackOfficeInv
<1>1. BackOfficeInv /\ [Next]_vars => BackOfficeInv'
  BY BackOfficeStep
<1> QED
  BY <1>1, BackOfficeInit, PTL DEF Spec

-----------------------------------------------------------------------------
(* What the invariant says of the desks.                                   *)

\* Runs of depreciation (fixed_asset.go, RunDepreciation): where one goroutine serves
\* them, no asset loses more than its cost less its salvage value, whatever fails.
THEOREM NothingOverDepreciated == Spec => []NeverOverDepreciated
<1>1. BackOfficeInv => NeverOverDepreciated
  BY DEF BackOfficeInv, QuotasOK, NeverOverDepreciated
<1> QED
  BY <1>1, BackOfficeInvariant, PTL

\* Where besides none of those runs dies or meets a failing statement, the expense of a
\* month is posted once, and there is an entry just where there is a run of the month
\* or one about to be recorded.
THEOREM ExpenseOfAMonthOnce == Spec => []DepreciatedOnce
<1>1. BackOfficeInv => DepreciatedOnce
  BY DEF BackOfficeInv, RunsOK, DepreciatedOnce
<1> QED
  BY <1>1, BackOfficeInvariant, PTL

\* A disposal (fixed_asset.go, Dispose) is posted once for an asset, at what has been
\* depreciated of it before and ever after.
THEOREM DisposedAtBookValue == Spec => []RetiredAtBookValue
<1>1. BackOfficeInv => RetiredAtBookValue
  <2> SUFFICES ASSUME DisposalsOK PROVE RetiredAtBookValue
    BY DEF BackOfficeInv
  <2> QED
    BY DisposalParts DEF RetiredAtBookValue, DisposalCase, Retired
<1> QED
  BY <1>1, BackOfficeInvariant, PTL

\* Marks of the reconciliation of entries (reconciliation.go, MarkReconciled) are mutual,
\* but for the one that is being set.
THEOREM MarksAreMutual == Spec => []MarksPaired
<1>1. BackOfficeInv => MarksPaired
  <2> SUFFICES ASSUME MarksOK PROVE MarksPaired
    BY DEF BackOfficeInv
  <2> QED
    BY MarkParts DEF MarksPaired, MarkCase, Paired
<1> QED
  BY <1>1, BackOfficeInvariant, PTL

\* Over any number of declarations (tax_declarations.go) made in the order of their
\* periods, what was owed is what is paid less what is still carried forward.
THEOREM NoCreditUsedTwice == Spec => []CreditUsedOnce
<1>1. BackOfficeInv => CreditUsedOnce
  <2> SUFFICES ASSUME CreditsOK PROVE CreditUsedOnce
    BY DEF BackOfficeInv
  <2> QED
    BY CreditParts DEF CreditUsedOnce, CreditCase, Balanced, Ds, Last
<1> QED
  BY <1>1, BackOfficeInvariant, PTL

LEMMA PositiveTry ==
  ASSUME NEW n \in 0 .. 2, n # 0
  PROVE  n > 0
OBVIOUS

\* Of a rate captured by hand, a step away from that is a capture, or one that saves
\* the official rate and looked up nothing, or another pair.
LEMMA ManualGivesWay ==
  ASSUME BackOfficeInv, Next, OneAt({"rate", "lookup"}), NEW d \in Days, NEW p \in Pairs,
         rates[<<d, p>>] = "MANUAL", rates'[<<d, p>>] # "MANUAL"
  PROVE  \/ \E w \in Clerks : "rate" \in duties[w] /\ UNCHANGED pc
         \/ /\ p = Official
            /\ \E w \in Clerks : /\ pc[w] = "set rate" /\ job[w].day = d
                                 /\ job[w].tries > 0 \/ job[w].pair # Official
<1>1. rates' # rates
  OBVIOUS
<1>2. PICK w \in Clerks : (TaxStep(w) \/ RateStep(w)) /\ UNCHANGED <<duties, database, registers>>
  <2>1. ASSUME NEW w \in Clerks, Failure(w), UNCHANGED duties PROVE FALSE
    BY <1>1, <2>1, FailureMoves DEF BackOfficeInv, taxTables
  <2>2. ~ Midnight
    BY <1>1 DEF Midnight
  <2> QED
    BY <1>1, <2>1, <2>2 DEF Next, taxTables
<1>3. TaxFrame
  BY <1>2 DEF TaxFrame
<1>4. RateStep(w)
  BY <1>1, <1>2, <1>3, TaxesStep DEF BackOfficeInv
<1>5. CASE \E e \in Days, q \in Pairs, source \in Sources : handleSetExchangeRate(w, e, q, source)
  <2>1. "rate" \in duties[w] /\ UNCHANGED pc
    BY <1>3, <1>5, ManualMoves DEF BackOfficeInv
  <2> QED
    BY <2>1
<1>6. CASE SaveRate(w)
  <2>1. /\ pc[w] = "set rate" /\ job[w] \in RateJobs
        /\ rates' = [rates EXCEPT ![<<job[w].day, Official>>] = "SUPERFINANCIERA"]
    BY <1>3, <1>6, SaveRateMoves DEF BackOfficeInv
  <2>2. job[w].day = d /\ p = Official
    BY <2>1, BackOfficeAssumption DEF BackOfficeInv, TypeOK, RateJobs
  <2>3. job[w].tries # 0 \/ job[w].pair # Official
    BY <2>1, <2>2 DEF BackOfficeInv, LookupsOK
  <2>4. job[w].tries \in 0 .. 2
    BY <2>1 DEF RateJobs
  <2>5. CASE job[w].tries # 0
    <3>1. job[w].tries > 0
      BY <2>4, <2>5, PositiveTry
    <3> QED
      BY <2>1, <2>2, <3>1
  <2>6. CASE job[w].pair # Official
    BY <2>1, <2>2, <2>6
  <2> QED
    BY <2>3, <2>5, <2>6
<1>7. ~ RateReads(w)
  BY <1>1 DEF RateReads, taxTables
<1> QED
  BY <1>3, <1>4, <1>5, <1>6, <1>7, RateReadsMoves DEF RateStep, BackOfficeInv

\* A rate captured by hand (exchange_rate.go, Set) is replaced by another capture, by a
\* synchronisation, by the scheduler (trm_scheduler.go), and, that of dollars, by a
\* lookup of another currency without a rate; never by a lookup of its own pair.
THEOREM ManualRateGivesWayToSyncs == Spec => ManualRateKept
<1>1. BackOfficeInv /\ [Next]_vars =>
        [OneAt({"rate", "lookup"}) => \A d \in Days, p \in Pairs :
           rates[<<d, p>>] = "MANUAL" /\ rates'[<<d, p>>] # "MANUAL" =>
             \/ \E w \in Clerks : "rate" \in duties[w] /\ UNCHANGED pc
             \/ /\ p = Official
                /\ \E w \in Clerks : /\ pc[w] = "set rate" /\ job[w].day = d
                                     /\ job[w].tries > 0 \/ job[w].pair # Official]_vars
  BY ManualGivesWay
<1> QED
  BY <1>1, BackOfficeInvariant, PTL DEF Spec, ManualRateKept

===============================================================================
