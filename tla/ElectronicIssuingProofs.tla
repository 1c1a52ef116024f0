----------------------- MODULE ElectronicIssuingProofs -----------------------
(* Theorems about ElectronicIssuing, for every number of documents,        *)
(* ranges, requests and polls, and every choice of Faults.                 *)
EXTENDS ElectronicIssuing, TLAPS

\* The local variables keep their types when a step assigns some of them.
LEMMA JobTypes ==
  /\ NoJob \in Jobs
  /\ \A d \in Docs, r \in Ranges, n \in Int :
       /\ [NoJob EXCEPT !.doc = d, !.range = r] \in Jobs
       /\ [NoJob EXCEPT !.doc = d, !.range = r, !.num = n] \in Jobs
  /\ \A j \in Jobs, r \in Ranges, n \in Int :
       [j EXCEPT !.num = n] \in Jobs /\ [j EXCEPT !.range = r] \in Jobs
<1>1. NoJob \in Jobs
  BY RequestsAssumption DEF NoJob, Jobs, Replies, Outcomes
<1>2. ASSUME NEW j \in Jobs, NEW r \in Ranges
      PROVE  [j EXCEPT !.range = r] \in Jobs
  BY DEF Jobs
<1>3. ASSUME NEW j \in Jobs, NEW n \in Int
      PROVE  [j EXCEPT !.num = n] \in Jobs
  BY DEF Jobs
<1>4. ASSUME NEW j \in Jobs, NEW d \in Docs, NEW r \in Ranges, NEW n \in Int
      PROVE  /\ [j EXCEPT !.doc = d, !.range = r] \in Jobs
             /\ [j EXCEPT !.doc = d, !.range = r, !.num = n] \in Jobs
  BY DEF Jobs
<1> QED
  BY <1>1, <1>2, <1>3, <1>4

\* finish works on the range read back by documents.Confirm.
LEMMA RangeUpdate ==
  ASSUME NEW j \in Jobs, NEW r \in Ranges
  PROVE  [j EXCEPT !.range = r] \in Jobs
BY DEF Jobs

\* A second pollZipKey starts anew.
LEMMA PollsAnew ==
  ASSUME NEW j \in Jobs
  PROVE  [j EXCEPT !.polls = 0, !.last = "none"] \in Jobs
BY DEF Jobs, Replies

\* Before any request the database is empty and every request idle.
LEMMA TypeInit == Init => BaseInv
<1>1. NoJob \in Jobs
  BY RequestsAssumption DEF NoJob, Jobs, Replies, Outcomes
<1> QED
  BY <1>1, RangesAssumption
  DEF Init, CurrentOfNew, BaseInv, TypeOK, LocalsOK, RowsOK, WriteAhead, Confirmed, Statuses,
      Steps, Workers

\* Every step keeps the types, the locals of the running requests in their ranges
\* and the documents the DIAN holds confirmed: no assumption on the requests.
LEMMA BaseStep == BaseInv /\ [Next]_vars => BaseInv'
<1> SUFFICES ASSUME BaseInv, [Next]_vars PROVE BaseInv'
  OBVIOUS
<1> USE RangesAssumption, RequestsAssumption
    DEF BaseInv, TypeOK, LocalsOK, RowsOK, WriteAhead, Confirmed, Statuses, Steps, Workers,
    Sending, Jobs, NoJob, Outcomes, Replies, Goto, End, Finish,
    Guess, ranges, documents, dian
<1>1. ASSUME NEW d \in Docs, NEW r \in Ranges, Create(d, r) PROVE BaseInv'
  BY <1>1 DEF Create
<1>2. ASSUME NEW d \in Docs, NEW r \in Ranges, UpdateDraft(d, r) PROVE BaseInv'
  BY <1>2 DEF UpdateDraft
<1>3. ASSUME NEW d \in Docs, NEW src \in Docs, CloneDraft(d, src) PROVE BaseInv'
  BY <1>3 DEF CloneDraft
<1>4. ASSUME NEW d \in Docs, DeleteDraft(d) PROVE BaseInv'
  BY <1>4 DEF DeleteDraft
<1>5. ASSUME NEW r \in Ranges, Activate(r) \/ Deactivate(r) PROVE BaseInv'
  <2>1. CASE Activate(r)
    BY <2>1, SMTT(60) DEF Activate, SetActive
  <2>2. CASE Deactivate(r)
    BY <2>2, SMTT(60) DEF Deactivate, SetActive
  <2> QED
    BY <1>5, <2>1, <2>2
<1>6. ASSUME NEW c \in Confirmers, NEW d \in Docs, Confirm(c, d) PROVE BaseInv'
  <2>1. TypeOK'
    <3>1. rangeId[d] \in Ranges
      BY <1>6 DEF Confirm
    <3>2. [NoJob EXCEPT !.doc = d, !.range = rangeId[d]] \in Jobs
      BY <3>1, JobTypes
    <3> QED
      BY <1>6, <3>2 DEF Confirm
  <2>2. LocalsOK'
    BY <1>6 DEF Confirm
  <2>3. RowsOK'
    BY <1>6 DEF Confirm
  <2>4. WriteAhead'
    BY <1>6 DEF Confirm
  <2> QED
    BY <2>1, <2>2, <2>3, <2>4
<1>7. ASSUME NEW v \in Reviewers, NEW d \in Docs, CheckPendingStatus(v, d) PROVE BaseInv'
  BY <1>7 DEF CheckPendingStatus
<1>8. ASSUME NEW c \in Confirmers, prepare(c) PROVE BaseInv'
  BY <1>8 DEF prepare
<1>9. ASSUME NEW c \in Confirmers, ClaimNext(c) PROVE BaseInv'
  <2>1. TypeOK'
    <3>1. /\ job[c].range \in Ranges
          /\ current[job[c].range] + 1 \in Int
      BY <1>9 DEF ClaimNext
    <3>2. current' \in [Ranges -> Int]
      BY <1>9, <3>1 DEF ClaimNext
    <3>3. job' \in [Workers -> Jobs]
      <4> HIDE DEF Jobs, NoJob
      <4>1. [job[c] EXCEPT !.num = current[job[c].range] + 1] \in Jobs
        BY <3>1, JobTypes
      <4> QED
        BY <1>9, <4>1, JobTypes DEF ClaimNext
    <3>4. pc' \in [Workers -> Steps]
      BY <1>9 DEF ClaimNext
    <3> QED
      BY <1>9, <3>2, <3>3, <3>4 DEF ClaimNext
  <2>2. LocalsOK'
    BY <1>9 DEF ClaimNext
  <2>3. RowsOK'
    BY <1>9 DEF ClaimNext
  <2>4. WriteAhead'
    BY <1>9 DEF ClaimNext
  <2> QED
    BY <2>1, <2>2, <2>3, <2>4
<1>10. ASSUME NEW c \in Confirmers, ClaimRefused(c) PROVE BaseInv'
  BY <1>10 DEF ClaimRefused
<1>11. ASSUME NEW c \in Confirmers, SignFails(c) PROVE BaseInv'
  BY <1>11 DEF SignFails
<1>12. ASSUME NEW c \in Confirmers, PersistBuilt(c) PROVE BaseInv'
  <2>1. TypeOK'
    <3>1. prefix' \in [Docs -> Ranges \cup {NoRange}] /\ number' \in [Docs -> Int]
      BY <1>12 DEF PersistBuilt
    <3>2. status' \in [Docs -> Statuses]
      BY <1>12 DEF PersistBuilt
    <3>3. job' \in [Workers -> Jobs]
      <4>1. rangeId[job[c].doc] \in Ranges
        BY <1>12 DEF PersistBuilt
      <4>2. job[c] \in Jobs
        BY <1>12
      <4>3. [job[c] EXCEPT !.range = rangeId[job[c].doc]] \in Jobs
        BY <4>1, <4>2, RangeUpdate
      <4> QED
        BY <1>12, <4>3, SMTT(60) DEF PersistBuilt
    <3>4. pc' \in [Workers -> Steps]
      BY <1>12 DEF PersistBuilt
    <3> QED
      BY <1>12, <3>1, <3>2, <3>3, <3>4 DEF PersistBuilt
  <2>2. LocalsOK'
    BY <1>12 DEF PersistBuilt
  <2>3. RowsOK'
    BY <1>12 DEF PersistBuilt
  <2>4. WriteAhead'
    BY <1>12 DEF PersistBuilt
  <2> QED
    BY <2>1, <2>2, <2>3, <2>4
<1>13. ASSUME NEW c \in Confirmers, PersistRefused(c) PROVE BaseInv'
  BY <1>13 DEF PersistRefused
<1>14. ASSUME NEW c \in Confirmers, Abort(c) PROVE BaseInv'
  BY <1>14 DEF Abort, ReleaseIfCurrent
<1>15. ASSUME NEW c \in Confirmers, EnvironmentMismatch(c) PROVE BaseInv'
  BY <1>15 DEF EnvironmentMismatch
<1>16. ASSUME NEW c \in Confirmers, ZipFails(c) PROVE BaseInv'
  BY <1>16 DEF ZipFails
<1>17. ASSUME NEW c \in Confirmers, Dispatch(c) PROVE BaseInv'
  BY <1>17 DEF Dispatch
<1>18. ASSUME NEW c \in Confirmers, SendSyncAnswered(c) PROVE BaseInv'
  BY <1>18 DEF SendSyncAnswered, DianAnswers, Reported, Interpret, StatusOf, Receive
<1>19. ASSUME NEW c \in Confirmers, SendSyncLost(c) PROVE BaseInv'
  BY <1>19 DEF SendSyncLost, call, Receive
<1>20. ASSUME NEW c \in Confirmers, SendAsyncAccepted(c) PROVE BaseInv'
  BY <1>20 DEF SendAsyncAccepted, Receive
<1>21. ASSUME NEW c \in Confirmers, SendAsyncLost(c) PROVE BaseInv'
  BY <1>21 DEF SendAsyncLost, call, Receive
<1>22. ASSUME NEW c \in Confirmers, SendRefused(c) PROVE BaseInv'
  BY <1>22 DEF SendRefused
<1>23. ASSUME NEW c \in Confirmers, TestSetClosed(c) PROVE BaseInv'
  <2>1. job' \in [Workers -> Jobs]
    <3>0. job[c] \in Jobs
      BY <1>23
    <3>1. [job[c] EXCEPT !.polls = 0, !.last = "none"] \in Jobs
      BY <3>0, PollsAnew
    <3>2. job' = [job EXCEPT ![c] = [job[c] EXCEPT !.polls = 0, !.last = "none"]]
      BY <1>23 DEF TestSetClosed
    <3> QED
      BY <3>1, <3>2
  <2>2. /\ job'[c].doc = job[c].doc /\ job'[c].range = job[c].range
        /\ \A w \in Workers \ {c} : job'[w] = job[w]
    BY <1>23 DEF TestSetClosed
  <2>3. TypeOK'
    BY <1>23, <2>1 DEF TestSetClosed
  <2>4. LocalsOK'
    BY <1>23, <2>2 DEF TestSetClosed
  <2>5. RowsOK' /\ WriteAhead'
    BY <1>23 DEF TestSetClosed
  <2> QED
    BY <2>3, <2>4, <2>5
<1>24. ASSUME NEW w \in Workers, PollAgain(w) PROVE BaseInv'
  BY <1>24 DEF PollAgain, Polling
<1>25. ASSUME NEW w \in Workers, PollAnswered(w) PROVE BaseInv'
  BY <1>25, SMTT(60) DEF PollAnswered, Polling, DianAnswers, Reported, Interpret, Receive
<1>26. ASSUME NEW w \in Workers, PollExhausted(w) PROVE BaseInv'
  BY <1>26 DEF PollExhausted, Polling
<1>27. ASSUME NEW w \in Workers, finishFromPoll(w) PROVE BaseInv'
  BY <1>27 DEF finishFromPoll, StatusOf
<1>28. ASSUME NEW w \in Workers, UpdateDianStatus(w) PROVE BaseInv'
  <2>1. TypeOK'
    <3>1. job[w].outcome \in Statuses
      BY <1>28 DEF UpdateDianStatus
    <3>2. status' \in [Docs -> Statuses]
      BY <1>28, <3>1 DEF UpdateDianStatus
    <3>3. job' \in [Workers -> Jobs]
      <4> HIDE DEF Jobs, NoJob
      <4>1. job' = job \/ job' = [job EXCEPT ![w] = NoJob]
        BY <1>28 DEF UpdateDianStatus
      <4> QED
        BY <4>1, JobTypes
    <3>4. pc' \in [Workers -> Steps]
      BY <1>28 DEF UpdateDianStatus
    <3> QED
      BY <1>28, <3>2, <3>3, <3>4 DEF UpdateDianStatus
  <2>2. LocalsOK'
    BY <1>28 DEF UpdateDianStatus, isRetryableFailure
  <2>3. RowsOK'
    BY <1>28 DEF UpdateDianStatus, isRetryableFailure
  <2>4. WriteAhead'
    BY <1>28 DEF UpdateDianStatus, isRetryableFailure
  <2> QED
    BY <2>1, <2>2, <2>3, <2>4
<1>29. ASSUME NEW w \in Workers, UpdateFails(w) PROVE BaseInv'
  BY <1>29 DEF UpdateFails
<1>30. ASSUME NEW w \in Workers, Release(w) PROVE BaseInv'
  BY <1>30 DEF Release, ReleaseIfCurrent
<1>31. ASSUME NEW w \in Workers, Crash(w) PROVE BaseInv'
  BY <1>31 DEF Crash
<1>32. CASE UNCHANGED vars
  BY <1>32 DEF vars
<1> QED
  BY <1>1, <1>2, <1>3, <1>4, <1>5, <1>6, <1>7, <1>8, <1>9, <1>10, <1>11, <1>12,
     <1>13, <1>14, <1>15, <1>16, <1>17, <1>18, <1>19, <1>20, <1>21, <1>22, <1>23,
     <1>24, <1>25, <1>26, <1>27, <1>28, <1>29, <1>30, <1>31, <1>32
  DEF Next, UserStep, Request, ConfirmStep, FinishStep

\* No request runs at the start.
LEMMA SenderInit == Init => SenderInv
BY DEF Init, CurrentOfNew, SenderInv, OneSender, Sending, SenderStatus, NotYetSent, MismatchNeverSent, Workers

\* documents.Confirm lets one request through: it alone moves the document on
\* until it records an outcome, which a status check may only follow.
LEMMA SenderStep == BaseInv /\ SenderInv /\ [Next]_vars => SenderInv'
<1> SUFFICES ASSUME BaseInv, SenderInv, [Next]_vars PROVE SenderInv'
  OBVIOUS
<1> USE RequestsAssumption
    DEF BaseInv, TypeOK, LocalsOK, Confirmed, Workers, SenderInv, OneSender, Sending,
        SenderStatus, NotYetSent, MismatchNeverSent, isRetryableFailure,
        Jobs, NoJob, Goto, End, Finish, ranges, documents, dian
<1>1. ASSUME NEW d \in Docs, NEW r \in Ranges, Create(d, r) PROVE SenderInv'
  BY <1>1 DEF Create
<1>2. ASSUME NEW d \in Docs, NEW r \in Ranges, UpdateDraft(d, r) PROVE SenderInv'
  BY <1>2 DEF UpdateDraft
<1>3. ASSUME NEW d \in Docs, NEW src \in Docs, CloneDraft(d, src) PROVE SenderInv'
  BY <1>3 DEF CloneDraft
<1>4. ASSUME NEW d \in Docs, DeleteDraft(d) PROVE SenderInv'
  BY <1>4 DEF DeleteDraft
<1>5. ASSUME NEW r \in Ranges, Activate(r) \/ Deactivate(r) PROVE SenderInv'
  BY <1>5 DEF Activate, Deactivate, SetActive
<1>6. ASSUME NEW c \in Confirmers, NEW d \in Docs, Confirm(c, d) PROVE SenderInv'
  BY <1>6 DEF Confirm
<1>7. ASSUME NEW v \in Reviewers, NEW d \in Docs, CheckPendingStatus(v, d) PROVE SenderInv'
  BY <1>7 DEF CheckPendingStatus
<1>8. ASSUME NEW c \in Confirmers, prepare(c) PROVE SenderInv'
  BY <1>8 DEF prepare
<1>9. ASSUME NEW c \in Confirmers, ClaimNext(c) PROVE SenderInv'
  BY <1>9 DEF ClaimNext
<1>10. ASSUME NEW c \in Confirmers, ClaimRefused(c) PROVE SenderInv'
  BY <1>10 DEF ClaimRefused
<1>11. ASSUME NEW c \in Confirmers, SignFails(c) PROVE SenderInv'
  BY <1>11 DEF SignFails
<1>12. ASSUME NEW c \in Confirmers, PersistBuilt(c) PROVE SenderInv'
  <2>1. OneSender'
    BY <1>12 DEF PersistBuilt
  <2>2. SenderStatus'
    BY <1>12 DEF PersistBuilt
  <2>3. NotYetSent'
    BY <1>12 DEF PersistBuilt, WriteAhead
  <2>4. MismatchNeverSent'
    BY <1>12 DEF PersistBuilt
  <2> QED
    BY <2>1, <2>2, <2>3, <2>4
<1>13. ASSUME NEW c \in Confirmers, PersistRefused(c) PROVE SenderInv'
  BY <1>13 DEF PersistRefused
<1>14. ASSUME NEW c \in Confirmers, Abort(c) PROVE SenderInv'
  BY <1>14 DEF Abort, ReleaseIfCurrent
<1>15. ASSUME NEW c \in Confirmers, EnvironmentMismatch(c) PROVE SenderInv'
  BY <1>15 DEF EnvironmentMismatch
<1>16. ASSUME NEW c \in Confirmers, ZipFails(c) PROVE SenderInv'
  BY <1>16 DEF ZipFails
<1>17. ASSUME NEW c \in Confirmers, Dispatch(c) PROVE SenderInv'
  BY <1>17 DEF Dispatch
<1>18. ASSUME NEW c \in Confirmers, SendSyncAnswered(c) PROVE SenderInv'
  BY <1>18 DEF SendSyncAnswered, DianAnswers, Reported, Interpret, StatusOf, Receive
<1>19. ASSUME NEW c \in Confirmers, SendSyncLost(c) PROVE SenderInv'
  BY <1>19 DEF SendSyncLost, call, Receive
<1>20. ASSUME NEW c \in Confirmers, SendAsyncAccepted(c) PROVE SenderInv'
  BY <1>20 DEF SendAsyncAccepted, Receive
<1>21. ASSUME NEW c \in Confirmers, SendAsyncLost(c) PROVE SenderInv'
  BY <1>21 DEF SendAsyncLost, call, Receive
<1>22. ASSUME NEW c \in Confirmers, SendRefused(c) PROVE SenderInv'
  BY <1>22 DEF SendRefused
<1>23. ASSUME NEW c \in Confirmers, TestSetClosed(c) PROVE SenderInv'
  BY <1>23 DEF TestSetClosed
<1>24. ASSUME NEW w \in Workers, PollAgain(w) PROVE SenderInv'
  BY <1>24 DEF PollAgain, Polling
<1>25. ASSUME NEW w \in Workers, PollAnswered(w) PROVE SenderInv'
  BY <1>25 DEF PollAnswered, Polling, DianAnswers, Reported, Interpret, Receive
<1>26. ASSUME NEW w \in Workers, PollExhausted(w) PROVE SenderInv'
  BY <1>26 DEF PollExhausted, Polling
<1>27. ASSUME NEW w \in Workers, finishFromPoll(w) PROVE SenderInv'
  BY <1>27 DEF finishFromPoll, StatusOf
<1>28. ASSUME NEW w \in Workers, UpdateDianStatus(w) PROVE SenderInv'
  <2>1. OneSender'
    BY <1>28 DEF UpdateDianStatus, isRetryableFailure
  <2>2. SenderStatus'
    <3>1. Sending(w) /\ Sending(w)' => pc'[w] = "release"
      BY <1>28 DEF UpdateDianStatus
    <3>2. CASE w \in Confirmers
      BY <1>28, <3>1, <3>2 DEF UpdateDianStatus
    <3>3. CASE w \in Reviewers
      <4>1. job[w].outcome \notin {"built", "environment_mismatch"}
        <5>1. job[w].outcome # "environment_mismatch"
          BY <1>28, <3>3 DEF UpdateDianStatus
        <5>2. job[w].outcome \in Outcomes
          BY DEF Outcomes
        <5> QED
          BY <5>1, <5>2 DEF Outcomes
      <4>2. \A c \in Confirmers : Sending(c) => job[c].doc # job[w].doc
        BY <1>28, <3>3 DEF UpdateDianStatus
      <4>3. \A x \in Workers : Sending(x)' => Sending(x) /\ job'[x] = job[x]
        BY <1>28 DEF UpdateDianStatus
      <4>4. \A x \in Workers \ {w} : pc'[x] = pc[x]
        BY <1>28 DEF UpdateDianStatus
      <4>5. \A d \in Docs : status'[d] = IF d = job[w].doc THEN job[w].outcome ELSE status[d]
        BY <1>28 DEF UpdateDianStatus
      <4> QED
        BY <3>3, <4>1, <4>2, <4>3, <4>4, <4>5
    <3> QED
      BY <3>2, <3>3
  <2>3. NotYetSent'
    BY <1>28 DEF UpdateDianStatus, isRetryableFailure
  <2>4. MismatchNeverSent'
    BY <1>28 DEF UpdateDianStatus, isRetryableFailure
  <2> QED
    BY <2>1, <2>2, <2>3, <2>4
<1>29. ASSUME NEW w \in Workers, UpdateFails(w) PROVE SenderInv'
  BY <1>29 DEF UpdateFails
<1>30. ASSUME NEW w \in Workers, Release(w) PROVE SenderInv'
  BY <1>30 DEF Release, ReleaseIfCurrent
<1>31. ASSUME NEW w \in Workers, Crash(w) PROVE SenderInv'
  BY <1>31 DEF Crash
<1>32. CASE UNCHANGED vars
  BY <1>32 DEF vars
<1> QED
  BY <1>1, <1>2, <1>3, <1>4, <1>5, <1>6, <1>7, <1>8, <1>9, <1>10, <1>11, <1>12, <1>13, <1>14, <1>15, <1>16, <1>17, <1>18, <1>19, <1>20, <1>21, <1>22, <1>23, <1>24, <1>25, <1>26, <1>27, <1>28, <1>29, <1>30, <1>31, <1>32
  DEF Next, UserStep, Request, ConfirmStep, FinishStep

\* Nothing is issued at the start.
LEMMA NumberInit == Init => NumberInv
BY RangesAssumption
DEF Init, CurrentOfNew, NumberInv, CurrentWithinRange, ClaimsIssued, ClaimsDistinct, InForceIssued,
    UniqueInForce, InForceOwned, SenderCarries, ReviewsSent, InForce, Holds, Sending, Workers

\* The ends of a range are integers (stated apart for the arithmetic steps).
LEMMA LimitTypes == \A r \in Ranges : RangeFrom[r] \in Int /\ RangeTo[r] \in Int
BY RangesAssumption

\* A number that was issued still is after a claim, and so is the one claimed.
LEMMA ClaimIssues ==
  ASSUME current \in [Ranges -> Int], NEW r \in Ranges, RangeFrom[r] - 1 <= current[r],
         current' = [current EXCEPT ![r] = current[r] + 1]
  PROVE  \A s \in Ranges, m \in Int :
           Issued(s, m) \/ (s = r /\ m = current[r] + 1)
             => RangeFrom[s] <= m /\ m <= current'[s]
<1> SUFFICES ASSUME NEW s \in Ranges, NEW m \in Int,
                    Issued(s, m) \/ (s = r /\ m = current[r] + 1)
             PROVE  RangeFrom[s] <= m /\ m <= current'[s]
  OBVIOUS
<1>1. RangeFrom[s] \in Int /\ current[s] \in Int
  BY LimitTypes
<1>2. CASE s = r
  BY <1>1, <1>2 DEF Issued
<1>3. CASE s # r
  BY <1>1, <1>3 DEF Issued
<1> QED
  BY <1>2, <1>3

\* A release takes back no other number than the one released.
LEMMA ReleaseKeeps ==
  ASSUME current \in [Ranges -> Int], NEW r \in Ranges, NEW n, ReleaseIfCurrent(r, n)
  PROVE  \A s \in Ranges, m \in Int :
           Issued(s, m) /\ ~(s = r /\ m = n)
             => RangeFrom[s] <= m /\ m <= current'[s]
BY RangesAssumption DEF Issued, ReleaseIfCurrent

\* Every step keeps the numbers apart: a claim is fresh, a release only takes back
\* the last number and only from the request that holds it.  A draft's range must
\* not change under its confirmation, and status checks must not overlap.
LEMMA NumberStep ==
  ASSUME OneRangePerDocument, OneReviewer
  PROVE  BaseInv /\ SenderInv /\ NumberInv /\ [Next]_vars => NumberInv'
<1> SUFFICES ASSUME BaseInv, SenderInv, NumberInv, [Next]_vars PROVE NumberInv'
  OBVIOUS
<1> USE RequestsAssumption, RangesAssumption
    DEF BaseInv, TypeOK, LocalsOK, RowsOK, Confirmed, Workers, SenderInv, OneSender, Sending,
        SenderStatus, isRetryableFailure, OneRangePerDocument, OneReviewer,
        NumberInv, CurrentWithinRange, ClaimsIssued, ClaimsDistinct, InForceIssued,
        UniqueInForce, InForceOwned, SenderCarries, ReviewsSent, InForce, Holds,
        Issued, SameClaim, SameNumber, CarriesClaim,
        Jobs, NoJob, Goto, End, Finish, ranges, documents, dian
<1>1. ASSUME NEW d \in Docs, NEW r \in Ranges, Create(d, r) PROVE NumberInv'
  BY <1>1 DEF Create
<1>2. ASSUME NEW d \in Docs, NEW r \in Ranges, UpdateDraft(d, r) PROVE NumberInv'
  BY <1>2 DEF UpdateDraft
<1>3. ASSUME NEW d \in Docs, NEW src \in Docs, CloneDraft(d, src) PROVE NumberInv'
  BY <1>3 DEF CloneDraft
<1>4. ASSUME NEW d \in Docs, DeleteDraft(d) PROVE NumberInv'
  BY <1>4 DEF DeleteDraft
<1>5. ASSUME NEW r \in Ranges, Activate(r) \/ Deactivate(r) PROVE NumberInv'
  BY <1>5 DEF Activate, Deactivate, SetActive
<1>6. ASSUME NEW c \in Confirmers, NEW d \in Docs, Confirm(c, d) PROVE NumberInv'
  BY <1>6 DEF Confirm
<1>7. ASSUME NEW v \in Reviewers, NEW d \in Docs, CheckPendingStatus(v, d) PROVE NumberInv'
  <2>1. CurrentWithinRange'
    BY <1>7 DEF CheckPendingStatus
  <2>2. ClaimsIssued'
    BY <1>7 DEF CheckPendingStatus
  <2>3. ClaimsDistinct'
    <3>1. InForce(d) /\ prefix[d] = rangeId[d]
      BY <1>7 DEF CheckPendingStatus
    <3>2. \A w \in Workers \ {v} : Holds(w) => ~CarriesClaim(d, w)
      BY <1>7, <3>1 DEF CheckPendingStatus
    <3>3. job'[v].range = prefix[d] /\ job'[v].num = number[d]
      BY <1>7, <3>1 DEF CheckPendingStatus
    <3>4. \A w \in Workers \ {v} : job'[w] = job[w] /\ pc'[w] = pc[w]
      BY <1>7 DEF CheckPendingStatus
    <3> QED
      BY <3>2, <3>3, <3>4
  <2>4. InForceIssued'
    BY <1>7 DEF CheckPendingStatus
  <2>5. UniqueInForce'
    BY <1>7 DEF CheckPendingStatus
  <2>6. InForceOwned'
    BY <1>7 DEF CheckPendingStatus
  <2>7. SenderCarries'
    BY <1>7 DEF CheckPendingStatus
  <2>8. ReviewsSent'
    BY <1>7 DEF CheckPendingStatus
  <2> QED
    BY <2>1, <2>2, <2>3, <2>4, <2>5, <2>6, <2>7, <2>8
<1>8. ASSUME NEW c \in Confirmers, prepare(c) PROVE NumberInv'
  BY <1>8 DEF prepare
<1>9. ASSUME NEW c \in Confirmers, ClaimNext(c) PROVE NumberInv'
  <2>1. CurrentWithinRange'
    BY <1>9 DEF ClaimNext
  <2>2. ClaimsIssued'
    <3>1. /\ job[c].range \in Ranges
          /\ RangeFrom[job[c].range] - 1 <= current[job[c].range]
          /\ current' = [current EXCEPT ![job[c].range] = current[job[c].range] + 1]
      <4>1. job[c].range \in Ranges
        BY <1>9 DEF ClaimNext
      <4>2. RangeFrom[job[c].range] - 1 <= current[job[c].range]
        BY <4>1
      <4>3. current' = [current EXCEPT ![job[c].range] = @ + 1]
        BY <1>9 DEF ClaimNext
      <4> QED
        BY <4>1, <4>2, <4>3
    <3>2. Holds(c)' => /\ job'[c].range = job[c].range
                       /\ job'[c].num = current[job[c].range] + 1
      BY <1>9 DEF ClaimNext
    <3>3. \A w \in Workers \ {c} :
            Holds(w)' => job'[w] = job[w] /\ Issued(job[w].range, job[w].num)
      BY <1>9 DEF ClaimNext
    <3>4. \A w \in Workers :
            Holds(w)' => job'[w].range \in Ranges /\ job'[w].num \in Int
      BY <1>9, SMTT(60) DEF ClaimNext
    <3>5. current \in [Ranges -> Int]
      OBVIOUS
    <3> HIDE DEF Issued, Holds, BaseInv, NumberInv, SenderInv
    <3> QED
      BY <3>1, <3>2, <3>3, <3>4, <3>5, ClaimIssues DEF Issued
  <2>3. ClaimsDistinct'
    BY <1>9 DEF ClaimNext
  <2>4. InForceIssued'
    BY <1>9 DEF ClaimNext
  <2>5. UniqueInForce'
    BY <1>9 DEF ClaimNext
  <2>6. InForceOwned'
    BY <1>9, SMTT(60) DEF ClaimNext
  <2>7. SenderCarries'
    BY <1>9, SMTT(60) DEF ClaimNext
  <2>8. ReviewsSent'
    BY <1>9 DEF ClaimNext
  <2> QED
    BY <2>1, <2>2, <2>3, <2>4, <2>5, <2>6, <2>7, <2>8
<1>10. ASSUME NEW c \in Confirmers, ClaimRefused(c) PROVE NumberInv'
  BY <1>10 DEF ClaimRefused
<1>11. ASSUME NEW c \in Confirmers, SignFails(c) PROVE NumberInv'
  BY <1>11 DEF SignFails
<1>12. ASSUME NEW c \in Confirmers, PersistBuilt(c) PROVE NumberInv'
  <2>1. CurrentWithinRange'
    BY <1>12 DEF PersistBuilt
  <2>2. ClaimsIssued'
    BY <1>12 DEF PersistBuilt
  <2>3. ClaimsDistinct'
    BY <1>12, SMTT(60) DEF PersistBuilt
  <2>4. InForceIssued'
    BY <1>12 DEF PersistBuilt
  <2>5. UniqueInForce'
    BY <1>12 DEF PersistBuilt
  <2>6. InForceOwned'
    <3>1. \A e \in Docs : InForce(e)' => InForce(e) /\ e # job[c].doc
      BY <1>12 DEF PersistBuilt, WriteAhead
    <3>2. \A e \in Docs \ {job[c].doc} : prefix'[e] = prefix[e] /\ number'[e] = number[e]
      BY <1>12 DEF PersistBuilt
    <3>3. job'[c].range = job[c].range /\ \A w \in Workers : job'[w].num = job[w].num
      BY <1>12 DEF PersistBuilt
    <3>4. \A w \in Workers : job'[w].range = job[w].range /\ job'[w].doc = job[w].doc
      BY <1>12, <3>3 DEF PersistBuilt
    <3>5. \A w \in Workers \ {c} : pc'[w] = pc[w]
      BY <1>12 DEF PersistBuilt
    <3>6. pc[c] = "sign" /\ pc'[c] \in {"built", "abort"}
      BY <1>12 DEF PersistBuilt
    <3>7. \A e \in Docs, w \in Workers : InForce(e) /\ Holds(w) /\ CarriesClaim(e, w) => w # c
      BY <3>6
    <3> QED
      BY <3>1, <3>2, <3>3, <3>4, <3>5, <3>6, <3>7
  <2>7. SenderCarries'
    BY <1>12 DEF PersistBuilt
  <2>8. ReviewsSent'
    BY <1>12 DEF PersistBuilt
  <2> QED
    BY <2>1, <2>2, <2>3, <2>4, <2>5, <2>6, <2>7, <2>8
<1>13. ASSUME NEW c \in Confirmers, PersistRefused(c) PROVE NumberInv'
  BY <1>13 DEF PersistRefused
<1>14. ASSUME NEW c \in Confirmers, Abort(c) PROVE NumberInv'
  <2>1. CurrentWithinRange'
    BY <1>14 DEF Abort, ReleaseIfCurrent
  <2>2. ClaimsIssued'
    <3>1. job[c].range \in Ranges /\ Holds(c)
      BY <1>14 DEF Abort
    <3>2. current' = current \/ ReleaseIfCurrent(job[c].range, job[c].num)
      BY <1>14 DEF Abort
    <3>3. \A x \in Workers : Holds(x)' => Holds(x) /\ x # c /\ job'[x] = job[x]
      BY <1>14 DEF Abort
    <3>4. \A x \in Workers : Holds(x) => job[x].range \in Ranges /\ job[x].num \in Int
      OBVIOUS
    <3>5. current \in [Ranges -> Int] /\ ClaimsIssued /\ ClaimsDistinct
      OBVIOUS
    <3> HIDE DEF Issued, Holds, BaseInv, NumberInv, SenderInv
    <3> QED
      BY <3>1, <3>2, <3>3, <3>4, <3>5, ReleaseKeeps DEF Issued
  <2>3. ClaimsDistinct'
    BY <1>14 DEF Abort, ReleaseIfCurrent
  <2>4. InForceIssued'
    <3>1. job[c].range \in Ranges
      BY <1>14 DEF Abort
    <3>2. current' = current \/ ReleaseIfCurrent(job[c].range, job[c].num)
      BY <1>14 DEF Abort
    <3>3. \A e \in Docs : InForce(e) => ~CarriesClaim(e, c)
      BY <1>14 DEF Abort
    <3>4. \A e \in Docs : InForce(e) => prefix[e] \in Ranges /\ number[e] \in Int
      OBVIOUS
    <3>5. \A e \in Docs : InForce(e)' => InForce(e)
      BY <1>14 DEF Abort
    <3>6. prefix' = prefix /\ number' = number
      BY <1>14 DEF Abort
    <3>7. current \in [Ranges -> Int] /\ InForceIssued
      OBVIOUS
    <3> HIDE DEF Issued, InForce, BaseInv, NumberInv, SenderInv
    <3> QED
      BY <3>1, <3>2, <3>3, <3>4, <3>5, <3>6, <3>7, ReleaseKeeps DEF Issued
  <2>5. UniqueInForce'
    BY <1>14 DEF Abort, ReleaseIfCurrent
  <2>6. InForceOwned'
    BY <1>14 DEF Abort, ReleaseIfCurrent
  <2>7. SenderCarries'
    BY <1>14 DEF Abort, ReleaseIfCurrent
  <2>8. ReviewsSent'
    BY <1>14 DEF Abort, ReleaseIfCurrent
  <2> QED
    BY <2>1, <2>2, <2>3, <2>4, <2>5, <2>6, <2>7, <2>8
<1>15. ASSUME NEW c \in Confirmers, EnvironmentMismatch(c) PROVE NumberInv'
  BY <1>15 DEF EnvironmentMismatch
<1>16. ASSUME NEW c \in Confirmers, ZipFails(c) PROVE NumberInv'
  BY <1>16 DEF ZipFails
<1>17. ASSUME NEW c \in Confirmers, Dispatch(c) PROVE NumberInv'
  BY <1>17 DEF Dispatch
<1>18. ASSUME NEW c \in Confirmers, SendSyncAnswered(c) PROVE NumberInv'
  BY <1>18, SMTT(60) DEF SendSyncAnswered, DianAnswers, Reported, Interpret, StatusOf, Receive
<1>19. ASSUME NEW c \in Confirmers, SendSyncLost(c) PROVE NumberInv'
  BY <1>19 DEF SendSyncLost, call, Receive
<1>20. ASSUME NEW c \in Confirmers, SendAsyncAccepted(c) PROVE NumberInv'
  BY <1>20 DEF SendAsyncAccepted, Receive
<1>21. ASSUME NEW c \in Confirmers, SendAsyncLost(c) PROVE NumberInv'
  BY <1>21 DEF SendAsyncLost, call, Receive
<1>22. ASSUME NEW c \in Confirmers, SendRefused(c) PROVE NumberInv'
  BY <1>22 DEF SendRefused
<1>23. ASSUME NEW c \in Confirmers, TestSetClosed(c) PROVE NumberInv'
  BY <1>23 DEF TestSetClosed
<1>24. ASSUME NEW w \in Workers, PollAgain(w) PROVE NumberInv'
  BY <1>24 DEF PollAgain, Polling
<1>25. ASSUME NEW w \in Workers, PollAnswered(w) PROVE NumberInv'
  BY <1>25 DEF PollAnswered, Polling, DianAnswers, Reported, Interpret, Receive
<1>26. ASSUME NEW w \in Workers, PollExhausted(w) PROVE NumberInv'
  BY <1>26 DEF PollExhausted, Polling
<1>27. ASSUME NEW w \in Workers, finishFromPoll(w) PROVE NumberInv'
  BY <1>27 DEF finishFromPoll, StatusOf
<1>28. ASSUME NEW w \in Workers, UpdateDianStatus(w) PROVE NumberInv'
  <2>1. CurrentWithinRange'
    BY <1>28 DEF UpdateDianStatus, isRetryableFailure
  <2>2. ClaimsIssued'
    BY <1>28 DEF UpdateDianStatus, isRetryableFailure
  <2>3. ClaimsDistinct'
    BY <1>28 DEF UpdateDianStatus, isRetryableFailure
  <2>4. InForceIssued'
    BY <1>28 DEF UpdateDianStatus, isRetryableFailure
  <2>5. UniqueInForce'
    BY <1>28 DEF UpdateDianStatus, isRetryableFailure
  <2>6. InForceOwned'
    BY <1>28 DEF UpdateDianStatus, isRetryableFailure
  <2>7. SenderCarries'
    <3>1. \A x \in Workers : Sending(x)' => Sending(x) /\ job'[x] = job[x]
      BY <1>28 DEF UpdateDianStatus
    <3>2. prefix' = prefix /\ number' = number
      BY <1>28 DEF UpdateDianStatus
    <3> QED
      BY <3>1, <3>2
  <2>8. ReviewsSent'
    BY <1>28 DEF UpdateDianStatus, isRetryableFailure
  <2> QED
    BY <2>1, <2>2, <2>3, <2>4, <2>5, <2>6, <2>7, <2>8
<1>29. ASSUME NEW w \in Workers, UpdateFails(w) PROVE NumberInv'
  BY <1>29 DEF UpdateFails
<1>30. ASSUME NEW w \in Workers, Release(w) PROVE NumberInv'
  <2>1. CurrentWithinRange'
    BY <1>30 DEF Release, ReleaseIfCurrent
  <2>2. ClaimsIssued'
    <3>1. job[w].range \in Ranges /\ Holds(w)
      BY <1>30 DEF Release
    <3>2. current' = current \/ ReleaseIfCurrent(job[w].range, job[w].num)
      BY <1>30 DEF Release
    <3>3. \A x \in Workers : Holds(x)' => Holds(x) /\ x # w /\ job'[x] = job[x]
      BY <1>30 DEF Release
    <3>4. \A x \in Workers : Holds(x) => job[x].range \in Ranges /\ job[x].num \in Int
      OBVIOUS
    <3>5. current \in [Ranges -> Int] /\ ClaimsIssued /\ ClaimsDistinct
      OBVIOUS
    <3> HIDE DEF Issued, Holds, BaseInv, NumberInv, SenderInv
    <3> QED
      BY <3>1, <3>2, <3>3, <3>4, <3>5, ReleaseKeeps DEF Issued
  <2>3. ClaimsDistinct'
    BY <1>30 DEF Release, ReleaseIfCurrent
  <2>4. InForceIssued'
    <3>1. job[w].range \in Ranges
      BY <1>30 DEF Release
    <3>2. current' = current \/ ReleaseIfCurrent(job[w].range, job[w].num)
      BY <1>30 DEF Release
    <3>3. \A e \in Docs : InForce(e) => ~CarriesClaim(e, w)
      BY <1>30 DEF Release
    <3>4. \A e \in Docs : InForce(e) => prefix[e] \in Ranges /\ number[e] \in Int
      OBVIOUS
    <3>5. \A e \in Docs : InForce(e)' => InForce(e)
      BY <1>30 DEF Release
    <3>6. prefix' = prefix /\ number' = number
      BY <1>30 DEF Release
    <3>7. current \in [Ranges -> Int] /\ InForceIssued
      OBVIOUS
    <3> HIDE DEF Issued, InForce, BaseInv, NumberInv, SenderInv
    <3> QED
      BY <3>1, <3>2, <3>3, <3>4, <3>5, <3>6, <3>7, ReleaseKeeps DEF Issued
  <2>5. UniqueInForce'
    BY <1>30 DEF Release, ReleaseIfCurrent
  <2>6. InForceOwned'
    BY <1>30 DEF Release, ReleaseIfCurrent
  <2>7. SenderCarries'
    BY <1>30 DEF Release, ReleaseIfCurrent
  <2>8. ReviewsSent'
    BY <1>30 DEF Release, ReleaseIfCurrent
  <2> QED
    BY <2>1, <2>2, <2>3, <2>4, <2>5, <2>6, <2>7, <2>8
<1>31. ASSUME NEW w \in Workers, Crash(w) PROVE NumberInv'
  BY <1>31 DEF Crash
<1>32. CASE UNCHANGED vars
  BY <1>32 DEF vars
<1> QED
  BY <1>1, <1>2, <1>3, <1>4, <1>5, <1>6, <1>7, <1>8, <1>9, <1>10, <1>11, <1>12, <1>13, <1>14, <1>15, <1>16, <1>17, <1>18, <1>19, <1>20, <1>21, <1>22, <1>23, <1>24, <1>25, <1>26, <1>27, <1>28, <1>29, <1>30, <1>31, <1>32
  DEF Next, UserStep, Request, ConfirmStep, FinishStep

-----------------------------------------------------------------------------
\* Types, the locals of the running requests, and the write-ahead of documents.Confirm
\* hold in every reachable state, for any requests and any faults.
THEOREM BaseInvariant == Spec => []BaseInv
BY TypeInit, BaseStep, PTL DEF Spec

\* The request whose documents.Confirm succeeded is the only one to send the document,
\* and finds it "built" until it records the outcome itself.
THEOREM SenderInvariant == Spec => []SenderInv
BY SenderInit, SenderStep, BaseInvariant, PTL DEF Spec

\* What is persisted before it is sent stays persisted: a document the DIAN
\* holds is never a draft again, whatever fails and whoever asks.
THEOREM WriteAheadHolds == Spec => []WriteAhead
<1>1. BaseInv => WriteAhead
  BY DEF BaseInv
<1> QED
  BY <1>1, BaseInvariant, PTL

\* However many requests confirm or check one document, whichever of them die,
\* only one request at a time sends it.
THEOREM OneSenderHolds == Spec => []OneSender
<1>1. SenderInv => OneSender
  BY DEF SenderInv
<1> QED
  BY <1>1, SenderInvariant, PTL

\* A number released because of the range's environment never reached the DIAN.
THEOREM MismatchNeverSentHolds == Spec => []MismatchNeverSent
<1>1. SenderInv => MismatchNeverSent
  BY DEF SenderInv
<1> QED
  BY <1>1, SenderInvariant, PTL

\* The numbers of documents in force and of running requests are issued, distinct,
\* and owned by one request at most: the inductive form of UniqueInForce.
THEOREM NumberInvariant ==
  ASSUME OneRangePerDocument, OneReviewer
  PROVE  Spec => []NumberInv
<1>1. Init => NumberInv
  BY NumberInit
<1>2. BaseInv /\ SenderInv /\ NumberInv /\ [Next]_vars => NumberInv'
  BY NumberStep
<1> QED
  BY <1>1, <1>2, BaseInvariant, SenderInvariant, PTL DEF Spec

\* No two documents in force share a number, for any number of concurrent
\* confirmations, failures and lost replies, when drafts keep their range and
\* at most one status check runs at a time.
THEOREM UniqueInForceHolds ==
  ASSUME OneRangePerDocument, OneReviewer
  PROVE  Spec => []UniqueInForce
<1>1. NumberInv => UniqueInForce
  BY DEF NumberInv
<1> QED
  BY <1>1, NumberInvariant, PTL

\* Under the same conditions current_number is never behind a document in
\* force, nor beyond the end of a range that issued one.
THEOREM CurrentIsLastClaimedHolds ==
  ASSUME OneRangePerDocument, OneReviewer
  PROVE  Spec => []CurrentIsLastClaimed
<1>1. BaseInv /\ NumberInv => CurrentIsLastClaimed
  <2> SUFFICES ASSUME BaseInv, NumberInv, NEW d \in Docs, InForce(d)
               PROVE  /\ RangeFrom[prefix[d]] <= number[d]
                      /\ number[d] <= current[prefix[d]]
                      /\ current[prefix[d]] <= RangeTo[prefix[d]]
    BY DEF CurrentIsLastClaimed
  <2>1. prefix[d] \in Ranges
    BY RangesAssumption DEF BaseInv, RowsOK, InForce, Confirmed
  <2>2. Issued(prefix[d], number[d])
    BY DEF NumberInv, InForceIssued
  <2>3. /\ number[d] \in Int /\ current[prefix[d]] \in Int
        /\ RangeFrom[prefix[d]] \in Int
    BY <2>1, LimitTypes DEF BaseInv, TypeOK
  <2>4. RangeFrom[prefix[d]] <= current[prefix[d]]
    BY <2>2, <2>3 DEF Issued
  <2> QED
    BY <2>1, <2>2, <2>4 DEF NumberInv, CurrentWithinRange, Issued
<1> QED
  BY <1>1, BaseInvariant, NumberInvariant, PTL

\* How a step may change a document's row: before it is confirmed, or as the
\* record of an outcome by a running request, and in no other way.
LEMMA RowChange ==
  ASSUME BaseInv, [Next]_vars, NEW e \in Docs
  PROVE  \/ status'[e] = status[e] /\ number'[e] = number[e] /\ prefix'[e] = prefix[e]
         \/ /\ status[e] \in {"absent", "draft"}
            /\ status'[e] \in {"absent", "draft", "deleted", "built"}
         \/ \E w \in Workers : /\ pc[w] = "record" /\ job[w].doc = e
                               /\ status'[e] = job[w].outcome
                               /\ number'[e] = number[e] /\ prefix'[e] = prefix[e]
<1> DEFINE Same == status'[e] = status[e] /\ number'[e] = number[e] /\ prefix'[e] = prefix[e]
           Recorded(w) == /\ pc[w] = "record" /\ job[w].doc = e
                          /\ status'[e] = job[w].outcome
                          /\ number'[e] = number[e] /\ prefix'[e] = prefix[e]
           Moves == \/ Same
                    \/ /\ status[e] \in {"absent", "draft"}
                       /\ status'[e] \in {"absent", "draft", "deleted", "built"}
                    \/ \E w \in Workers : Recorded(w)
<1> SUFFICES Moves
  OBVIOUS
<1> USE DEF BaseInv, TypeOK, ranges, documents, dian
<1>1. ASSUME NEW d \in Docs, NEW r \in Ranges, Create(d, r) PROVE Moves
  BY <1>1 DEF Create
<1>2. ASSUME NEW d \in Docs, NEW r \in Ranges, UpdateDraft(d, r) PROVE Moves
  BY <1>2 DEF UpdateDraft
<1>3. ASSUME NEW d \in Docs, NEW src \in Docs, CloneDraft(d, src) PROVE Moves
  BY <1>3 DEF CloneDraft
<1>4. ASSUME NEW d \in Docs, DeleteDraft(d) PROVE Moves
  BY <1>4 DEF DeleteDraft
<1>5. ASSUME NEW r \in Ranges, Activate(r) \/ Deactivate(r) PROVE Moves
  BY <1>5 DEF Activate, Deactivate, SetActive
<1>6. ASSUME NEW c \in Confirmers, NEW d \in Docs, Confirm(c, d) PROVE Moves
  BY <1>6 DEF Confirm
<1>7. ASSUME NEW v \in Reviewers, NEW d \in Docs, CheckPendingStatus(v, d) PROVE Moves
  BY <1>7 DEF CheckPendingStatus
<1>8. ASSUME NEW c \in Confirmers, prepare(c) PROVE Moves
  BY <1>8 DEF prepare
<1>9. ASSUME NEW c \in Confirmers, ClaimNext(c) PROVE Moves
  BY <1>9 DEF ClaimNext
<1>10. ASSUME NEW c \in Confirmers, ClaimRefused(c) PROVE Moves
  BY <1>10 DEF ClaimRefused
<1>11. ASSUME NEW c \in Confirmers, SignFails(c) PROVE Moves
  BY <1>11 DEF SignFails
<1>12. ASSUME NEW c \in Confirmers, PersistBuilt(c) PROVE Moves
  BY <1>12 DEF PersistBuilt
<1>13. ASSUME NEW c \in Confirmers, PersistRefused(c) PROVE Moves
  BY <1>13 DEF PersistRefused
<1>14. ASSUME NEW c \in Confirmers, Abort(c) PROVE Moves
  BY <1>14 DEF Abort, ReleaseIfCurrent
<1>15. ASSUME NEW c \in Confirmers, EnvironmentMismatch(c) PROVE Moves
  BY <1>15 DEF EnvironmentMismatch
<1>16. ASSUME NEW c \in Confirmers, ZipFails(c) PROVE Moves
  BY <1>16 DEF ZipFails
<1>17. ASSUME NEW c \in Confirmers, Dispatch(c) PROVE Moves
  BY <1>17 DEF Dispatch
<1>18. ASSUME NEW c \in Confirmers, SendSyncAnswered(c) PROVE Moves
  BY <1>18 DEF SendSyncAnswered, DianAnswers, Reported, Interpret, StatusOf, Receive
<1>19. ASSUME NEW c \in Confirmers, SendSyncLost(c) PROVE Moves
  BY <1>19 DEF SendSyncLost, call, Receive
<1>20. ASSUME NEW c \in Confirmers, SendAsyncAccepted(c) PROVE Moves
  BY <1>20 DEF SendAsyncAccepted, Receive
<1>21. ASSUME NEW c \in Confirmers, SendAsyncLost(c) PROVE Moves
  BY <1>21 DEF SendAsyncLost, call, Receive
<1>22. ASSUME NEW c \in Confirmers, SendRefused(c) PROVE Moves
  BY <1>22 DEF SendRefused
<1>23. ASSUME NEW c \in Confirmers, TestSetClosed(c) PROVE Moves
  BY <1>23 DEF TestSetClosed
<1>24. ASSUME NEW w \in Workers, PollAgain(w) PROVE Moves
  BY <1>24 DEF PollAgain, Polling
<1>25. ASSUME NEW w \in Workers, PollAnswered(w) PROVE Moves
  BY <1>25 DEF PollAnswered, Polling, DianAnswers, Reported, Interpret, Receive
<1>26. ASSUME NEW w \in Workers, PollExhausted(w) PROVE Moves
  BY <1>26 DEF PollExhausted, Polling
<1>27. ASSUME NEW w \in Workers, finishFromPoll(w) PROVE Moves
  BY <1>27 DEF finishFromPoll, StatusOf
<1>28. ASSUME NEW w \in Workers, UpdateDianStatus(w) PROVE Moves
  BY <1>28 DEF UpdateDianStatus, isRetryableFailure
<1>29. ASSUME NEW w \in Workers, UpdateFails(w) PROVE Moves
  BY <1>29 DEF UpdateFails
<1>30. ASSUME NEW w \in Workers, Release(w) PROVE Moves
  BY <1>30 DEF Release, ReleaseIfCurrent
<1>31. ASSUME NEW w \in Workers, Crash(w) PROVE Moves
  BY <1>31 DEF Crash
<1>32. CASE UNCHANGED vars
  BY <1>32 DEF vars
<1> QED
  BY <1>1, <1>2, <1>3, <1>4, <1>5, <1>6, <1>7, <1>8, <1>9, <1>10, <1>11, <1>12, <1>13, <1>14, <1>15, <1>16, <1>17, <1>18, <1>19, <1>20, <1>21, <1>22, <1>23, <1>24, <1>25, <1>26, <1>27, <1>28, <1>29, <1>30, <1>31, <1>32
  DEF Next, UserStep, Request, ConfirmStep, FinishStep

\* What was signed stays the document's.
LEMMA ConfirmedKept ==
  ASSUME BaseInv, [Next]_vars, NEW d \in Docs, Confirmed(d)
  PROVE  /\ number'[d] = number[d] /\ prefix'[d] = prefix[d]
         /\ Confirmed(d)'
<1>1. \A w \in Workers : pc[w] = "record" =>
        job[w].outcome \notin {"absent", "deleted", "draft"}
  BY DEF BaseInv, TypeOK, Jobs, Outcomes
<1> QED
  BY <1>1, RowChange DEF Confirmed

\* The number, the prefix and the confirmed state of a document never change
\* once it left "draft".
THEOREM ConfirmedIsFrozenHolds == Spec => ConfirmedIsFrozen
<1>1. BaseInv /\ [Next]_vars =>
        [\A d \in Docs : Confirmed(d) =>
           /\ number'[d] = number[d] /\ prefix'[d] = prefix[d]
           /\ Confirmed(d)']_vars
  BY ConfirmedKept
<1> QED
  BY <1>1, BaseInvariant, PTL DEF Spec, ConfirmedIsFrozen

\* Under the conditions of NumberInvariant an outcome is never overwritten.
THEOREM FinalStatusStaysHolds ==
  ASSUME OneRangePerDocument, OneReviewer
  PROVE  Spec => FinalStatusStays
<1>1. BaseInv /\ SenderInv /\ NumberInv /\ [Next]_vars =>
        [\A d \in Docs : status[d] \notin {"absent", "draft", "built", "sent"} =>
           status'[d] = status[d]]_vars
  <2> SUFFICES ASSUME BaseInv, SenderInv, NumberInv, [Next]_vars, NEW d \in Docs,
                      status[d] \notin {"absent", "draft", "built", "sent"}
               PROVE  status'[d] = status[d]
    OBVIOUS
  <2>1. \A w \in Workers : pc[w] = "record" => status[job[w].doc] \in {"built", "sent"}
    BY DEF SenderInv, SenderStatus, NumberInv, ReviewsSent, Sending, Workers
  <2> QED
    BY <2>1, RowChange
<1> QED
  BY <1>1, BaseInvariant, SenderInvariant, NumberInvariant, PTL
  DEF Spec, FinalStatusStays

-----------------------------------------------------------------------------
(* What the DIAN decided and what is on record.                            *)

\* The document a request sends is confirmed and not recorded yet, and no other
\* request is about it.
LEMMA SenderHas ==
  ASSUME BaseInv, SenderInv, NumberInv, OneReviewer, NEW w \in Workers, Sending(w)
  PROVE  LET d == job[w].doc IN
         /\ d \in Docs /\ Confirmed(d) /\ CarriesClaim(d, w)
         /\ pc[w] # "release" => status[d] \in {"built", "sent"}
         /\ \A x \in Workers \ {w} : Sending(x) => job[x].doc # d
<1>1. job[w].doc \in Docs /\ Confirmed(job[w].doc)
  BY DEF BaseInv, LocalsOK, Sending
<1>2. CarriesClaim(job[w].doc, w)
  BY DEF NumberInv, SenderCarries
<1>3. pc[w] # "release" => status[job[w].doc] \in {"built", "sent"}
  BY DEF SenderInv, SenderStatus, NumberInv, ReviewsSent, Workers
<1>4. ASSUME NEW x \in Workers \ {w}, Sending(x)
      PROVE  job[x].doc # job[w].doc
  BY <1>4 DEF SenderInv, OneSender, OneReviewer, Workers
<1> QED
  BY <1>1, <1>2, <1>3, <1>4

\* A validation under the number of a document still being sent is one by hand, or of a
\* document whose outcome the system had settled without an answer.
LEMMA ForeignIsExplained ==
  ASSUME BaseInv, SenderInv, NumberInv, OneReviewer, DianInv,
         NEW w \in Workers, Sending(w), Foreign(job[w].doc, "valid")
  PROVE  ValidByAnother(job[w].doc)
<1> SUFFICES ASSUME NEW e \in Docs \ {job[w].doc}, verdict[e] = "valid", SameNumber(job[w].doc, e)
             PROVE  e \in guessed
  BY DEF Foreign, ValidByAnother
<1>1. InForce(e) \/ e \in guessed
  BY DEF DianInv, DeliveredInForce
<1>2. CarriesClaim(e, w) /\ Holds(w)
  BY SenderHas DEF CarriesClaim, SameNumber, Holds
<1> QED
  BY <1>1, <1>2 DEF NumberInv, InForceOwned

\* What the DIAN decided of another document that has the number remains.
LEMMA ForeignKept ==
  ASSUME BaseInv, DianInv, [Next]_vars, NEW d \in Docs, Confirmed(d), guessed \subseteq guessed',
         \A e \in Docs : verdict[e] # "none" => verdict'[e] = verdict[e]
  PROVE  /\ Foreign(d, "invalid") => Foreign(d, "invalid")'
         /\ ValidByAnother(d) => ValidByAnother(d)'
<1>1. number'[d] = number[d] /\ prefix'[d] = prefix[d]
  BY ConfirmedKept
<1>2. ASSUME NEW e \in Docs \ {d}, verdict[e] # "none", SameNumber(d, e)
      PROVE  verdict'[e] = verdict[e] /\ SameNumber(d, e)'
  <2>1. e \in delivered
    BY <1>2 DEF DianInv, DeliveredInForce
  <2>2. Confirmed(e)
    BY <2>1 DEF BaseInv, WriteAhead
  <2>3. number'[e] = number[e] /\ prefix'[e] = prefix[e]
    BY <2>2, ConfirmedKept
  <2> QED
    BY <1>1, <1>2, <2>3 DEF SameNumber
<1>3. guessed \subseteq Docs
  BY DEF BaseInv, TypeOK
<1>4. ASSUME Foreign(d, "invalid")
      PROVE  Foreign(d, "invalid")'
  BY <1>1, <1>2, <1>4 DEF Foreign
<1>5. ASSUME ValidByAnother(d)
      PROVE  ValidByAnother(d)'
  BY <1>1, <1>2, <1>3, <1>5 DEF ValidByAnother
<1> QED
  BY <1>4, <1>5

\* Nor does what was decided of it, whatever becomes of the others.
LEMMA DecidedKept ==
  ASSUME BaseInv, DianInv, [Next]_vars, NEW d \in Docs, Confirmed(d), NEW reply, Decided(d, reply),
         verdict'[d] = verdict[d], d \in delivered' <=> d \in delivered, guessed \subseteq guessed',
         \A e \in Docs : verdict[e] # "none" => verdict'[e] = verdict[e]
  PROVE  Decided(d, reply)'
BY ForeignKept DEF Decided

\* The other requests' answers are about other documents.
LEMMA OthersAnswers ==
  ASSUME BaseInv, DianInv, [Next]_vars, NEW x \in Workers, pc'[x] = pc[x], job'[x] = job[x],
         LET d == job[x].doc IN
           Sending(x) => verdict'[d] = verdict[d] /\ (d \in delivered' <=> d \in delivered),
         guessed \subseteq guessed',
         \A e \in Docs : verdict[e] # "none" => verdict'[e] = verdict[e]
  PROVE  AnswerOK(x)'
<1> DEFINE d == job[x].doc
<1>1. AnswerOK(x)
  BY DEF DianInv
<1>2. job'[x].doc = d
  OBVIOUS
<1>3. pc[x] \in {"built", "sync", "testset"} => d \notin delivered'
  BY <1>1 DEF AnswerOK, Sending
<1>4. ASSUME pc[x] \in {"polled", "record"}
      PROVE  \A reply : Decided(d, reply) => Decided(d, reply)'
  <2>1. Sending(x) /\ d \in Docs /\ Confirmed(d)
    BY <1>4 DEF Sending, BaseInv, LocalsOK
  <2> HIDE DEF d
  <2> TAKE reply
  <2>3. HAVE Decided(d, reply)
  <2> QED
    BY <2>1, <2>3, DecidedKept DEF d
<1>5. pc[x] = "record" /\ job[x].outcome = "send_error" => d \notin delivered' \/ d \in guessed'
  BY <1>1 DEF AnswerOK, Sending
<1> QED
  BY <1>1, <1>3, <1>4, <1>5 DEF AnswerOK, Decided

\* A step that the DIAN has no part in: who wrote an outcome wrote what was decided.
LEMMA SystemStep ==
  ASSUME BaseInv, SenderInv, DianInv, [Next]_vars,
         delivered' = delivered, verdict' = verdict, guessed \subseteq guessed',
         \A x \in Workers : AnswerOK(x)' \/ (pc'[x] = pc[x] /\ job'[x] = job[x])
  PROVE  DianInv'
<1>1. \A e \in Docs : verdict[e] # "none" => verdict'[e] = verdict[e]
  OBVIOUS
<1>2. \A x \in Workers : AnswerOK(x)'
  BY <1>1, OthersAnswers
<1>3. ASSUME NEW d \in Docs, NEW w \in Workers, pc[w] = "record", job[w].doc = d, status'[d] = job[w].outcome
      PROVE  /\ status'[d] \in {"sent", "accepted", "rejected", "send_error", "send_unknown",
                                "environment_mismatch"}
             /\ status'[d] = "accepted" => Decided(d, "valid")
             /\ status'[d] = "rejected" => Decided(d, "invalid")
             /\ status'[d] = "send_error" => d \notin delivered \/ d \in guessed
             /\ status'[d] = "environment_mismatch" => d \notin delivered
  <2>1. job[w].outcome \in Outcomes \ {"none"}
    BY <1>3 DEF BaseInv, TypeOK, Jobs, LocalsOK
  <2>2. AnswerOK(w) /\ NotYetSent
    BY DEF DianInv, SenderInv
  <2> QED
    BY <1>3, <2>1, <2>2 DEF AnswerOK, NotYetSent, Outcomes
<1>4. ASSUME NEW d \in delivered
      PROVE  InForce(d)' \/ verdict'[d] = "invalid" \/ d \in guessed'
  <2>1. d \in Docs /\ Confirmed(d) /\ (InForce(d) \/ verdict[d] = "invalid" \/ d \in guessed)
    BY DEF BaseInv, TypeOK, WriteAhead, DianInv, DeliveredInForce
  <2>2. CASE status'[d] = status[d]
    BY <2>1, <2>2 DEF InForce
  <2>3. CASE \E w \in Workers : pc[w] = "record" /\ job[w].doc = d /\ status'[d] = job[w].outcome
    BY <1>3, <2>1, <2>3 DEF InForce, Decided
  <2> QED
    BY <2>1, <2>2, <2>3, RowChange DEF Confirmed
<1>5. \A d \in Docs : verdict'[d] # "none" => d \in delivered'
  BY DEF DianInv, DeliveredInForce
<1>6. ASSUME NEW d \in Docs
      PROVE  /\ status'[d] = "accepted" => verdict'[d] = "valid" \/ ValidByAnother(d)'
             /\ status'[d] = "rejected" =>
                  verdict'[d] = "invalid" \/ Foreign(d, "invalid")' \/ d \in guessed'
  <2>1. ASSUME Confirmed(d),
               status'[d] = "accepted" => verdict[d] = "valid" \/ ValidByAnother(d),
               status'[d] = "rejected" => verdict[d] = "invalid" \/ Foreign(d, "invalid") \/ d \in guessed
        PROVE  /\ status'[d] = "accepted" => verdict'[d] = "valid" \/ ValidByAnother(d)'
               /\ status'[d] = "rejected" =>
                    verdict'[d] = "invalid" \/ Foreign(d, "invalid")' \/ d \in guessed'
    BY <1>1, <2>1, ForeignKept
  <2>2. CASE status'[d] = status[d]
    <3>1. status[d] \in {"accepted", "rejected"} => Confirmed(d)
      BY DEF Confirmed
    <3> QED
      BY <2>1, <2>2, <3>1 DEF DianInv, RecordedAsDecided
  <2>3. CASE \E w \in Workers : pc[w] = "record" /\ job[w].doc = d /\ status'[d] = job[w].outcome
    <3>1. Confirmed(d)
      BY <2>3 DEF BaseInv, LocalsOK, Sending
    <3> QED
      BY <1>3, <2>1, <2>3, <3>1 DEF Decided
  <2>4. CASE status'[d] \in {"absent", "draft", "deleted", "built"}
    BY <2>4
  <2> QED
    BY <2>2, <2>3, <2>4, RowChange
<1> QED
  BY <1>2, <1>4, <1>5, <1>6 DEF DianInv, DeliveredInForce, RecordedAsDecided

\* An exchange with the DIAN is about the sender's document only, and a verdict is final.
LEMMA ExchangeStep ==
  ASSUME BaseInv, SenderInv, NumberInv, OneReviewer, DianInv, [Next]_vars, UNCHANGED documents,
         NEW w \in Workers, Sending(w), pc[w] # "release",
         \A x \in Workers \ {w} : pc'[x] = pc[x] /\ job'[x] = job[x],
         \A e \in Docs \ {job[w].doc} : verdict'[e] = verdict[e] /\ (e \in delivered' <=> e \in delivered),
         verdict[job[w].doc] # "none" => verdict'[job[w].doc] = verdict[job[w].doc],
         verdict'[job[w].doc] # "none" => job[w].doc \in delivered',
         guessed \subseteq guessed', AnswerOK(w)'
  PROVE  DianInv'
<1> DEFINE d == job[w].doc
<1>1. /\ d \in Docs /\ status[d] \in {"built", "sent"}
      /\ \A x \in Workers \ {w} : Sending(x) => job[x].doc # d
  BY SenderHas
<1>2. /\ status' = status /\ prefix' = prefix /\ number' = number
      /\ \A e \in Docs : verdict[e] # "none" => verdict'[e] = verdict[e]
  BY DEF documents
<1>3. \A x \in Workers : AnswerOK(x)'
  <2> SUFFICES ASSUME NEW x \in Workers \ {w} PROVE AnswerOK(x)'
    OBVIOUS
  <2>1. Sending(x) => job[x].doc \in Docs \ {d}
    BY <1>1 DEF BaseInv, LocalsOK, Sending
  <2>2. Sending(x) => /\ verdict'[job[x].doc] = verdict[job[x].doc]
                      /\ (job[x].doc \in delivered' <=> job[x].doc \in delivered)
    BY <2>1
  <2> QED
    BY <1>2, <2>2, OthersAnswers
<1>4. \A e \in Docs : verdict'[e] # "none" => e \in delivered'
  BY DEF DianInv, DeliveredInForce
<1>5. ASSUME NEW e \in delivered'
      PROVE  InForce(e)' \/ verdict'[e] = "invalid" \/ e \in guessed'
  <2>1. CASE e = d
    BY <1>1, <1>2, <1>5, <2>1 DEF InForce
  <2>2. CASE e # d
    <3>1. e \in Docs
      BY <1>5, BaseStep DEF BaseInv, TypeOK
    <3> QED
      BY <1>2, <1>5, <2>2, <3>1 DEF InForce, DianInv, DeliveredInForce
  <2> QED
    BY <2>1, <2>2
<1>6. ASSUME NEW e \in Docs
      PROVE  /\ status'[e] = "accepted" => verdict'[e] = "valid" \/ ValidByAnother(e)'
             /\ status'[e] = "rejected" =>
                  verdict'[e] = "invalid" \/ Foreign(e, "invalid")' \/ e \in guessed'
  <2>1. status[e] \in {"accepted", "rejected"} => Confirmed(e)
    BY DEF Confirmed
  <2>2. /\ status[e] = "accepted" => verdict[e] = "valid" \/ ValidByAnother(e)
        /\ status[e] = "rejected" => verdict[e] = "invalid" \/ Foreign(e, "invalid") \/ e \in guessed
    BY DEF DianInv, RecordedAsDecided
  <2> QED
    BY <1>2, <2>1, <2>2, ForeignKept
<1> QED
  BY <1>3, <1>4, <1>5, <1>6 DEF DianInv, DeliveredInForce, RecordedAsDecided

\* What the DIAN answers to the sender is what it decided of its document, and it
\* decides nothing of any other.
LEMMA AnswerIsDecided ==
  ASSUME BaseInv, SenderInv, NumberInv, OneReviewer, DianInv,
         NEW w \in Workers, Sending(w), NEW d, d = job[w].doc, NEW v \in {"valid", "invalid"},
         NEW reply \in Reported(v), UNCHANGED documents, DianAnswers(d, v), Guess(d, reply # v)
  PROVE  /\ Decided(d, reply)' /\ reply \in {"valid", "invalid"} /\ guessed \subseteq guessed'
         /\ \A e \in Docs \ {d} : verdict'[e] = verdict[e] /\ (e \in delivered' <=> e \in delivered)
         /\ verdict[d] # "none" => verdict'[d] = verdict[d]
         /\ verdict'[d] # "none" => d \in delivered'
<1>1. d \in Docs /\ verdict \in [Docs -> {"none", "valid", "invalid"}]
  BY SenderHas DEF BaseInv, TypeOK
<1>2. prefix' = prefix /\ number' = number
  BY DEF documents
<1>3. Foreign(d, "valid") => ValidByAnother(d)
  BY ForeignIsExplained
<1>4. verdict[d] # "none" => d \in delivered
  BY <1>1 DEF DianInv, DeliveredInForce
<1>5. /\ guessed \subseteq guessed' /\ reply \in {"valid", "invalid"}
      /\ reply # v => reply = "invalid" /\ d \in guessed'
  BY DEF Reported, Interpret, Guess
<1>6. /\ Decided(d, v)'
      /\ \A e \in Docs \ {d} : verdict'[e] = verdict[e] /\ (e \in delivered' <=> e \in delivered)
      /\ verdict[d] # "none" => verdict'[d] = verdict[d]
      /\ verdict'[d] # "none" => d \in delivered'
  <2>1. CASE verdict[d] = v /\ Receive(d) /\ UNCHANGED verdict
    BY <1>1, <2>1 DEF Receive, Decided
  <2>2. CASE verdict[d] = "none" /\ Foreign(d, v) /\ delivered' = delivered \ {d} /\ UNCHANGED verdict
    <3>1. v = "invalid" => Foreign(d, "invalid")'
      BY <1>2, <2>2 DEF Foreign, SameNumber
    <3>2. v = "valid" => ValidByAnother(d)'
      BY <1>2, <1>3, <1>5, <2>2 DEF ValidByAnother, SameNumber
    <3> QED
      BY <2>2, <3>1, <3>2 DEF Decided
  <2>3. CASE verdict[d] = "none" /\ Receive(d) /\ verdict' = [verdict EXCEPT ![d] = v]
    BY <1>1, <2>3 DEF Receive, Decided
  <2> QED
    BY <2>1, <2>2, <2>3 DEF DianAnswers
<1> QED
  BY <1>5, <1>6 DEF Decided

\* Nothing is decided nor on record at the start.
LEMMA DianInit == Init => DianInv
BY DEF Init, DianInv, DeliveredInForce, AnswerOK, RecordedAsDecided, NoJob, Workers

\* Whatever is lost, pending or unreadable, the system writes what the DIAN decided, and gives
\* back only numbers the DIAN holds no document for or has rejected, except where it guessed.
LEMMA DianStep ==
  ASSUME OneReviewer
  PROVE  BaseInv /\ SenderInv /\ NumberInv /\ DianInv /\ [Next]_vars => DianInv'
<1> SUFFICES ASSUME BaseInv, SenderInv, NumberInv, DianInv, [Next]_vars PROVE DianInv'
  OBVIOUS
<1> DEFINE Others(w) == \A x \in Workers \ {w} : pc'[x] = pc[x] /\ job'[x] = job[x]
<1>0. /\ pc \in [Workers -> Steps] /\ job \in [Workers -> Jobs]
      /\ \A w \in Workers : AnswerOK(w)
      /\ Confirmers \subseteq Workers /\ Reviewers \subseteq Workers
  BY DEF BaseInv, TypeOK, DianInv, Workers
<1>1. CASE UserStep \/ UNCHANGED vars
  <2>1. UNCHANGED <<delivered, verdict, guessed, pc, job>>
    BY <1>1 DEF UserStep, Create, UpdateDraft, CloneDraft, DeleteDraft, Activate, Deactivate, SetActive, vars, dian
  <2> QED
    BY <2>1, SystemStep
<1>2. ASSUME NEW w \in Workers, End(w), UNCHANGED dian
      PROVE  DianInv'
  <2>1. AnswerOK(w)' /\ Others(w)
    BY <1>0, <1>2 DEF End, Goto, AnswerOK, NoJob
  <2> QED
    BY <1>2, <2>1, SystemStep DEF dian
<1>3. ASSUME NEW w \in Workers, UNCHANGED dian, Others(w), AnswerOK(w)'
      PROVE  DianInv'
  BY <1>3, SystemStep DEF dian
<1>4. CASE Request
  <2>1. ASSUME NEW w \in Workers, NEW d, NEW j, NEW step \in {"prepare", "poll"},
               Goto(w, step), job' = [job EXCEPT ![w] = j], j.last = "none", UNCHANGED dian
        PROVE  DianInv'
    <3>1. AnswerOK(w)' /\ Others(w)
      BY <1>0, <2>1 DEF Goto, AnswerOK
    <3> QED
      BY <2>1, <3>1, <1>3
  <2>2. ASSUME NEW c \in Confirmers, NEW d \in Docs, Confirm(c, d)
        PROVE  DianInv'
    <3>1. [NoJob EXCEPT !.doc = d, !.range = rangeId[d]].last = "none"
      BY DEF NoJob
    <3> QED
      BY <1>0, <2>1, <2>2, <3>1 DEF Confirm
  <2>3. ASSUME NEW v \in Reviewers, NEW d \in Docs, CheckPendingStatus(v, d)
        PROVE  DianInv'
    <3>1. [NoJob EXCEPT !.doc = d, !.range = rangeId[d], !.num = number[d]].last = "none"
      BY DEF NoJob
    <3> QED
      BY <1>0, <2>1, <2>3, <3>1 DEF CheckPendingStatus
  <2> QED
    BY <1>4, <2>2, <2>3 DEF Request
<1>5. ASSUME NEW c \in Confirmers, ConfirmStep(c)
      PROVE  DianInv'
  <2>0. c \in Workers /\ job[c] \in Jobs /\ AnswerOK(c)
    BY <1>0
  <2>1. CASE prepare(c)
    <3>1. Others(c) /\ UNCHANGED dian /\ pc'[c] = "claim" /\ job'[c].last = job[c].last /\ pc[c] = "prepare"
      BY <1>0, <2>0, <2>1 DEF prepare, Goto, Jobs
    <3> QED
      BY <1>3, <2>0, <3>1 DEF AnswerOK
  <2>2. CASE ClaimNext(c)
    <3>1. CASE End(c)
      BY <1>2, <2>0, <2>2, <3>1 DEF ClaimNext
    <3>2. CASE Goto(c, "sign") /\ job' = [job EXCEPT ![c].num = current[job[c].range] + 1]
      <4>1. Others(c) /\ UNCHANGED dian /\ pc'[c] = "sign" /\ job'[c].last = job[c].last /\ pc[c] = "claim"
        BY <1>0, <2>0, <2>2, <3>2 DEF ClaimNext, Goto, Jobs
      <4> QED
        BY <1>3, <2>0, <4>1 DEF AnswerOK
    <3> QED
      BY <2>2, <3>1, <3>2 DEF ClaimNext
  <2>3. CASE ClaimRefused(c)
    BY <1>2, <2>0, <2>3 DEF ClaimRefused
  <2>4. CASE SignFails(c) \/ PersistRefused(c)
    <3>1. Others(c) /\ UNCHANGED dian /\ pc'[c] = "abort" /\ job'[c] = job[c] /\ pc[c] = "sign"
      BY <1>0, <2>0, <2>4 DEF SignFails, PersistRefused, Goto
    <3> QED
      BY <1>3, <2>0, <3>1 DEF AnswerOK
  <2>5. CASE PersistBuilt(c)
    <3>1. Others(c) /\ UNCHANGED dian /\ pc'[c] \in {"built", "abort"} /\ pc[c] = "sign"
          /\ job'[c].last = job[c].last /\ job'[c].doc = job[c].doc
      BY <1>0, <2>0, <2>5 DEF PersistBuilt, Goto, Jobs
    <3>2. job[c].doc \notin delivered
      BY <2>5 DEF PersistBuilt, BaseInv, WriteAhead, Confirmed
    <3> QED
      BY <1>3, <2>0, <3>1, <3>2 DEF AnswerOK, dian
  <2>6. CASE Abort(c) \/ Crash(c)
    BY <1>2, <2>0, <2>6 DEF Abort, Crash, dian
  <2>7. CASE EnvironmentMismatch(c) \/ ZipFails(c)
    <3>1. /\ UNCHANGED dian /\ pc[c] = "built"
          /\ Finish(c, "environment_mismatch") \/ Finish(c, "send_error")
      BY <2>0, <2>7 DEF EnvironmentMismatch, ZipFails
    <3>2. /\ Others(c) /\ pc'[c] = "record" /\ job'[c].doc = job[c].doc
          /\ job'[c].outcome \in {"environment_mismatch", "send_error"}
      BY <1>0, <2>0, <3>1 DEF Finish, Goto, Jobs
    <3> QED
      BY <1>3, <2>0, <3>1, <3>2 DEF AnswerOK, dian
  <2>8. CASE Dispatch(c)
    <3>1. Others(c) /\ UNCHANGED dian /\ pc'[c] \in {"sync", "testset"} /\ job'[c] = job[c] /\ pc[c] = "built"
      BY <1>0, <2>0, <2>8 DEF Dispatch, Goto
    <3> QED
      BY <1>3, <2>0, <3>1 DEF AnswerOK, dian
  <2>9. CASE SendSyncAnswered(c)
    <3>1. PICK v \in {"valid", "invalid"} : \E reply \in Reported(v) :
            /\ DianAnswers(job[c].doc, v)
            /\ Finish(c, StatusOf(reply)) /\ Guess(job[c].doc, reply # v)
      BY <2>9 DEF SendSyncAnswered
    <3>1a. PICK reply \in Reported(v) :
             /\ DianAnswers(job[c].doc, v)
             /\ Finish(c, StatusOf(reply)) /\ Guess(job[c].doc, reply # v)
      BY <3>1
    <3>2. pc[c] = "sync" /\ UNCHANGED documents /\ Sending(c)
      BY <2>9 DEF SendSyncAnswered, Sending
    <3>3. /\ Others(c) /\ pc'[c] = "record" /\ job'[c].doc = job[c].doc
          /\ job'[c].outcome = StatusOf(reply)
      BY <1>0, <2>0, <3>1a DEF Finish, Goto, Jobs
    <3>4. PICK d : d = job[c].doc
      OBVIOUS
    <3>5. /\ Decided(d, reply)' /\ reply \in {"valid", "invalid"} /\ guessed \subseteq guessed'
          /\ \A e \in Docs \ {d} : verdict'[e] = verdict[e] /\ (e \in delivered' <=> e \in delivered)
          /\ verdict[d] # "none" => verdict'[d] = verdict[d]
          /\ verdict'[d] # "none" => d \in delivered'
      BY <2>0, <3>1a, <3>2, <3>4, AnswerIsDecided
    <3>6. AnswerOK(c)'
      BY <3>3, <3>4, <3>5 DEF AnswerOK, StatusOf, Decided
    <3> QED
      BY <2>0, <3>2, <3>3, <3>4, <3>5, <3>6, ExchangeStep
  <2>10. CASE SendSyncLost(c) \/ SendAsyncAccepted(c) \/ SendAsyncLost(c)
    <3>1. /\ pc[c] \in {"sync", "async", "testset"} /\ Sending(c) /\ UNCHANGED documents
          /\ verdict' = verdict /\ guessed' = guessed
          /\ (Receive(job[c].doc) \/ UNCHANGED delivered)
      BY <2>0, <2>10 DEF SendSyncLost, SendAsyncAccepted, SendAsyncLost, call, Sending
    <3>2. \/ pc'[c] \in {"async", "poll", "pollTestSet"} /\ job'[c] = job[c]
          \/ pc'[c] = "record" /\ job'[c].outcome = "send_unknown"
      BY <1>0, <2>0, <2>10, <3>1 DEF SendSyncLost, SendAsyncAccepted, SendAsyncLost, Finish, Goto, Jobs
    <3>3. Others(c)
      BY <1>0, <2>0, <2>10 DEF SendSyncLost, SendAsyncAccepted, SendAsyncLost, Finish, Goto
    <3>4. AnswerOK(c)'
      BY <2>0, <3>1, <3>2 DEF AnswerOK
    <3>5. job[c].doc \in Docs /\ verdict[job[c].doc] # "none" => job[c].doc \in delivered
      BY <2>0, <3>1, SenderHas DEF DianInv, DeliveredInForce
    <3>6. /\ \A e \in Docs \ {job[c].doc} : e \in delivered' <=> e \in delivered
          /\ job[c].doc \in delivered => job[c].doc \in delivered'
      BY <3>1 DEF Receive
    <3> QED
      BY <2>0, <3>1, <3>3, <3>4, <3>5, <3>6, SenderHas, ExchangeStep DEF DianInv, DeliveredInForce
  <2>11. CASE TestSetClosed(c)
    <3>1. /\ pc[c] = "pollTestSet" /\ Sending(c) /\ UNCHANGED documents /\ verdict' = verdict
          /\ guessed' = guessed
          /\ delivered' = delivered \ {job[c].doc} /\ verdict[job[c].doc] = "none"
      BY <2>11 DEF TestSetClosed, Sending
    <3>2. Others(c) /\ pc'[c] = "sync" /\ job'[c].doc = job[c].doc /\ job'[c].last = "none"
      BY <1>0, <2>0, <2>11 DEF TestSetClosed, Goto, Jobs
    <3>3. AnswerOK(c)'
      BY <2>0, <3>1, <3>2 DEF AnswerOK
    <3> QED
      BY <2>0, <3>1, <3>2, <3>3, ExchangeStep
  <2>12. CASE SendRefused(c)
    <3>1. /\ delivered' = delivered /\ verdict' = verdict /\ guessed \subseteq guessed'
          /\ pc[c] \in {"sync", "testset"} \/ job[c].doc \in guessed'
      BY <2>12 DEF SendRefused, Guess
    <3>2. /\ Others(c) /\ pc'[c] = "record" /\ job'[c].doc = job[c].doc
          /\ job'[c].outcome = "send_error"
      BY <1>0, <2>0, <2>12 DEF SendRefused, Finish, Goto, Jobs
    <3>3. AnswerOK(c)'
      BY <2>0, <3>1, <3>2 DEF AnswerOK
    <3> QED
      BY <2>0, <3>1, <3>2, <3>3, SystemStep
  <2> QED
    BY <1>5, <2>1, <2>2, <2>3, <2>4, <2>5, <2>6, <2>7, <2>8, <2>9, <2>10, <2>11, <2>12 DEF ConfirmStep
<1>6. ASSUME NEW w \in Workers, FinishStep(w) \/ Crash(w)
      PROVE  DianInv'
  <2>0. job[w] \in Jobs /\ AnswerOK(w)
    BY <1>0
  <2>1. CASE PollAgain(w)
    <3>1. PICK reply \in {job[w].last, "pending"} :
            job' = [job EXCEPT ![w].polls = @ + 1, ![w].last = reply]
      BY <1>0, <2>1 DEF PollAgain
    <3>2. Others(w) /\ job'[w].last = reply /\ job'[w].doc = job[w].doc
      BY <1>0, <2>0, <2>1, <3>1 DEF Jobs, PollAgain
    <3>3. UNCHANGED dian /\ pc' = pc /\ Polling(w)
      BY <2>1 DEF PollAgain
    <3>4. AnswerOK(w)'
      BY <2>0, <3>2, <3>3 DEF AnswerOK, Polling
    <3> QED
      BY <1>3, <3>2, <3>3, <3>4
  <2>2. CASE PollAnswered(w)
    <3>1. PICK v \in {"valid", "invalid"} : \E reply \in Reported(v) :
            /\ DianAnswers(job[w].doc, v)
            /\ job' = [job EXCEPT ![w].last = reply] /\ Guess(job[w].doc, reply # v)
      BY <2>2 DEF PollAnswered
    <3>1a. PICK reply \in Reported(v) :
             /\ DianAnswers(job[w].doc, v)
             /\ job' = [job EXCEPT ![w].last = reply] /\ Guess(job[w].doc, reply # v)
      BY <3>1
    <3>2. pc[w] \in {"poll", "pollTestSet"} /\ UNCHANGED documents /\ Sending(w) /\ Goto(w, "polled")
      BY <2>2 DEF PollAnswered, Polling, Sending
    <3>3. Others(w) /\ pc'[w] = "polled" /\ job'[w].doc = job[w].doc /\ job'[w].last = reply
      BY <1>0, <2>0, <3>1a, <3>2 DEF Goto, Jobs
    <3>4. PICK d : d = job[w].doc
      OBVIOUS
    <3>5. /\ Decided(d, reply)' /\ reply \in {"valid", "invalid"} /\ guessed \subseteq guessed'
          /\ \A e \in Docs \ {d} : verdict'[e] = verdict[e] /\ (e \in delivered' <=> e \in delivered)
          /\ verdict[d] # "none" => verdict'[d] = verdict[d]
          /\ verdict'[d] # "none" => d \in delivered'
      BY <3>1a, <3>2, <3>4, AnswerIsDecided
    <3>6. AnswerOK(w)'
      BY <3>3, <3>4, <3>5 DEF AnswerOK, Decided
    <3> QED
      BY <3>2, <3>3, <3>4, <3>5, <3>6, ExchangeStep
  <2>3. CASE PollExhausted(w)
    <3>1. Others(w) /\ UNCHANGED dian /\ pc'[w] = "polled" /\ job'[w] = job[w]
          /\ pc[w] \in {"poll", "pollTestSet"}
      BY <1>0, <2>3 DEF PollExhausted, Goto, Polling
    <3>2. AnswerOK(w)'
      BY <2>0, <3>1 DEF AnswerOK, Decided
    <3> QED
      BY <1>3, <3>1, <3>2
  <2>4. CASE finishFromPoll(w)
    <3>1. /\ Others(w) /\ pc'[w] = "record" /\ job'[w].doc = job[w].doc /\ pc[w] = "polled"
          /\ job'[w].outcome = IF job[w].last = "none" THEN "sent" ELSE StatusOf(job[w].last)
      BY <1>0, <2>0, <2>4 DEF finishFromPoll, Finish, Goto, Jobs
    <3>2. /\ delivered' = delivered /\ verdict' = verdict /\ guessed \subseteq guessed'
          /\ job[w].last = "pending" => job[w].doc \in guessed'
      BY <2>4 DEF finishFromPoll, Guess
    <3>3. /\ Decided(job[w].doc, job[w].last) /\ job[w].last \in Replies
          /\ Sending(w)
      BY <2>0, <3>1 DEF AnswerOK, Sending, Jobs
    <3>4. job[w].doc \in Docs /\ Confirmed(job[w].doc)
      BY <3>3, SenderHas
    <3>5. \A reply : \A d \in Docs : Confirmed(d) /\ Decided(d, reply) /\ d = job[w].doc => Decided(d, reply)'
      BY <3>2, DecidedKept
    <3>6. AnswerOK(w)'
      BY <3>1, <3>2, <3>3, <3>4, <3>5 DEF AnswerOK, StatusOf, Decided, Replies
    <3> QED
      BY <3>1, <3>2, <3>6, SystemStep
  <2>5. CASE UpdateDianStatus(w)
    <3>1. CASE End(w)
      BY <1>2, <2>5, <3>1 DEF UpdateDianStatus
    <3>2. CASE Goto(w, "release") /\ UNCHANGED job
      <4>1. Others(w) /\ UNCHANGED dian /\ pc'[w] = "release"
        BY <1>0, <2>5, <3>2 DEF UpdateDianStatus, Goto
      <4>2. AnswerOK(w)'
        BY <4>1 DEF AnswerOK
      <4> QED
        BY <1>3, <4>1, <4>2
    <3> QED
      BY <2>5, <3>1, <3>2 DEF UpdateDianStatus
  <2>6. CASE UpdateFails(w) \/ Release(w) \/ Crash(w)
    BY <1>2, <2>6 DEF UpdateFails, Release, Crash, dian
  <2> QED
    BY <1>6, <2>1, <2>2, <2>3, <2>4, <2>5, <2>6 DEF FinishStep
<1> QED
  BY <1>1, <1>4, <1>5, <1>6 DEF Next

\* Under every failure, what the DIAN holds and has not rejected is in force unless the system
\* guessed its outcome, and what requests write of a document is what the DIAN decided or a
\* guess: the inductive form of the two theorems below.
THEOREM DianInvariant ==
  ASSUME OneRangePerDocument, OneReviewer
  PROVE  Spec => []DianInv
<1>1. Init => DianInv
  BY DianInit
<1>2. BaseInv /\ SenderInv /\ NumberInv /\ DianInv /\ [Next]_vars => DianInv'
  BY DianStep
<1> QED
  BY <1>1, <1>2, BaseInvariant, SenderInvariant, NumberInvariant, PTL DEF Spec

\* The DIAN never receives two documents under one number, unless it rejected one of them or
\* the system settled one of them without a readable answer (confirm.go:427), however many
\* requests confirm, poll, retry or die, and whatever the network and the database lose.
THEOREM NumberAtDianOnceHolds ==
  ASSUME OneRangePerDocument, OneReviewer
  PROVE  Spec => []NumberAtDianOnce
<1>1. BaseInv /\ NumberInv /\ DianInv => NumberAtDianOnce
  BY DEF BaseInv, TypeOK, NumberInv, UniqueInForce, DianInv, DeliveredInForce, NumberAtDianOnce
<1> QED
  BY <1>1, BaseInvariant, NumberInvariant, DianInvariant, PTL

\* Under the same failures "accepted" is only on record for a document the DIAN validated or
\* whose number it had validated otherwise, and "rejected" for one it rejected, whose number
\* it had rejected another one under, or of which its answer said nothing readable.
THEOREM RecordedAsDecidedHolds ==
  ASSUME OneRangePerDocument, OneReviewer
  PROVE  Spec => []RecordedAsDecided
<1>1. DianInv => RecordedAsDecided
  BY DEF DianInv
<1> QED
  BY <1>1, DianInvariant, PTL
====
