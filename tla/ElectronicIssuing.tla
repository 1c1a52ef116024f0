-------------------------- MODULE ElectronicIssuing --------------------------
(***************************************************************************)
(* Issuing electronic documents to the DIAN (erp/internal/electronic).     *)
(*                                                                         *)
(* A draft is confirmed by an HTTP request that claims the next number of  *)
(* a numbering range, signs the document, persists it as "built", sends it *)
(* to the tax authority (DIAN) and writes the outcome back, giving the     *)
(* number back to the range when the failure is one that may be retried.   *)
(* None of this is one database transaction: every statement below is an   *)
(* atomic step of its own, requests run concurrently, the connection to    *)
(* the DIAN may fail after the DIAN received the document, and a request   *)
(* may die between any two steps.                                          *)
(***************************************************************************)
EXTENDS Integers

CONSTANTS
  Docs,             \* documents (rows of electronic.documents), by id
  Ranges,           \* numbering ranges (electronic.numbering_ranges), by id
  Confirmers,       \* concurrent POST .../confirm requests
  Reviewers,        \* concurrent POST .../check-status requests
  RangesFor,        \* document -> ranges of its DIAN document type
  RangeFrom,        \* range -> first number to issue (current_number + 1)
  RangeTo,          \* range -> range_to
  RangeEnvironment, \* range -> NumberingRange.Environment
  Environment,      \* CompanyInfo.Environment
  TestSets,         \* ranges created with a TestSetID
  ConsumedOutside,  \* <<range, number>> already used at the DIAN by hand
  Faults,           \* what may go wrong, see FaultKinds
  MaxPolls,         \* attempts of pollZipKey (6 in the code)
  NoDoc, NoRange

ASSUME RangesAssumption ==
  /\ RangesFor \in [Docs -> SUBSET Ranges]
  /\ RangeFrom \in [Ranges -> Nat] /\ RangeTo \in [Ranges -> Nat]
  /\ NoRange \notin Ranges

ASSUME RequestsAssumption ==
  Confirmers \cap Reviewers = {} /\ MaxPolls \in Nat /\ NoDoc \notin Docs

EnvProduccion   == "1"
EnvHabilitacion == "2"

(***************************************************************************)
(* "crash": a request dies between two steps.  "database": a statement     *)
(* fails, or is applied and its reply is lost.  "sync", "async",           *)
(* "testset": that SOAP call may end in a transport error.  "pending":     *)
(* GetStatusZip may answer without a StatusCode.  "garbled": the XML       *)
(* embedded in an answer cannot be decoded.                                *)
(***************************************************************************)
FaultKinds == {"crash", "database", "sync", "async", "testset", "pending", "garbled"}

Statuses == {"absent", "deleted", "draft", "built", "sent", "accepted",
             "rejected", "send_error", "send_unknown", "environment_mismatch"}

Outcomes == {"none", "sent", "accepted", "rejected", "send_error",
             "send_unknown", "environment_mismatch"}

Replies == {"none", "pending", "valid", "invalid"}

Workers == Confirmers \cup Reviewers

VARIABLES
  current,    \* range -> current_number, the last number claimed
  active,     \* range -> is_active
  testSet,    \* range -> test_set_id <> ''
  status,     \* document -> status; "absent" before the INSERT
  rangeId,    \* document -> numbering_range_id
  prefix,     \* document -> range whose prefix was written by Confirm
  number,     \* document -> number, 0 while a draft
  delivered,  \* documents the DIAN has received and not turned away
  verdict,    \* document -> what the DIAN decided about it
  guessed,    \* history, see Guess: no step reads it
  pc,         \* request -> the step it is at
  job         \* request -> its local variables

ranges    == <<current, active, testSet>>
documents == <<status, rangeId, prefix, number>>
dian      == <<delivered, verdict, guessed>>
vars      == <<ranges, documents, dian, pc, job>>

(***************************************************************************)
(* The locals of a request: the document it works on, d.NumberingRangeID   *)
(* and p.number, whether p.nr carries a TestSetID, and the progress and    *)
(* last result of pollZipKey.  outcome is the status finish will write.    *)
(***************************************************************************)
NoJob == [doc |-> NoDoc, range |-> NoRange, num |-> 0, ts |-> FALSE,
          polls |-> 0, last |-> "none", outcome |-> "none"]

Jobs == [doc : Docs \cup {NoDoc}, range : Ranges \cup {NoRange}, num : Int,
         ts : BOOLEAN, polls : Nat, last : Replies, outcome : Outcomes]

Steps == {"idle", "prepare", "claim", "sign", "abort", "built", "sync", "async",
          "testset", "poll", "pollTestSet", "polled", "record", "release"}

\* A new range starts so that ClaimNext gives its first number to issue: the
\* next_number of the request when it lies in the range, or else range_from.
CurrentOfNew(r) == RangeFrom[r] - 1

Init ==
  /\ current   = [r \in Ranges |-> CurrentOfNew(r)]
  /\ active    = [r \in Ranges |-> TRUE]
  /\ testSet   = [r \in Ranges |-> r \in TestSets]
  /\ status    = [d \in Docs |-> "absent"]
  /\ rangeId   = [d \in Docs |-> NoRange]
  /\ prefix    = [d \in Docs |-> NoRange]
  /\ number    = [d \in Docs |-> 0]
  /\ delivered = {}
  /\ verdict   = [d \in Docs |-> "none"]
  /\ guessed   = {}
  /\ pc        = [w \in Workers |-> "idle"]
  /\ job       = [w \in Workers |-> NoJob]

\* Variant: the number of a document the DIAN may hold is given back too.
RetryableWhenUnknown(s) ==
  s \in {"rejected", "send_error", "send_unknown", "environment_mismatch"}

isRetryableFailure(s) == s \in {"rejected", "send_error", "environment_mismatch"}

\* The row has been through documents.Confirm.
Confirmed(d) == status[d] \notin {"absent", "deleted", "draft"}

-----------------------------------------------------------------------------
(* Drafts: what users do to a document before it is confirmed.             *)

Create(d, r) ==
  /\ status[d] = "absent"
  /\ r \in RangesFor[d]
  /\ status'  = [status EXCEPT ![d] = "draft"]
  /\ rangeId' = [rangeId EXCEPT ![d] = r]
  /\ UNCHANGED <<ranges, prefix, number, dian, pc, job>>

\* A clone is a new draft on the source's range, with no number of its own.
CloneDraft(d, src) ==
  /\ status[d] = "absent"
  /\ status[src] \notin {"absent", "deleted"}
  /\ RangesFor[d] = RangesFor[src]
  /\ status'  = [status EXCEPT ![d] = "draft"]
  /\ rangeId' = [rangeId EXCEPT ![d] = rangeId[src]]
  /\ UNCHANGED <<ranges, prefix, number, dian, pc, job>>

\* The UPDATE repeats the check of getOwnedDraft in its WHERE clause.
UpdateDraft(d, r) ==
  /\ status[d] = "draft"
  /\ r \in RangesFor[d]
  /\ rangeId' = [rangeId EXCEPT ![d] = r]
  /\ UNCHANGED <<ranges, status, prefix, number, dian, pc, job>>

DeleteDraft(d) ==
  /\ status[d] = "draft"
  /\ status' = [status EXCEPT ![d] = "deleted"]
  /\ UNCHANGED <<ranges, rangeId, prefix, number, dian, pc, job>>

\* An UPDATE by id, whatever is being confirmed on the range.
SetActive(r, b) ==
  /\ active' = [active EXCEPT ![r] = b]
  /\ UNCHANGED <<current, testSet, documents, dian, pc, job>>

Activate(r)   == SetActive(r, TRUE)
Deactivate(r) == SetActive(r, FALSE)

-----------------------------------------------------------------------------
(* Steps of a request.                                                     *)

Goto(w, step) == pc' = [pc EXCEPT ![w] = step]

End(w) ==
  /\ Goto(w, "idle")
  /\ job' = [job EXCEPT ![w] = NoJob]

\* Leave the pipeline through finish(ctx, d, s, ...).
Finish(w, s) ==
  /\ Goto(w, "record")
  /\ job' = [job EXCEPT ![w].outcome = s]

\* Variant: without AND current_number = n.
ReleaseAlways(r, n) == current' = [current EXCEPT ![r] = @ - 1]

\* UPDATE numbering_ranges SET current_number = current_number - 1
\* WHERE id = r AND current_number = n.
ReleaseIfCurrent(r, n) ==
  current' = [current EXCEPT ![r] = IF @ = n THEN @ - 1 ELSE @]

Confirm(c, d) ==
  /\ pc[c] = "idle"
  /\ status[d] = "draft"
  /\ Goto(c, "prepare")
  /\ job' = [job EXCEPT ![c] = [NoJob EXCEPT !.doc = d, !.range = rangeId[d]]]
  /\ UNCHANGED <<ranges, documents, dian>>

\* numbering.GetByID: the environment and the TestSetID used later are these.
prepare(c) ==
  /\ pc[c] = "prepare"
  /\ Goto(c, "claim")
  /\ job' = [job EXCEPT ![c].ts = testSet[job[c].range]]
  /\ UNCHANGED <<ranges, documents, dian>>

ClaimNext(c) ==
  LET r == job[c].range IN
  /\ pc[c] = "claim"
  /\ active[r]
  /\ current[r] < RangeTo[r]
  /\ current' = [current EXCEPT ![r] = @ + 1]
  /\ \/ /\ Goto(c, "sign")
        /\ job' = [job EXCEPT ![c].num = current[r] + 1]
     \/ "database" \in Faults /\ End(c)       \* applied, its reply lost
  /\ UNCHANGED <<active, testSet, documents, dian>>

\* ErrRangeExhausted, and every check of prepare that fails.
ClaimRefused(c) ==
  /\ pc[c] \in {"prepare", "claim"}
  /\ pc[c] = "claim" => \/ ~active[job[c].range]
                        \/ current[job[c].range] >= RangeTo[job[c].range]
                        \/ "database" \in Faults
  /\ End(c)
  /\ UNCHANGED <<ranges, documents, dian>>

\* SignedInvoiceXML and its siblings fail: the document stays a draft.
SignFails(c) ==
  /\ pc[c] = "sign"
  /\ Goto(c, "abort")
  /\ UNCHANGED <<ranges, documents, dian, job>>

\* Variant: without AND status = 'draft'.
PersistAnyStatus(c) ==
  LET d == job[c].doc IN
  /\ pc[c] = "sign"
  /\ status' = [status EXCEPT ![d] = "built"]
  /\ prefix' = [prefix EXCEPT ![d] = job[c].range]
  /\ number' = [number EXCEPT ![d] = job[c].num]
  /\ Goto(c, "built")
  /\ UNCHANGED <<ranges, rangeId, dian, job>>

\* documents.Confirm: UPDATE ... WHERE id = $10 AND status = 'draft', then the
\* row is read back; finish will use the numbering_range_id found there.
PersistBuilt(c) ==
  LET d == job[c].doc IN
  /\ pc[c] = "sign"
  /\ status[d] = "draft"
  /\ status' = [status EXCEPT ![d] = "built"]
  /\ prefix' = [prefix EXCEPT ![d] = job[c].range]
  /\ number' = [number EXCEPT ![d] = job[c].num]
  /\ \/ /\ Goto(c, "built")
        /\ job' = [job EXCEPT ![c].range = rangeId[d]]
     \/ /\ "database" \in Faults      \* applied, but the caller sees an error
        /\ Goto(c, "abort")
        /\ UNCHANGED job
  /\ UNCHANGED <<ranges, rangeId, dian>>

PersistRefused(c) ==
  /\ pc[c] = "sign"
  /\ status[job[c].doc] # "draft" \/ "database" \in Faults
  /\ Goto(c, "abort")
  /\ UNCHANGED <<ranges, documents, dian, job>>

\* _ = numbering.ReleaseIfCurrent(...): its error is ignored.
Abort(c) ==
  /\ pc[c] = "abort"
  /\ \/ ReleaseIfCurrent(job[c].range, job[c].num)
     \/ "database" \in Faults /\ UNCHANGED current
  /\ End(c)
  /\ UNCHANGED <<active, testSet, documents, dian>>

\* Variant: return an error without finish, as an earlier version did.
MismatchReturns(c) ==
  /\ pc[c] = "built"
  /\ RangeEnvironment[prefix[job[c].doc]] # Environment
  /\ End(c)
  /\ UNCHANGED <<ranges, documents, dian>>

EnvironmentMismatch(c) ==
  /\ pc[c] = "built"
  /\ RangeEnvironment[prefix[job[c].doc]] # Environment
  /\ Finish(c, "environment_mismatch")
  /\ UNCHANGED <<ranges, documents, dian>>

ZipFails(c) ==
  /\ pc[c] = "built"
  /\ RangeEnvironment[prefix[job[c].doc]] = Environment
  /\ Finish(c, "send_error")
  /\ UNCHANGED <<ranges, documents, dian>>

Dispatch(c) ==
  /\ pc[c] = "built"
  /\ RangeEnvironment[prefix[job[c].doc]] = Environment
  /\ Goto(c, IF Environment = EnvProduccion \/ ~job[c].ts THEN "sync" ELSE "testset")
  /\ UNCHANGED <<ranges, documents, dian, job>>

-----------------------------------------------------------------------------
(* The DIAN, as the adapter and confirm.go use it.                         *)

SameNumber(d, e) == prefix[d] = prefix[e] /\ number[d] = number[e]

\* The number of d belongs to something else at the DIAN, whose result is v.
Foreign(d, v) ==
  \/ <<prefix[d], number[d]>> \in ConsumedOutside
  \/ \E e \in Docs \ {d} : verdict[e] = v /\ SameNumber(d, e)

Receive(d) == delivered' = delivered \cup {d}

\* guessed keeps the documents whose outcome the system settled on something other
\* than an answer it could read: the refusal of a second send when the first one
\* was lost, a reply that says nothing yet, or one it could not decode.
Guess(d, b) == guessed' = IF b THEN guessed \cup {d} ELSE guessed

\* The DIAN answers a query about d with v.  A document already decided keeps
\* its result; one whose number is already used is turned away with the result
\* of its first user (see consumedNumberWarning); any other is validated.
DianAnswers(d, v) ==
  \/ /\ verdict[d] = v
     /\ Receive(d)
     /\ UNCHANGED verdict
  \/ /\ verdict[d] = "none"
     /\ Foreign(d, v)
     /\ delivered' = delivered \ {d}
     /\ UNCHANGED verdict
  \/ /\ verdict[d] = "none"
     /\ ~Foreign(d, "valid")
     /\ Receive(d)
     /\ verdict' = [verdict EXCEPT ![d] = v]

\* A call that ends in an error other than a soap:Fault, before, during or after
\* the exchange: the document may or may not have got there.
call(d) == Receive(d) \/ UNCHANGED delivered

\* The embedded XML of an answer is decoded whatever the answer says.
Interpret(v) == {v} \cup (IF "garbled" \in Faults THEN {"error"} ELSE {})

\* What the adapter reports of an answer v: when dian.Interpret fails, a
\* result with the StatusCode and IsValid = FALSE.
Reported(v) == {IF x = "error" THEN "invalid" ELSE x : x \in Interpret(v)}

StatusOf(reply) == IF reply = "valid" THEN "accepted" ELSE "rejected"

\* SendBillSync answers in the same call.
SendSyncAnswered(c) ==
  /\ pc[c] = "sync"
  /\ \E v \in {"valid", "invalid"} :
       /\ DianAnswers(job[c].doc, v)
       /\ \E reply \in Reported(v) : /\ Finish(c, StatusOf(reply))
                                     /\ Guess(job[c].doc, reply # v)
  /\ UNCHANGED <<ranges, documents>>

\* A transport error: the DIAN may or may not have received the document.
SendSyncLost(c) ==
  /\ pc[c] = "sync"
  /\ "sync" \in Faults
  /\ call(job[c].doc)
  /\ Goto(c, "async")
  /\ UNCHANGED <<ranges, documents, verdict, guessed, job>>

\* SendBillAsync or SendTestSetAsync returns a zipKey to poll.
SendAsyncAccepted(c) ==
  /\ pc[c] \in {"async", "testset"}
  /\ Receive(job[c].doc)
  /\ Goto(c, IF pc[c] = "async" THEN "poll" ELSE "pollTestSet")
  /\ UNCHANGED <<ranges, documents, verdict, guessed, job>>

\* markError with a transport error: nothing is known, the number is kept.
SendAsyncLost(c) ==
  /\ pc[c] \in {"async", "testset"} \cap Faults
  /\ call(job[c].doc)
  /\ Finish(c, "send_unknown")
  /\ UNCHANGED <<ranges, documents, verdict, guessed>>

\* A soap:Fault (ErrDianRejectedSync), or an asynchronous reply without zipKey,
\* whatever became of a synchronous send that was lost before it.
SendRefused(c) ==
  /\ pc[c] \in {"sync", "async", "testset"}
  /\ Finish(c, "send_error")
  /\ Guess(job[c].doc, pc[c] = "async")
  /\ UNCHANGED <<ranges, documents, delivered, verdict>>

-----------------------------------------------------------------------------
(* Polling GetStatusZip, and finishing.                                    *)

Polling(w) == pc[w] \in {"poll", "pollTestSet"}

\* CheckPendingStatus: only a document in "sent", which has its zipKey.
CheckPendingStatus(v, d) ==
  /\ pc[v] = "idle"
  /\ status[d] = "sent"
  /\ Goto(v, "poll")
  /\ job' = [job EXCEPT ![v] = [NoJob EXCEPT !.doc = d, !.range = rangeId[d],
                                             !.num = number[d]]]
  /\ UNCHANGED <<ranges, documents, dian>>

\* One attempt without a StatusCode: an error, no status at all, or
\* a reply that says nothing yet, which is remembered as the last result.
PollAgain(w) ==
  /\ Polling(w)
  /\ job[w].polls < MaxPolls
  /\ \E reply \in {job[w].last} \cup (IF "pending" \in Faults THEN {"pending"} ELSE {}) :
       job' = [job EXCEPT ![w].polls = @ + 1, ![w].last = reply]
  /\ UNCHANGED <<ranges, documents, dian, pc>>

PollAnswered(w) ==
  /\ Polling(w)
  /\ job[w].polls < MaxPolls
  /\ \E v \in {"valid", "invalid"} :
       /\ DianAnswers(job[w].doc, v)
       /\ \E reply \in Reported(v) : /\ job' = [job EXCEPT ![w].last = reply]
                                     /\ Guess(job[w].doc, reply # v)
  /\ Goto(w, "polled")
  /\ UNCHANGED <<ranges, documents>>

\* IsTestSetClosed: the DIAN turned the submission away, because the test set
\* was already approved.  The same ZIP is sent again, synchronously, and a
\* second pollZipKey would start anew.
TestSetClosed(c) ==
  /\ pc[c] = "pollTestSet"
  /\ job[c].polls < MaxPolls
  /\ verdict[job[c].doc] = "none"
  /\ \/ testSet' = [testSet EXCEPT ![job[c].range] = FALSE]
     \/ "database" \in Faults /\ UNCHANGED testSet
  /\ delivered' = delivered \ {job[c].doc}
  /\ Goto(c, "sync")
  /\ job' = [job EXCEPT ![c].polls = 0, ![c].last = "none"]
  /\ UNCHANGED <<current, active, documents, verdict, guessed>>

PollExhausted(w) ==
  /\ Polling(w)
  /\ job[w].polls = MaxPolls
  /\ Goto(w, "polled")
  /\ UNCHANGED <<ranges, documents, dian, job>>

\* Variant: accepted unless the DIAN said otherwise.
FinishNilAsAccepted(w) ==
  /\ pc[w] = "polled"
  /\ Finish(w, IF job[w].last = "invalid" THEN "rejected" ELSE "accepted")
  /\ Guess(job[w].doc, job[w].last = "pending")
  /\ UNCHANGED <<ranges, documents, delivered, verdict>>

\* No result at all leaves the document in "sent"; any other last result
\* that is not valid, one without a StatusCode included, rejects it.
finishFromPoll(w) ==
  /\ pc[w] = "polled"
  /\ Finish(w, IF job[w].last = "none" THEN "sent" ELSE StatusOf(job[w].last))
  /\ Guess(job[w].doc, job[w].last = "pending")
  /\ UNCHANGED <<ranges, documents, delivered, verdict>>

\* UpdateDianStatus: an UPDATE by id, whatever the status is by now.
UpdateDianStatus(w) ==
  LET s == job[w].outcome IN
  /\ pc[w] = "record"
  /\ status' = [status EXCEPT ![job[w].doc] = s]
  /\ \/ isRetryableFailure(s) /\ Goto(w, "release") /\ UNCHANGED job
     \/ ~isRetryableFailure(s) /\ End(w)
     \/ "database" \in Faults /\ End(w)       \* applied, its reply lost
  /\ UNCHANGED <<ranges, rangeId, prefix, number, dian>>

UpdateFails(w) ==
  /\ pc[w] = "record"
  /\ "database" \in Faults
  /\ End(w)
  /\ UNCHANGED <<ranges, documents, dian>>

Release(w) ==
  /\ pc[w] = "release"
  /\ \/ ReleaseIfCurrent(job[w].range, job[w].num)
     \/ "database" \in Faults /\ UNCHANGED current
  /\ End(w)
  /\ UNCHANGED <<active, testSet, documents, dian>>

Crash(w) ==
  /\ "crash" \in Faults
  /\ pc[w] # "idle"
  /\ End(w)
  /\ UNCHANGED <<ranges, documents, dian>>

-----------------------------------------------------------------------------
UserStep ==
  \/ \E d \in Docs, r \in Ranges : Create(d, r) \/ UpdateDraft(d, r)
  \/ \E d, src \in Docs : CloneDraft(d, src)
  \/ \E d \in Docs : DeleteDraft(d)
  \/ \E r \in Ranges : Activate(r) \/ Deactivate(r)

Request ==
  \/ \E c \in Confirmers, d \in Docs : Confirm(c, d)
  \/ \E v \in Reviewers, d \in Docs : CheckPendingStatus(v, d)

ConfirmStep(c) ==
  \/ prepare(c) \/ ClaimNext(c) \/ ClaimRefused(c) \/ SignFails(c)
  \/ PersistBuilt(c) \/ PersistRefused(c) \/ Abort(c)
  \/ EnvironmentMismatch(c) \/ ZipFails(c) \/ Dispatch(c)
  \/ SendSyncAnswered(c) \/ SendSyncLost(c) \/ SendAsyncAccepted(c)
  \/ SendAsyncLost(c) \/ SendRefused(c) \/ TestSetClosed(c)

FinishStep(w) ==
  \/ PollAgain(w) \/ PollAnswered(w) \/ PollExhausted(w) \/ finishFromPoll(w)
  \/ UpdateDianStatus(w) \/ UpdateFails(w) \/ Release(w)

Next ==
  \/ UserStep
  \/ Request
  \/ \E c \in Confirmers : ConfirmStep(c)
  \/ \E w \in Workers : FinishStep(w) \/ Crash(w)

Spec == Init /\ [][Next]_vars

\* A request the server has taken keeps running; users owe nothing.
Fairness ==
  /\ \A c \in Confirmers : WF_vars(ConfirmStep(c))
  /\ \A w \in Workers : WF_vars(FinishStep(w))

FairSpec == Spec /\ Fairness
-----------------------------------------------------------------------------
(* Correctness.                                                            *)

\* Types of the variables.
TypeOK ==
  /\ current \in [Ranges -> Int]
  /\ active \in [Ranges -> BOOLEAN] /\ testSet \in [Ranges -> BOOLEAN]
  /\ status \in [Docs -> Statuses]
  /\ rangeId \in [Docs -> Ranges \cup {NoRange}]
  /\ prefix \in [Docs -> Ranges \cup {NoRange}]
  /\ number \in [Docs -> Int]
  /\ delivered \subseteq Docs /\ guessed \subseteq Docs
  /\ verdict \in [Docs -> {"none", "valid", "invalid"}]
  /\ pc \in [Workers -> Steps]
  /\ job \in [Workers -> Jobs]

\* The DIAN may know the document and the system has not given its number up.
InForce(d) ==
  \/ status[d] \in {"sent", "accepted", "send_unknown"}
  \/ status[d] = "built" /\ d \in delivered

(***************************************************************************)
(* Two documents in force never carry the same number of the same range,   *)
(* whatever requests interleave, die or lose their replies: the promise    *)
(* ClaimNext and ReleaseIfCurrent exist for.  It takes that a document's   *)
(* range cannot be changed under a running confirmation and that no two    *)
(* reviewers poll one document at once.                                    *)
(***************************************************************************)
UniqueInForce ==
  \A d, e \in Docs :
    d # e /\ InForce(d) /\ InForce(e) => ~SameNumber(d, e)

\* CurrentNumber is the last number claimed: no document in force lies beyond
\* it, so the next ClaimNext cannot issue a number again, nor leave the range.
CurrentIsLastClaimed ==
  \A d \in Docs : InForce(d) =>
    /\ RangeFrom[prefix[d]] <= number[d]
    /\ number[d] <= current[prefix[d]]
    /\ current[prefix[d]] <= RangeTo[prefix[d]]

\* The DIAN never holds a document that is not persisted as confirmed: a user
\* can neither edit nor delete it, even when the request died while sending.
WriteAhead == \A d \in delivered : Confirmed(d)

\* While a confirmation sends a document no other request, a confirmation of
\* the same draft or a status check, is sending or polling it.
Sending(w) == pc[w] \in {"built", "sync", "async", "testset", "poll",
                         "pollTestSet", "polled", "record", "release"}
OneSender ==
  \A c \in Confirmers, w \in Workers :
    c # w /\ Sending(c) /\ Sending(w) => job[c].doc # job[w].doc

\* A document refused for a range of another environment was never sent, which
\* is why finish may release its number.
MismatchNeverSent ==
  \A d \in Docs : status[d] = "environment_mismatch" => d \notin delivered

\* Once a document has left "draft" its number and prefix never change and it is
\* never a draft again, nor deleted: the signed XML stays the document's.
ConfirmedIsFrozen ==
  [][\A d \in Docs : Confirmed(d) =>
       /\ number'[d] = number[d] /\ prefix'[d] = prefix[d]
       /\ Confirmed(d)']_vars

\* A document whose outcome is known keeps it: only "built" and "sent" move on.
FinalStatusStays ==
  [][\A d \in Docs : status[d] \notin {"absent", "draft", "built", "sent"} =>
       status'[d] = status[d]]_vars

\* The DIAN never receives two documents under one number, however many requests
\* confirm, poll, retry or die, unless it has itself rejected one of them or the
\* system settled the outcome of one of them without an answer it could read.
NumberAtDianOnce ==
  \A d, e \in delivered : d # e /\ SameNumber(d, e) =>
    "invalid" \in {verdict[d], verdict[e]} \/ {d, e} \cap guessed # {}

\* The number of d was used by hand, or by a document the DIAN validated after the
\* system had settled its outcome without knowing it.
ValidByAnother(d) ==
  \/ <<prefix[d], number[d]>> \in ConsumedOutside
  \/ \E e \in guessed \ {d} : verdict[e] = "valid" /\ SameNumber(d, e)

\* What is on record is what the DIAN decided, under every failure: "accepted" only
\* where it validated this document or answered for another use of its number, and
\* "rejected", which releases the number, only where it rejected this document or the
\* one that already used its number, or where its answer was unreadable.
RecordedAsDecided ==
  \A d \in Docs :
    /\ status[d] = "accepted" => verdict[d] = "valid" \/ ValidByAnother(d)
    /\ status[d] = "rejected" =>
         verdict[d] = "invalid" \/ Foreign(d, "invalid") \/ d \in guessed

\* No document stays "built": whatever the DIAN and the network answer, the
\* confirmation that wrote it ends by writing an outcome.
BuiltResolves == \A d \in Docs : status[d] = "built" ~> status[d] # "built"
-----------------------------------------------------------------------------
(* The invariants the proofs are by induction on.                          *)

\* A running request has a document and one of its ranges; one that sends or
\* records works on a confirmed document, and has an outcome when it records.
LocalsOK ==
  \A w \in Workers : pc[w] # "idle" =>
    /\ job[w].doc \in Docs
    /\ job[w].range \in RangesFor[job[w].doc]
    /\ Sending(w) => Confirmed(job[w].doc)
    /\ pc[w] = "record" => job[w].outcome # "none"
    /\ w \in Reviewers => /\ pc[w] \in {"poll", "polled", "record", "release"}
                          /\ job[w].outcome # "environment_mismatch"

RowsOK ==
  \A d \in Docs : /\ status[d] # "absent" => rangeId[d] \in RangesFor[d]
                  /\ Confirmed(d) => prefix[d] \in RangesFor[d]

\* Every row and every running request is well formed, and nothing is at the DIAN
\* that a user could still edit.
BaseInv == TypeOK /\ LocalsOK /\ RowsOK /\ WriteAhead

\* Until it sends, a confirmation's document is unknown to the DIAN.
NotYetSent ==
  \A w \in Workers :
    pc[w] = "built" \/ (pc[w] = "record" /\ job[w].outcome = "environment_mismatch")
      => job[w].doc \notin delivered

\* The status under a running request is the one its request left it with.
SenderStatus ==
  /\ \A c \in Confirmers : Sending(c) =>
       IF pc[c] = "release" THEN isRetryableFailure(status[job[c].doc])
                            ELSE status[job[c].doc] = "built"
  /\ \A v \in Reviewers : Sending(v) =>
       status[job[v].doc] \notin {"built", "environment_mismatch"}

\* From documents.Confirm to finish a document belongs to one request, which finds
\* it as it left it and has not sent it before it checked the environment.
SenderInv == OneSender /\ SenderStatus /\ NotYetSent /\ MismatchNeverSent

\* A request between ClaimNext and the end of its release holds a number.
Holds(w) == pc[w] \in {"sign", "abort"} \/ Sending(w)

SameClaim(w, x) == job[w].range = job[x].range /\ job[w].num = job[x].num

CarriesClaim(d, w) == prefix[d] = job[w].range /\ number[d] = job[w].num

\* n is a number r has issued and would not issue next.
Issued(r, n) == RangeFrom[r] <= n /\ n <= current[r]

\* The counter of a range starts below its first number and stops at its last.
CurrentWithinRange ==
  \A r \in Ranges :
    /\ RangeFrom[r] - 1 <= current[r]
    /\ RangeFrom[r] <= current[r] => current[r] <= RangeTo[r]

\* ClaimNext issues from the range; what a request holds is not issued again.
ClaimsIssued == \A w \in Workers : Holds(w) => Issued(job[w].range, job[w].num)

\* No two running requests hold one number.
ClaimsDistinct ==
  \A w, x \in Workers : w # x /\ Holds(w) /\ Holds(x) => ~SameClaim(w, x)

\* The counter never falls behind a document in force.
InForceIssued == \A d \in Docs : InForce(d) => Issued(prefix[d], number[d])

\* Only the request that sends a document in force holds its number.
InForceOwned ==
  \A d \in Docs, w \in Workers :
    InForce(d) /\ Holds(w) /\ CarriesClaim(d, w) => Sending(w) /\ job[w].doc = d

\* The number of a sending request is its document's.
SenderCarries == \A w \in Workers : Sending(w) => CarriesClaim(job[w].doc, w)

\* A status check works on a document still "sent" until it writes an outcome.
ReviewsSent ==
  \A v \in Reviewers : Sending(v) =>
    IF pc[v] = "release" THEN isRetryableFailure(status[job[v].doc])
                         ELSE status[job[v].doc] = "sent"

\* A number has one owner: a document in force, or the request that claimed it and
\* may still persist or release it; and it is one the range has issued.
NumberInv ==
  /\ CurrentWithinRange
  /\ ClaimsIssued
  /\ ClaimsDistinct
  /\ InForceIssued
  /\ UniqueInForce
  /\ InForceOwned
  /\ SenderCarries
  /\ ReviewsSent

\* What the DIAN decided of d, or of the first user of its number, when d was sent.
Decided(d, reply) ==
  /\ reply = "valid" => verdict[d] = "valid" \/ ValidByAnother(d)
  /\ reply = "invalid" =>
       \/ d \in guessed
       \/ verdict[d] = "invalid"
       \/ verdict[d] = "none" /\ d \notin delivered /\ Foreign(d, "invalid")

\* A first send is of a document the DIAN does not hold, and what a request is about to
\* write is what it was told; "send_error" is only written of what never arrived, or as
\* a guess about a lost send.
AnswerOK(w) ==
  LET d == job[w].doc IN
  /\ pc[w] \in {"built", "sync", "testset"} => d \notin delivered
  /\ pc[w] \notin {"polled", "record", "release"} => job[w].last \in {"none", "pending"}
  /\ pc[w] = "polled" => Decided(d, job[w].last)
  /\ pc[w] = "record" =>
       /\ job[w].outcome = "accepted" => Decided(d, "valid")
       /\ job[w].outcome = "rejected" => Decided(d, "invalid")
       /\ job[w].outcome = "send_error" => d \notin delivered \/ d \in guessed

\* What the DIAN decided it holds, and what it holds and has not rejected is in force,
\* unless the system settled its outcome without an answer.
DeliveredInForce ==
  /\ \A d \in Docs : verdict[d] # "none" => d \in delivered
  /\ \A d \in delivered : InForce(d) \/ verdict[d] = "invalid" \/ d \in guessed

\* The system's record and the DIAN's agree, and so will what is about to be written.
DianInv == DeliveredInForce /\ RecordedAsDecided /\ \A w \in Workers : AnswerOK(w)

\* The two conditions under which the numbers are safe.
OneRangePerDocument ==
  \A d \in Docs : \A r, s \in RangesFor[d] : r = s
OneReviewer == \A v, w \in Reviewers : v = w
=============================================================================
