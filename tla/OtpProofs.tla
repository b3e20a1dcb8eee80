------------------------------- MODULE OtpProofs -------------------------------
(***************************************************************************)
(* Otp for every number of calls, every limit and every clock: the budget  *)
(* of a code, no replay of an accepted one, and the send accounting.       *)
(***************************************************************************)
EXTENDS Otp, TLAPS, FiniteSetTheorems

\* The put of the request has happened, or may have.
Issued(r) == rpc[r] \in {"send", "sent", "failed"}

\* A record in the store was put by its request, which puts no other.
RecordIssued == record # NoRecord => Issued(record.by)

\* A confirm past its read holds a record whose request has put it.
SeenIssued ==
    \A c \in Confirms :
        cpc[c] \in {"count", "delete", "accepted"} =>
            cseen[c] # NoRecord /\ Issued(cseen[c].by)

\* Comparisons are charged to a stored record only, and its own counter has
\* seen each of them.
PaidByRecord ==
    /\ \A r \in Requests : ~Issued(r) => paid[r] = 0
    /\ record # NoRecord => paid[record.by] <= record.attempts

\* What a request has read satisfies the accounting too, and still permits it.
SeenSpaced ==
    \A r \in Requests :
        rpc[r] = "put" =>
            /\ MayIssue(rseen[r], rat[r])
            /\ rseen[r] # NoRecord => Spaced(rseen[r])

\* The inductive invariant.
IInv ==
    /\ TypeOK
    /\ RecordIssued
    /\ SeenIssued
    /\ PaidByRecord
    /\ SeenSpaced
    /\ BudgetPerCode
    /\ NoReplay
    /\ CountedSendsSpaced
-------------------------------------------------------------------------------
\* The record a permitted request puts has type Record and satisfies the
\* accounting, when the record it read does.
LEMMA NewRecordSpaced ==
    ASSUME NEW r \in Requests, NEW t \in Nat, NEW existing \in Record \cup {NoRecord},
           MayIssue(existing, t),
           existing # NoRecord => Spaced(existing)
    PROVE  NewRecord(r, existing, t) \in Record /\ Spaced(NewRecord(r, existing, t))
<1> DEFINE new == NewRecord(r, existing, t)
<1>1. CASE InWindow(existing, t)
  <2>1. existing \in Record /\ Spaced(existing)
    BY <1>1 DEF InWindow
  <2>2. /\ existing.sendCount \in Nat /\ existing.issuedAt \in Nat
        /\ existing.windowStart \in Nat
    BY <2>1 DEF Record
  <2>3. /\ new.sendCount = existing.sendCount + 1 /\ new.issuedAt = t
        /\ new.windowStart = existing.windowStart
    BY <1>1 DEF NewRecord, Counted
  <2>4. existing.sendCount < MaxSends /\ t - existing.issuedAt >= Cooldown
    BY <1>1, <2>1, <2>2, LimitsAssumption, NoRecordAssumption
    DEF MayIssue, CoolingDown, Counted, InWindow
  <2>5. existing.sendCount * Cooldown = (existing.sendCount - 1) * Cooldown + Cooldown
    BY <2>2, LimitsAssumption
  <2>6. /\ (existing.sendCount - 1) * Cooldown \in Int
        /\ existing.issuedAt - existing.windowStart >= (existing.sendCount - 1) * Cooldown
    BY <2>1, <2>2, LimitsAssumption DEF Spaced
  <2>7. t - existing.windowStart >= existing.sendCount * Cooldown
    BY <2>2, <2>4, <2>5, <2>6, LimitsAssumption
  <2>8. (new.sendCount - 1) * Cooldown = existing.sendCount * Cooldown
    BY <2>2, <2>3
  <2>9. t - existing.windowStart < Window
    BY <1>1 DEF InWindow
  <2>10. Spaced(new)
    <3>1. new.sendCount \in 1 .. MaxSends
      BY <2>2, <2>3, <2>4, LimitsAssumption
    <3> QED BY <3>1, <2>3, <2>7, <2>8, <2>9 DEF Spaced
  <2>11. new \in Record
    BY <1>1, <2>2, LimitsAssumption DEF NewRecord, Counted, Record
  <2> QED BY <2>10, <2>11
<1>2. CASE ~InWindow(existing, t)
  <2>1. /\ new.sendCount = 1 /\ new.issuedAt = t /\ new.windowStart = t
        /\ new \in Record
    BY <1>2, LimitsAssumption DEF NewRecord, Counted, Record
  <2>2. new.sendCount \in 1 .. MaxSends
    BY <2>1, LimitsAssumption
  <2>3. t - t >= (1 - 1) * Cooldown
    BY LimitsAssumption
  <2> QED BY <2>1, <2>2, <2>3 DEF Spaced
<1> QED BY <1>1, <1>2

LEMMA InitIInv == Init => IInv
<1> SUFFICES ASSUME Init PROVE IInv
  OBVIOUS
<1>1. TypeOK
  BY DEF Init, TypeOK, RequestPc, ConfirmPc
<1>2. /\ RecordIssued /\ SeenIssued /\ SeenSpaced /\ NoReplay /\ CountedSendsSpaced
  BY DEF Init, RecordIssued, SeenIssued, SeenSpaced, NoReplay, CountedSendsSpaced
<1>3. PaidByRecord /\ BudgetPerCode
  BY LimitsAssumption DEF Init, PaidByRecord, BudgetPerCode
<1> QED BY <1>1, <1>2, <1>3 DEF IInv

\* A step of a call of issue preserves the invariant.
LEMMA RequestStepIInv ==
    ASSUME IInv, NEW r \in Requests, RequestStep(r)
    PROVE  IInv'
<1> USE NoRecordAssumption, LimitsAssumption
<1> USE DEF store, reqs, confs, hist
<1>1. CASE BeginRequest(r)
  <2>1. TypeOK'
    BY <1>1 DEF IInv, TypeOK, BeginRequest, RequestPc
  <2>2. RecordIssued' /\ SeenIssued' /\ PaidByRecord'
    BY <1>1 DEF IInv, TypeOK, BeginRequest, RecordIssued, SeenIssued, PaidByRecord, Issued, Record
  <2>3. SeenSpaced'
    BY <1>1 DEF IInv, TypeOK, BeginRequest, SeenSpaced
  <2>4. BudgetPerCode' /\ NoReplay' /\ CountedSendsSpaced'
    BY <1>1 DEF IInv, BeginRequest, BudgetPerCode, NoReplay, CountedSendsSpaced
  <2> QED BY <2>1, <2>2, <2>3, <2>4 DEF IInv
<1>2. CASE GetExisting(r)
  <2>1. TypeOK'
    BY <1>2 DEF IInv, TypeOK, GetExisting, RequestPc
  <2>2. RecordIssued' /\ SeenIssued' /\ PaidByRecord'
    BY <1>2 DEF IInv, TypeOK, GetExisting, RecordIssued, SeenIssued, PaidByRecord, Issued, Record
  <2>3. SeenSpaced'
    BY <1>2 DEF IInv, TypeOK, GetExisting, SeenSpaced, CountedSendsSpaced
  <2>4. BudgetPerCode' /\ NoReplay' /\ CountedSendsSpaced'
    BY <1>2 DEF IInv, GetExisting, BudgetPerCode, NoReplay, CountedSendsSpaced
  <2> QED BY <2>1, <2>2, <2>3, <2>4 DEF IInv
<1>3. CASE RefuseRequest(r) \/ Deliver(r) \/ FailRequest(r)
  <2>1. TypeOK'
    BY <1>3 DEF IInv, TypeOK, RefuseRequest, Deliver, FailRequest,
                EndRequest, RequestPc
  <2>2. /\ UNCHANGED <<now, record, cpc, cat, cseen, paid>>
        /\ \A q \in Requests :
              /\ Issued(q) => Issued(q)'
              /\ rpc'[q] = "put" =>
                    rpc[q] = "put" /\ rseen'[q] = rseen[q] /\ rat'[q] = rat[q]
    BY <1>3 DEF IInv, TypeOK, RefuseRequest, Deliver, FailRequest, EndRequest, Issued
  <2>3. RecordIssued' /\ SeenIssued' /\ PaidByRecord'
    BY <2>2 DEF IInv, TypeOK, RecordIssued, SeenIssued, PaidByRecord, Record
  <2>4. SeenSpaced'
    BY <2>2 DEF IInv, SeenSpaced
  <2>5. BudgetPerCode' /\ NoReplay' /\ CountedSendsSpaced'
    BY <2>2 DEF IInv, BudgetPerCode, NoReplay, CountedSendsSpaced
  <2> QED BY <2>1, <2>3, <2>4, <2>5 DEF IInv
<1>4. CASE PutCode(r)
  <2> DEFINE new == NewRecord(r, rseen[r], rat[r])
  <2>1. /\ rpc[r] = "put" /\ record' = new /\ new.by = r /\ new.attempts = 0
        /\ rpc' = [rpc EXCEPT ![r] = "send"]
        /\ UNCHANGED <<now, rat, rseen, cpc, cat, cseen, paid>>
    BY <1>4 DEF PutCode, NewRecord
  <2>2. new \in Record /\ Spaced(new)
    <3>1. /\ MayIssue(rseen[r], rat[r])
          /\ rseen[r] # NoRecord => Spaced(rseen[r])
          /\ rat[r] \in Nat /\ rseen[r] \in Record \cup {NoRecord}
      BY <2>1 DEF IInv, TypeOK, SeenSpaced
    <3> QED BY <3>1, NewRecordSpaced
  <2>3. TypeOK'
    BY <2>1, <2>2 DEF IInv, TypeOK, RequestPc
  <2>4. RecordIssued' /\ SeenIssued'
    BY <2>1, <2>2 DEF IInv, TypeOK, RecordIssued, SeenIssued, Issued, Record
  <2>5. PaidByRecord'
    BY <2>1, <2>2 DEF IInv, TypeOK, PaidByRecord, Issued
  <2>6. SeenSpaced'
    BY <2>1 DEF IInv, TypeOK, SeenSpaced
  <2>7. NoReplay'
    \* The code accepted was put before, and its request puts no other.
    <3>1. \A c \in Confirms : cpc[c] = "accepted" => cseen[c].by # r
      BY <2>1 DEF IInv, SeenIssued, Issued
    <3> QED BY <2>1, <3>1 DEF NoReplay
  <2>8. BudgetPerCode' /\ CountedSendsSpaced'
    BY <2>1, <2>2 DEF IInv, BudgetPerCode, CountedSendsSpaced
  <2> QED BY <2>3, <2>4, <2>5, <2>6, <2>7, <2>8 DEF IInv
<1> QED BY <1>1, <1>2, <1>3, <1>4 DEF RequestStep

\* A step of a call of check preserves the invariant.
LEMMA ConfirmStepIInv ==
    ASSUME IInv, NEW c \in Confirms, ConfirmStep(c)
    PROVE  IInv'
<1> USE NoRecordAssumption, LimitsAssumption
<1> USE DEF store, reqs, confs, hist
<1>1. CASE BeginConfirm(c) \/ RefuseMalformed(c) \/ RefuseMissing(c) \/ CountMissing(c)
  <2>1. TypeOK'
    BY <1>1 DEF IInv, TypeOK, BeginConfirm, RefuseMalformed, RefuseMissing,
                CountMissing, EndConfirm, ConfirmPc
  <2>2. /\ UNCHANGED <<now, record, rpc, rat, rseen, paid>>
        /\ \A d \in Confirms :
              /\ cpc'[d] \in {"count", "delete", "accepted"}
                    => /\ cpc[d] \in {"count", "delete", "accepted"}
                       /\ cseen'[d] = cseen[d]
              /\ cpc'[d] = "accepted" => cpc[d] = "accepted"
    BY <1>1 DEF IInv, TypeOK, BeginConfirm, RefuseMalformed, RefuseMissing,
                CountMissing, EndConfirm
  <2>3. RecordIssued' /\ SeenIssued' /\ PaidByRecord' /\ SeenSpaced'
    BY <2>2 DEF IInv, RecordIssued, SeenIssued, PaidByRecord, SeenSpaced, Issued
  <2>4. BudgetPerCode' /\ NoReplay' /\ CountedSendsSpaced'
    BY <2>2 DEF IInv, BudgetPerCode, NoReplay, CountedSendsSpaced
  <2> QED BY <2>1, <2>3, <2>4 DEF IInv
<1>2. CASE GetRecord(c)
  <2>1. TypeOK'
    BY <1>2 DEF IInv, TypeOK, GetRecord, ConfirmPc
  <2>2. SeenIssued'
    BY <1>2 DEF IInv, TypeOK, GetRecord, Live, SeenIssued, RecordIssued, Issued
  <2>3. RecordIssued' /\ PaidByRecord' /\ SeenSpaced'
    BY <1>2 DEF IInv, GetRecord, RecordIssued, PaidByRecord, SeenSpaced, Issued
  <2>4. BudgetPerCode' /\ CountedSendsSpaced'
    BY <1>2 DEF IInv, GetRecord, BudgetPerCode, CountedSendsSpaced
  <2>5. NoReplay'
    BY <1>2 DEF IInv, TypeOK, GetRecord, NoReplay
  <2> QED BY <2>1, <2>2, <2>3, <2>4, <2>5 DEF IInv
<1>3. CASE CountOver(c)
  <2>1. /\ record \in Record /\ record' \in Record
        /\ record' = [record EXCEPT !.attempts = record.attempts + 1]
        /\ record'.by = record.by
    BY <1>3 DEF IInv, TypeOK, CountOver, Attempts, Record
  <2>2. TypeOK'
    BY <1>3, <2>1 DEF IInv, TypeOK, CountOver, EndConfirm, ConfirmPc
  <2>3. RecordIssued' /\ SeenIssued' /\ SeenSpaced'
    BY <1>3, <2>1 DEF IInv, TypeOK, CountOver, EndConfirm, RecordIssued, SeenIssued, SeenSpaced, Issued
  <2>4. PaidByRecord'
    BY <1>3, <2>1 DEF IInv, TypeOK, CountOver, EndConfirm, PaidByRecord, Issued, Record
  <2>5. BudgetPerCode' /\ NoReplay'
    BY <1>3, <2>1 DEF IInv, TypeOK, CountOver, EndConfirm, BudgetPerCode, NoReplay
  <2>6. CountedSendsSpaced'
    BY <1>3, <2>1 DEF IInv, CountedSendsSpaced, Spaced, Record
  <2> QED BY <2>2, <2>3, <2>4, <2>5, <2>6 DEF IInv
<1>4. CASE CountAndCompare(c)
  <2>1. /\ record \in Record /\ record' \in Record
        /\ record' = [record EXCEPT !.attempts = record.attempts + 1]
        /\ record'.by = record.by /\ record.by \in Requests
        /\ record'.attempts = record.attempts + 1 /\ record.attempts \in Nat
        /\ record'.attempts <= MaxAttempts
    BY <1>4 DEF IInv, TypeOK, CountAndCompare, Attempts, Record
  <2>2. TypeOK'
    BY <1>4, <2>1 DEF IInv, TypeOK, CountAndCompare, EndConfirm, ConfirmPc, SeenIssued, Record
  <2>3. RecordIssued' /\ SeenIssued' /\ SeenSpaced'
    BY <1>4, <2>1 DEF IInv, TypeOK, CountAndCompare, EndConfirm,
                      RecordIssued, SeenIssued, SeenSpaced, Issued
  <2>4. PaidByRecord' /\ BudgetPerCode'
    \* The comparison is charged to the stored record, whose counter moves with it.
    <3>1. paid' = [paid EXCEPT ![record.by] = @ + 1] /\ UNCHANGED rpc
      BY <1>4 DEF CountAndCompare
    <3>2. Issued(record.by) /\ paid[record.by] <= record.attempts /\ paid \in [Requests -> Nat]
      BY <2>1 DEF IInv, TypeOK, RecordIssued, PaidByRecord
    <3>3. PaidByRecord'
      BY <2>1, <3>1, <3>2 DEF IInv, PaidByRecord, Issued
    <3>4. BudgetPerCode'
      BY <2>1, <3>1, <3>2 DEF IInv, BudgetPerCode
    <3> QED BY <3>3, <3>4
  <2>5. NoReplay'
    BY <1>4, <2>1 DEF IInv, TypeOK, CountAndCompare, EndConfirm, NoReplay
  <2>6. CountedSendsSpaced'
    BY <1>4, <2>1 DEF IInv, CountedSendsSpaced, Spaced, Record
  <2> QED BY <2>2, <2>3, <2>4, <2>5, <2>6 DEF IInv
<1>5. CASE PurgeRecord(c) \/ Accept(c)
  <2>1. TypeOK'
    BY <1>5 DEF IInv, TypeOK, PurgeRecord, Accept, EndConfirm, ConfirmPc
  <2>2. /\ record' = NoRecord
        /\ UNCHANGED <<now, rpc, rat, rseen, paid>>
        /\ \A d \in Confirms :
              cpc'[d] \in {"count", "delete", "accepted"}
                 => /\ cpc[d] \in {"count", "delete", "accepted"}
                    /\ cseen'[d] = cseen[d]
    BY <1>5 DEF IInv, TypeOK, PurgeRecord, Accept, EndConfirm
  <2>3. RecordIssued' /\ SeenIssued' /\ PaidByRecord' /\ SeenSpaced'
    BY <2>2 DEF IInv, RecordIssued, SeenIssued, PaidByRecord, SeenSpaced, Issued
  <2>4. BudgetPerCode' /\ NoReplay' /\ CountedSendsSpaced'
    BY <2>2 DEF IInv, BudgetPerCode, NoReplay, CountedSendsSpaced
  <2> QED BY <2>1, <2>3, <2>4 DEF IInv
<1>6. CASE FailConfirm(c)
  \* The record is as it was, counted once more, or gone.
  <2>1. /\ record' # NoRecord =>
              /\ record # NoRecord /\ record' \in Record /\ record \in Record
              /\ record'.attempts \in {record.attempts, record.attempts + 1}
              /\ record'.by = record.by /\ record'.issuedAt = record.issuedAt
              /\ record'.windowStart = record.windowStart
              /\ record'.sendCount = record.sendCount
        /\ record' \in Record \cup {NoRecord}
    BY <1>6 DEF IInv, TypeOK, FailConfirm, Attempts, Record
  <2>2. TypeOK'
    BY <1>6, <2>1 DEF IInv, TypeOK, FailConfirm, EndConfirm, ConfirmPc
  <2>3. /\ UNCHANGED <<now, rpc, rat, rseen, paid>>
        /\ \A d \in Confirms :
              cpc'[d] \in {"count", "delete", "accepted"}
                 => cpc'[d] = cpc[d] /\ cseen'[d] = cseen[d]
    BY <1>6 DEF IInv, TypeOK, FailConfirm, EndConfirm
  <2>4. RecordIssued' /\ SeenIssued' /\ SeenSpaced'
    BY <2>1, <2>3 DEF IInv, RecordIssued, SeenIssued, SeenSpaced, Issued
  <2>5. PaidByRecord'
    BY <2>1, <2>3 DEF IInv, TypeOK, PaidByRecord, Issued, Record
  <2>6. BudgetPerCode' /\ NoReplay'
    BY <2>1, <2>3 DEF IInv, BudgetPerCode, NoReplay
  <2>7. CountedSendsSpaced'
    BY <2>1 DEF IInv, CountedSendsSpaced, Spaced, Record
  <2> QED BY <2>2, <2>4, <2>5, <2>6, <2>7 DEF IInv
<1> QED BY <1>1, <1>2, <1>3, <1>4, <1>5, <1>6 DEF ConfirmStep

LEMMA NextIInv == IInv /\ [Next]_vars => IInv'
<1> SUFFICES ASSUME IInv, [Next]_vars PROVE IInv'
  OBVIOUS
<1>1. CASE Tick \/ UNCHANGED vars
  <2>1. now' \in Nat
    BY <1>1 DEF IInv, TypeOK, Tick, vars
  <2>2. UNCHANGED <<record, rpc, rat, rseen, cpc, cat, cseen, paid>>
    BY <1>1 DEF Tick, vars, reqs, confs, hist
  <2>3. TypeOK'
    BY <2>1, <2>2 DEF IInv, TypeOK
  <2>4. RecordIssued' /\ SeenIssued' /\ PaidByRecord' /\ SeenSpaced'
    BY <2>2 DEF IInv, RecordIssued, SeenIssued, PaidByRecord, SeenSpaced, Issued
  <2>5. BudgetPerCode' /\ NoReplay' /\ CountedSendsSpaced'
    BY <2>2 DEF IInv, BudgetPerCode, NoReplay, CountedSendsSpaced
  <2> QED BY <2>3, <2>4, <2>5 DEF IInv
<1>2. CASE Sweep
  <2>1. record' = NoRecord /\ UNCHANGED <<now, rpc, rat, rseen, cpc, cat, cseen, paid>>
    BY <1>2 DEF Sweep, reqs, confs, hist
  <2>2. TypeOK'
    BY <2>1 DEF IInv, TypeOK
  <2>3. RecordIssued' /\ SeenIssued' /\ PaidByRecord' /\ SeenSpaced'
    BY <2>1 DEF IInv, RecordIssued, SeenIssued, PaidByRecord, SeenSpaced, Issued
  <2>4. BudgetPerCode' /\ NoReplay' /\ CountedSendsSpaced'
    BY <2>1 DEF IInv, BudgetPerCode, NoReplay, CountedSendsSpaced
  <2> QED BY <2>2, <2>3, <2>4 DEF IInv
<1>3. ASSUME NEW r \in Requests, RequestStep(r) PROVE IInv'
  BY <1>3, RequestStepIInv
<1>4. ASSUME NEW c \in Confirms, ConfirmStep(c) PROVE IInv'
  BY <1>4, ConfirmStepIInv
<1> QED BY <1>1, <1>2, <1>3, <1>4 DEF Next

LEMMA SpecIInv == Spec => []IInv
BY InitIInv, NextIInv, PTL DEF Spec
-------------------------------------------------------------------------------
\* Every variable of the model has its type.
THEOREM OtpTypeOK == Spec => []TypeOK
<1>1. IInv => TypeOK
  BY DEF IInv
<1> QED BY <1>1, SpecIInv, PTL

\* No code pays for more than MaxAttempts comparisons, however many confirms
\* race on recordAttempt.
THEOREM OtpBudget == Spec => []BudgetPerCode
<1>1. IInv => BudgetPerCode
  BY DEF IInv
<1> QED BY <1>1, SpecIInv, PTL

\* After a confirm has returned true, the code it accepted is never in the
\* store again.
THEOREM OtpNoReplay == Spec => []NoReplay
<1>1. IInv => NoReplay
  BY DEF IInv
<1> QED BY <1>1, SpecIInv, PTL

\* The stored send count never exceeds the limit and never claims more sends
\* than the cooldown allows in the time it spans.
THEOREM OtpSendsSpaced == Spec => []CountedSendsSpaced
<1>1. IInv => CountedSendsSpaced
  BY DEF IInv
<1> QED BY <1>1, SpecIInv, PTL
-------------------------------------------------------------------------------
(* The send limit of calls one after another: a request that was sent has a *)
(* window, of which it is the k-th send.                                    *)

\* Windows do not overlap, and the sends of one are told apart.
Windowed(w, k) ==
    /\ \A r \in Requests : Sent(r) =>
        /\ k[r] \in 1 .. MaxSends
        /\ w[r] <= rat[r] /\ rat[r] < w[r] + Window
        /\ k[r] = 1 => rat[r] = w[r]
    /\ \A r, s \in Requests : Sent(r) /\ Sent(s) /\ r # s =>
        /\ w[r] = w[s] => k[r] # k[s]
        /\ w[r] < w[s] => w[r] + Window <= w[s]

\* The stored record counts the sends of the last window, among them one that is
\* on its way.
CountsLast(w, k) ==
    /\ record = NoRecord => \A s \in Requests : Sent(s) => w[s] + Window <= now
    /\ record # NoRecord => \A s \in Requests : Sent(s) =>
        \/ w[s] + Window <= record.windowStart
        \/ /\ w[s] = record.windowStart /\ k[s] <= record.sendCount
           /\ k[s] = record.sendCount => \A r \in Requests : rpc[r] # "send"

\* The one request under way works on the stored record.
WorksOnStored ==
    \A r \in Requests :
        /\ rpc[r] \in {"get", "put", "send"} => rat[r] = now
        /\ rpc[r] = "put" /\ rseen[r] # record => record = NoRecord /\ ~InWindow(rseen[r], rat[r])
        /\ rpc[r] = "send" =>
            /\ record # NoRecord
            /\ record.windowStart <= rat[r] /\ rat[r] < record.windowStart + Window
            /\ record.sendCount = 1 => record.windowStart = rat[r]

OneActive == \A x, y \in Active : x = y

\* The inductive invariant of calls one after another.
SequentialInv ==
    /\ IInv
    /\ OneActive
    /\ LimitsKept =>
        WorksOnStored /\ \E w, k \in [Requests -> Nat] : Windowed(w, k) /\ CountsLast(w, k)

\* Whoever deletes the record has ended the limits.
LEMMA LimitsGo == IInv /\ [Next]_vars /\ LimitsKept' => LimitsKept
<1> SUFFICES ASSUME IInv, [Next]_vars, NEW c \in Confirms, cpc[c] \in {"accepted", "purged"}
             PROVE  cpc'[c] \in {"accepted", "purged"}
  BY DEF LimitsKept
<1> USE DEF IInv, TypeOK, confs
<1>1. ASSUME NEW d \in Confirms, ConfirmStep(d) PROVE cpc'[c] = cpc[c]
  BY <1>1 DEF ConfirmStep, BeginConfirm, RefuseMalformed, GetRecord, RefuseMissing, CountMissing,
              CountOver, CountAndCompare, PurgeRecord, Accept, FailConfirm, EndConfirm
<1>2. ASSUME NEW r \in Requests, RequestStep(r) PROVE cpc' = cpc
  BY <1>2 DEF RequestStep, BeginRequest, GetExisting, RefuseRequest, PutCode, Deliver, FailRequest
<1> QED BY <1>1, <1>2 DEF Next, Tick, Sweep, vars

\* A step that sends nothing, and leaves the accounting of the record or sweeps it
\* when its window is over.
LEMMA AccountStays ==
    ASSUME IInv, now' \in Nat, now <= now',
           NEW w \in [Requests -> Nat], NEW k \in [Requests -> Nat], Windowed(w, k), CountsLast(w, k),
           \A r \in Requests : /\ Sent(r)' => Sent(r) /\ rat'[r] = rat[r]
                               /\ rpc'[r] = "send" => rpc[r] = "send",
           \/ record' = NoRecord /\ (record # NoRecord => record.windowStart + Window <= now)
           \/ /\ record # NoRecord /\ record' # NoRecord
              /\ record'.windowStart = record.windowStart /\ record'.sendCount = record.sendCount
    PROVE  Windowed(w, k)' /\ CountsLast(w, k)'
<1>1. Windowed(w, k)'
  BY DEF Windowed
<1>2. CASE record' = NoRecord /\ (record # NoRecord => record.windowStart + Window <= now)
  <2>1. now \in Nat /\ (record # NoRecord => record.windowStart \in Nat)
    BY DEF IInv, TypeOK, Record
  <2>2. \A s \in Requests : Sent(s) => w[s] + Window <= now
    BY <1>2, <2>1, LimitsAssumption DEF CountsLast
  <2> QED BY <1>1, <1>2, <2>1, <2>2, LimitsAssumption DEF CountsLast
<1>3. CASE /\ record # NoRecord /\ record' # NoRecord
           /\ record'.windowStart = record.windowStart /\ record'.sendCount = record.sendCount
  BY <1>1, <1>3 DEF CountsLast
<1> QED BY <1>2, <1>3

\* The record a request puts opens the next window, or counts one more in the last.
LEMMA PutCounts ==
    ASSUME IInv, NEW r \in Requests, PutCode(r), WorksOnStored, CallsAssumption, OneActive,
           NEW w \in [Requests -> Nat], NEW k \in [Requests -> Nat], Windowed(w, k), CountsLast(w, k)
    PROVE  WorksOnStored' /\ Windowed(w, k)' /\ CountsLast(w, k)'
<1> USE NoRecordAssumption, LimitsAssumption
<1> PICK new : new = NewRecord(r, rseen[r], rat[r])
  OBVIOUS
<1>1. /\ rpc[r] = "put" /\ record' = new /\ rpc' = [rpc EXCEPT ![r] = "send"]
      /\ UNCHANGED <<now, rat, rseen>>
  BY DEF PutCode
<1>2. /\ MayIssue(rseen[r], rat[r])
      /\ rseen[r] # NoRecord => Spaced(rseen[r])
      /\ rat[r] \in Nat /\ rseen[r] \in Record \cup {NoRecord} /\ rat[r] = now
      /\ rseen[r] = record \/ (record = NoRecord /\ ~InWindow(rseen[r], rat[r]))
      /\ now \in Nat /\ record \in Record \cup {NoRecord} /\ rpc \in [Requests -> RequestPc]
  BY <1>1 DEF IInv, TypeOK, SeenSpaced, WorksOnStored
<1>3. new \in Record /\ Spaced(new)
  BY <1>2, NewRecordSpaced
<1>4. \A s \in Requests : rpc[s] \in {"get", "put", "send"} => s = r
  BY <1>1 DEF OneActive, Active
<1>5. CASE InWindow(rseen[r], rat[r])
  <2>1. rseen[r] = record /\ record # NoRecord /\ record \in Record /\ Spaced(record)
    BY <1>2, <1>5 DEF InWindow
  <2>2. /\ new.windowStart = record.windowStart /\ new.sendCount = record.sendCount + 1
        /\ record.sendCount \in Nat \ {0} /\ record.windowStart \in Nat
        /\ rat[r] < record.windowStart + Window
    BY <1>2, <1>5, <2>1 DEF NewRecord, Counted, InWindow, Spaced, Record
  <2>3. record.windowStart <= rat[r]
    <3>1. record.issuedAt \in Nat /\ (record.sendCount - 1) * Cooldown >= 0
      BY <2>1, <2>2 DEF Record
    <3>2. record.issuedAt >= record.windowStart
      BY <2>1, <2>2, <3>1 DEF Spaced
    <3>3. rat[r] - record.issuedAt >= Cooldown
      BY <1>2, <2>1, <3>1 DEF MayIssue, CoolingDown
    <3> QED BY <1>2, <2>2, <3>1, <3>2, <3>3
  <2>4. CountsLast(w, k)'
    BY <1>1, <1>3, <2>1, <2>2 DEF CountsLast, Sent, Windowed
  <2>5. WorksOnStored'
    BY <1>1, <1>2, <1>3, <1>4, <2>2, <2>3 DEF WorksOnStored
  <2> QED BY <1>1, <2>4, <2>5 DEF Windowed, Sent
<1>6. CASE ~InWindow(rseen[r], rat[r])
  <2>1. new.windowStart = rat[r] /\ new.sendCount = 1
    BY <1>6 DEF NewRecord, Counted
  <2>2. \A s \in Requests : Sent(s) => w[s] + Window <= now
    <3>1. CASE record = NoRecord
      BY <3>1 DEF CountsLast
    <3>2. CASE record # NoRecord
      <4>1. record.windowStart \in Nat /\ record.windowStart + Window <= now
        BY <1>2, <1>6, <3>2 DEF InWindow, Record
      <4> QED BY <1>2, <3>2, <4>1 DEF CountsLast
    <3> QED BY <3>1, <3>2
  <2>3. CountsLast(w, k)'
    BY <1>1, <1>2, <1>3, <2>1, <2>2 DEF CountsLast, Sent
  <2>4. WorksOnStored'
    BY <1>1, <1>2, <1>3, <1>4, <2>1 DEF WorksOnStored
  <2> QED BY <1>1, <2>3, <2>4 DEF Windowed, Sent
<1> QED BY <1>5, <1>6

\* A request that has been sent is the last of its window.
LEMMA DeliverCounts ==
    ASSUME IInv, NEW r \in Requests, Deliver(r), WorksOnStored, OneActive,
           NEW w \in [Requests -> Nat], NEW k \in [Requests -> Nat], Windowed(w, k), CountsLast(w, k)
    PROVE  \E x, l \in [Requests -> Nat] : Windowed(x, l)' /\ CountsLast(x, l)'
<1> USE NoRecordAssumption, LimitsAssumption
<1>1. /\ rpc[r] = "send" /\ rpc' = [rpc EXCEPT ![r] = "sent"] /\ UNCHANGED <<now, record, rat>>
      /\ rpc \in [Requests -> RequestPc]
  BY DEF Deliver, EndRequest, IInv, TypeOK, store
<1>2. /\ record # NoRecord /\ record \in Record /\ Spaced(record)
      /\ record.windowStart <= rat[r] /\ rat[r] < record.windowStart + Window
      /\ record.sendCount = 1 => record.windowStart = rat[r]
  BY <1>1 DEF WorksOnStored, IInv, TypeOK, CountedSendsSpaced
<1>3. record.sendCount \in 1 .. MaxSends /\ record.windowStart \in Nat
  BY <1>2 DEF Spaced, Record
<1> PICK x : x = [w EXCEPT ![r] = record.windowStart]
  OBVIOUS
<1> PICK l : l = [k EXCEPT ![r] = record.sendCount]
  OBVIOUS
<1>4. x \in [Requests -> Nat] /\ l \in [Requests -> Nat]
  BY <1>3
<1>5. /\ x[r] = record.windowStart /\ l[r] = record.sendCount
      /\ \A s \in Requests : s # r => x[s] = w[s] /\ l[s] = k[s]
  OBVIOUS
<1>6. \A s \in Requests : Sent(s)' <=> s = r \/ Sent(s)
  BY <1>1 DEF Sent
<1>7. \A s \in Requests : Sent(s) =>
          \/ w[s] + Window <= record.windowStart
          \/ w[s] = record.windowStart /\ k[s] <= record.sendCount /\ k[s] # record.sendCount
  BY <1>1, <1>2 DEF CountsLast
<1>8. \A s \in Requests : rpc'[s] # "send"
  BY <1>1 DEF OneActive, Active
<1>9. CountsLast(x, l)'
  BY <1>1, <1>2, <1>3, <1>5, <1>6, <1>7, <1>8 DEF CountsLast
<1>10. Windowed(x, l)'
  <2>1. \A s \in Requests : Sent(s)' =>
            /\ l[s] \in 1 .. MaxSends /\ x[s] <= rat'[s] /\ rat'[s] < x[s] + Window
            /\ l[s] = 1 => rat'[s] = x[s]
    BY <1>1, <1>2, <1>3, <1>5, <1>6 DEF Windowed
  <2>2. \A s \in Requests : Sent(s) /\ s # r =>
            /\ x[s] = x[r] => l[s] # l[r]
            /\ x[s] < x[r] => x[s] + Window <= x[r]
            /\ ~(x[r] < x[s])
    BY <1>3, <1>5, <1>7
  <2>3. \A s, u \in Requests : Sent(s)' /\ Sent(u)' /\ s # u =>
            /\ x[s] = x[u] => l[s] # l[u]
            /\ x[s] < x[u] => x[s] + Window <= x[u]
    BY <1>5, <1>6, <2>2 DEF Windowed
  <2> QED BY <2>1, <2>3 DEF Windowed
<1> QED BY <1>4, <1>9, <1>10

\* A step of calls one after another, while no confirm deletes the record, keeps
\* the account.
LEMMA AccountStep ==
    ASSUME SequentialInv, [SequentialNext]_vars, LimitsKept'
    PROVE  WorksOnStored' /\ \E w, k \in [Requests -> Nat] : Windowed(w, k)' /\ CountsLast(w, k)'
<1> USE NoRecordAssumption, LimitsAssumption DEF reqs, confs, hist, store
<1>1. IInv /\ OneActive
  BY DEF SequentialInv
<1>2. LimitsKept
  BY <1>1, LimitsGo DEF SequentialNext
<1>3. WorksOnStored /\ \E w, k \in [Requests -> Nat] : Windowed(w, k) /\ CountsLast(w, k)
  BY <1>2 DEF SequentialInv
<1> PICK w \in [Requests -> Nat], k \in [Requests -> Nat] : Windowed(w, k) /\ CountsLast(w, k)
  BY <1>3
<1>4. TypeOK
  BY <1>1 DEF IInv
<1>5. SUFFICES ASSUME SequentialNext PROVE WorksOnStored' /\ \E x, l \in [Requests -> Nat] :
                                                Windowed(x, l)' /\ CountsLast(x, l)'
  <2>1. CASE UNCHANGED vars
    BY <2>1, <1>3 DEF vars, WorksOnStored, Windowed, CountsLast, Sent, InWindow
  <2> QED BY <2>1
<1>6. CASE Tick
  <2>1. now' = now + 1 /\ UNCHANGED <<record, rpc, rat, rseen>>
    BY <1>6 DEF Tick
  <2>2. \A r \in Requests : rpc[r] \notin {"get", "put", "send"}
    BY <1>4, <1>5, <2>1 DEF SequentialNext, Active, TypeOK
  <2>3. Windowed(w, k)' /\ CountsLast(w, k)'
    <3>1. \A s \in Requests : w[s] \in Nat
      OBVIOUS
    <3> QED BY <1>4, <2>1, <3>1 DEF TypeOK, Windowed, CountsLast, Sent
  <2> QED BY <2>1, <2>2, <2>3 DEF WorksOnStored
<1>7. CASE Sweep
  <2>1. /\ record # NoRecord /\ record \in Record /\ record' = NoRecord
        /\ record.windowStart + Retention <= now /\ UNCHANGED <<now, rpc, rat, rseen>>
    BY <1>4, <1>7 DEF Sweep, TypeOK
  <2>2. record.windowStart \in Nat /\ now \in Nat /\ record.windowStart + Window <= now
    BY <1>4, <2>1 DEF TypeOK, Record
  <2>3. Windowed(w, k)' /\ CountsLast(w, k)'
    BY <1>1, <2>1, <2>2, AccountStays DEF Sent
  <2>4. \A r \in Requests : rpc[r] # "send"
    BY <1>3, <1>4, <2>2 DEF WorksOnStored, TypeOK
  <2>5. \A r \in Requests : rpc[r] = "put" /\ rseen[r] # NoRecord => ~InWindow(rseen[r], rat[r])
    BY <1>3, <1>4, <2>1, <2>2 DEF WorksOnStored, InWindow, TypeOK
  <2>6. WorksOnStored'
    <3>1. \A r \in Requests : ~InWindow(rseen[r], rat[r])' <=> ~InWindow(rseen[r], rat[r])
      BY <2>1 DEF InWindow
    <3> QED BY <1>3, <2>1, <2>4, <2>5, <3>1 DEF WorksOnStored
  <2> QED BY <2>3, <2>6
<1>8. ASSUME NEW r \in Requests, RequestStep(r)
      PROVE  WorksOnStored' /\ \E x, l \in [Requests -> Nat] : Windowed(x, l)' /\ CountsLast(x, l)'
  <2>1. CASE BeginRequest(r) \/ GetExisting(r) \/ RefuseRequest(r) \/ FailRequest(r)
    <3>1. /\ UNCHANGED <<now, record>>
          /\ \A s \in Requests : /\ Sent(s)' => Sent(s) /\ rat'[s] = rat[s]
                                 /\ rpc'[s] = "send" => rpc[s] = "send"
                                 /\ rpc'[s] = "put" => rpc[s] = "put" \/ rseen'[s] = record
                                 /\ rpc'[s] \in {"put", "send"} => rat'[s] = rat[s]
                                 /\ rpc'[s] = "put" /\ rpc[s] = "put" => rseen'[s] = rseen[s]
                                 /\ rpc'[s] \in {"get", "put", "send"} =>
                                      rat'[s] = now \/ (rat'[s] = rat[s] /\ rpc[s] \in {"get", "put", "send"})
      BY <1>4, <2>1 DEF BeginRequest, GetExisting, RefuseRequest, FailRequest, EndRequest, TypeOK, Sent
    <3>2. Windowed(w, k)' /\ CountsLast(w, k)'
      <4>1. now \in Nat
        BY <1>4 DEF TypeOK
      <4>2. CASE record = NoRecord
        BY <1>1, <3>1, <4>1, <4>2, AccountStays
      <4>3. CASE record # NoRecord
        BY <1>1, <3>1, <4>1, <4>3, AccountStays
      <4> QED BY <4>2, <4>3
    <3>3. WorksOnStored'
      BY <1>3, <3>1 DEF WorksOnStored, InWindow
    <3> QED BY <3>2, <3>3
  <2>2. CASE PutCode(r)
    BY <1>1, <1>3, <2>2, CallsAssumption, PutCounts
  <2>3. CASE Deliver(r)
    <3>1. WorksOnStored'
      BY <1>3, <1>4, <2>3 DEF WorksOnStored, Deliver, EndRequest, InWindow, TypeOK
    <3> QED BY <1>1, <1>3, <2>3, <3>1, DeliverCounts
  <2> QED BY <1>8, <2>1, <2>2, <2>3 DEF RequestStep
<1>9. ASSUME NEW c \in Confirms, ConfirmStep(c)
      PROVE  WorksOnStored' /\ \E x, l \in [Requests -> Nat] : Windowed(x, l)' /\ CountsLast(x, l)'
  <2>1. cpc'[c] \notin {"accepted", "purged"} /\ cpc \in [Confirms -> ConfirmPc]
    BY <1>4 DEF LimitsKept, TypeOK
  <2>2. /\ UNCHANGED <<now, rpc, rat, rseen>>
        /\ \/ record' = record
           \/ /\ cpc[c] = "count" /\ record # NoRecord
              /\ record' = [record EXCEPT !.attempts = Attempts(c)]
    BY <1>9, <2>1 DEF ConfirmStep, BeginConfirm, RefuseMalformed, GetRecord, RefuseMissing, CountMissing,
                      CountOver, CountAndCompare, PurgeRecord, Accept, FailConfirm, EndConfirm
  <2>3. record' # record => /\ record # NoRecord /\ record \in Record /\ record' # NoRecord
                            /\ record'.windowStart = record.windowStart
                            /\ record'.sendCount = record.sendCount
                            /\ \A r \in Requests : rpc[r] \notin {"get", "put", "send"}
    <3>1. record' # record => cpc[c] = "count" /\ record # NoRecord /\ record \in Record
      BY <1>4, <2>2 DEF TypeOK
    <3>2. record' # record => record' \in Record /\ record'.windowStart = record.windowStart
                              /\ record'.sendCount = record.sendCount
      BY <2>2, <3>1 DEF Record, Attempts
    <3>3. cpc[c] = "count" => \A r \in Requests : rpc[r] \notin {"get", "put", "send"}
      BY <1>1, CallsAssumption DEF OneActive, Active
    <3> QED BY <3>1, <3>2, <3>3
  <2>4. Windowed(w, k)' /\ CountsLast(w, k)'
    <3>1. now \in Nat /\ \A s \in Requests : Sent(s)' => Sent(s) /\ rat'[s] = rat[s]
      BY <1>4, <2>2 DEF TypeOK, Sent
    <3>2. CASE record = NoRecord
      BY <1>1, <2>2, <2>3, <3>1, <3>2, AccountStays
    <3>3. CASE record # NoRecord
      BY <1>1, <2>2, <2>3, <3>1, <3>3, AccountStays
    <3> QED BY <3>2, <3>3
  <2>5. WorksOnStored'
    BY <1>3, <2>2, <2>3 DEF WorksOnStored, InWindow
  <2> QED BY <2>4, <2>5
<1> QED BY <1>5, <1>6, <1>7, <1>8, <1>9 DEF SequentialNext, Next

LEMMA NextSequentialInv == SequentialInv /\ [SequentialNext]_vars => SequentialInv'
<1> SUFFICES ASSUME SequentialInv, [SequentialNext]_vars PROVE SequentialInv'
  OBVIOUS
<1>1. IInv'
  BY NextIInv DEF SequentialInv, SequentialNext
<1>2. OneActive'
  BY DEF SequentialInv, SequentialNext, OneActive, Active, vars
<1>3. ASSUME LimitsKept'
      PROVE  WorksOnStored' /\ \E w, k \in [Requests -> Nat] : Windowed(w, k)' /\ CountsLast(w, k)'
  BY <1>3, AccountStep
<1> QED BY <1>1, <1>2, <1>3 DEF SequentialInv

LEMMA InitSequentialInv == Init => SequentialInv
<1> SUFFICES ASSUME Init PROVE SequentialInv
  OBVIOUS
<1>1. OneActive /\ WorksOnStored /\ \A r \in Requests : ~Sent(r)
  BY DEF Init, OneActive, Active, WorksOnStored, Sent
<1> PICK z \in [Requests -> Nat] : z = [r \in Requests |-> 0]
  OBVIOUS
<1>2. Windowed(z, z) /\ CountsLast(z, z)
  BY <1>1 DEF Init, Windowed, CountsLast
<1> QED BY <1>1, <1>2, InitIInv DEF SequentialInv

\* The sends of a rolling window lie in at most two fixed ones, and those of the
\* earlier one are not its first: told apart by their place, they are few.
LEMMA SendsCounted ==
    ASSUME TypeOK, NEW w \in [Requests -> Nat], NEW k \in [Requests -> Nat], Windowed(w, k), NEW t \in Nat
    PROVE  Cardinality(SentWithin(t)) <= 2 * MaxSends - 1
<1> USE LimitsAssumption
<1> DEFINE S == SentWithin(t)
           Place(r) == IF w[r] + Window > t THEN k[r] ELSE MaxSends + k[r] - 1
<1> PICK f : f = [r \in S |-> Place(r)]
  OBVIOUS
<1>1. \A r \in S : /\ r \in Requests /\ Sent(r) /\ rat[r] \in Nat /\ w[r] \in Nat /\ k[r] \in 1 .. MaxSends
                   /\ t < rat[r] + Window /\ rat[r] <= t
                   /\ w[r] <= rat[r] /\ rat[r] < w[r] + Window
                   /\ k[r] = 1 => rat[r] = w[r]
  BY DEF SentWithin, Windowed, TypeOK
<1>2. \A r \in S : /\ w[r] + Window > t => f[r] = k[r]
                   /\ w[r] + Window <= t => f[r] = MaxSends + k[r] - 1 /\ k[r] >= 2
  BY <1>1
<1>3. \A r \in S : f[r] \in 1 .. 2 * MaxSends - 1
  BY <1>1, <1>2
<1>4. ASSUME NEW r \in S, NEW s \in S, f[r] = f[s] PROVE r = s
  <2>1. w[r] = w[s] => r = s
    BY <1>1, <1>2, <1>4 DEF Windowed
  <2>2. w[r] < w[s] \/ w[s] < w[r] \/ w[r] = w[s]
    BY <1>1
  <2>3. /\ w[r] < w[s] /\ r # s => w[r] + Window <= w[s]
        /\ w[s] < w[r] /\ r # s => w[s] + Window <= w[r]
    BY <1>1 DEF Windowed
  <2> QED BY <1>1, <1>2, <1>4, <2>1, <2>2, <2>3
<1>5. f \in Injection(S, 1 .. 2 * MaxSends - 1)
  BY <1>3, <1>4 DEF Injection, IsInjective
<1>6. IsFiniteSet(1 .. 2 * MaxSends - 1) /\ Cardinality(1 .. 2 * MaxSends - 1) = 2 * MaxSends - 1
  BY FS_Interval
<1> QED BY <1>5, <1>6, FS_Injection

\* Calls one after another send at most 2 * MaxSends - 1 codes in any rolling
\* window of issue's limits while no confirm has deleted the record that counts them.
THEOREM OtpTwoWindowLimit == SequentialSpec => []TwoWindowLimit
<1>1. SequentialInv => TwoWindowLimit
  <2> SUFFICES ASSUME SequentialInv, LimitsKept, NEW t \in 0 .. MaxTime
               PROVE  Cardinality(SentWithin(t)) <= 2 * MaxSends - 1
    BY DEF TwoWindowLimit
  <2>1. TypeOK /\ t \in Nat
    BY DEF SequentialInv, IInv
  <2> QED BY <2>1, SendsCounted DEF SequentialInv
<1> QED BY <1>1, InitSequentialInv, NextSequentialInv, PTL DEF SequentialSpec
================================================================================
