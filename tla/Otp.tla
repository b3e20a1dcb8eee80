---------------------------------- MODULE Otp ----------------------------------
(***************************************************************************)
(* One-time codes of packages/auth: OtpService.issue and OtpService.check  *)
(* over an OtpStore, for ONE store key (<channel>#<identifier>).  Every    *)
(* handler reads and writes the record of its own key only, so keys do not *)
(* interact.                                                               *)
(*                                                                         *)
(* A member of Requests is one call of issue and a member of Confirms one  *)
(* call of check.  A handler takes one action between two awaits, so the   *)
(* handlers interleave at every store access.  A code is named by the      *)
(* request that issued it (the field by of a record, which only properties *)
(* read), and a guess matches the hash its handler has read or does not.   *)
(***************************************************************************)
EXTENDS Integers, FiniteSets

CONSTANTS
    Requests, Confirms,     \* the calls of issue and of check
    NoRecord,               \* store.get of a missing key
    Cooldown,               \* OTP_RESEND_COOLDOWN_MS
    TTL,                    \* OTP_TTL_MS
    Window,                 \* OTP_SEND_WINDOW_MS
    Retention,              \* from a window's start to the record's ttl
    MaxAttempts,            \* OTP_MAX_ATTEMPTS
    MaxSends,               \* OTP_MAX_SENDS_PER_WINDOW
    MaxTime                 \* bound of the clock

ASSUME LimitsAssumption ==
    /\ Cooldown \in Nat /\ TTL \in Nat /\ Window \in Nat \ {0}
    /\ Retention \in Nat /\ Window <= Retention /\ MaxTime \in Nat
    /\ MaxAttempts \in Nat /\ MaxSends \in Nat \ {0}

Record == [issuedAt : Nat, expiresAt : Nat, attempts : Nat,
           windowStart : Nat, sendCount : Nat, by : Requests]

ASSUME NoRecordAssumption == NoRecord \notin Record
ASSUME CallsAssumption == Requests \cap Confirms = {}

VARIABLES
    now,                    \* Date.now()
    record,                 \* the item stored under the key
    rpc, rat, rseen,        \* per request: control, its `now`, `existing`
    cpc, cat, cseen,        \* per confirm: control, its `now`, `record`
    paid                    \* history: comparisons counted on a request's record

store == <<now, record>>
reqs  == <<rpc, rat, rseen>>
confs == <<cpc, cat, cseen>>
hist  == <<paid>>
vars  == <<now, record, rpc, rat, rseen, cpc, cat, cseen, paid>>

RequestPc == {"idle", "get", "put", "send", "sent", "refused", "failed"}

\* A confirm that did not return true (false, or it threw) is "purged" when it
\* has deleted the record and "rejected" when it has not.
ConfirmPc == {"idle", "get", "count", "purge", "delete",
              "accepted", "rejected", "purged"}

TypeOK ==
    /\ now \in Nat
    /\ record \in Record \cup {NoRecord}
    /\ rpc \in [Requests -> RequestPc]
    /\ rat \in [Requests -> Nat]
    /\ rseen \in [Requests -> Record \cup {NoRecord}]
    /\ cpc \in [Confirms -> ConfirmPc]
    /\ cat \in [Confirms -> Nat]
    /\ cseen \in [Confirms -> Record \cup {NoRecord}]
    /\ paid \in [Requests -> Nat]

Init ==
    /\ now = 0
    /\ record = NoRecord
    /\ rpc = [r \in Requests |-> "idle"]
    /\ rat = [r \in Requests |-> 0]
    /\ rseen = [r \in Requests |-> NoRecord]
    /\ cpc = [c \in Confirms |-> "idle"]
    /\ cat = [c \in Confirms |-> 0]
    /\ cseen = [c \in Confirms |-> NoRecord]
    /\ paid = [r \in Requests |-> 0]

\* A handler ends, or has nothing left to do but delete by key: what it has
\* read is gone.
EndRequest(r, outcome) ==
    /\ rpc' = [rpc EXCEPT ![r] = outcome]
    /\ rseen' = [rseen EXCEPT ![r] = NoRecord]

EndConfirm(c, outcome) ==
    /\ cpc' = [cpc EXCEPT ![c] = outcome]
    /\ cat' = [cat EXCEPT ![c] = 0]
    /\ cseen' = [cseen EXCEPT ![c] = NoRecord]

-------------------------------------------------------------------------------
(* issue: get, the two limits, put, send. *)

CoolingDown(existing, t) ==
    existing # NoRecord /\ t - existing.issuedAt < Cooldown

InWindow(existing, t) ==
    existing # NoRecord /\ t - existing.windowStart < Window

\* Mutant of Counted: the count never carries over.
CountedNever(existing, t) == 0

\* Sends already counted in the window that a request at time t falls in.
Counted(existing, t) == IF InWindow(existing, t) THEN existing.sendCount ELSE 0

MayIssue(existing, t) ==
    ~CoolingDown(existing, t) /\ Counted(existing, t) < MaxSends

\* Mutant of NewRecord: the window slides, the count does not start over.
NewRecordSliding(r, existing, t) ==
    [issuedAt |-> t, expiresAt |-> t + TTL, attempts |-> 0, windowStart |-> t,
     sendCount |-> Counted(existing, t) + 1, by |-> r]

\* The record issue puts at time t after reading existing: it replaces whatever
\* the store holds by then.
NewRecord(r, existing, t) ==
    [issuedAt    |-> t,
     expiresAt   |-> t + TTL,
     attempts    |-> 0,
     windowStart |-> IF InWindow(existing, t) THEN existing.windowStart ELSE t,
     sendCount   |-> Counted(existing, t) + 1,
     by          |-> r]

\* The handler evaluates Date.now() as its default argument, before its first await.
BeginRequest(r) ==
    /\ rpc[r] = "idle"
    /\ rpc' = [rpc EXCEPT ![r] = "get"]
    /\ rat' = [rat EXCEPT ![r] = now]
    /\ UNCHANGED <<store, rseen, confs, hist>>

GetExisting(r) ==
    /\ rpc[r] = "get"
    /\ MayIssue(record, rat[r])
    /\ rpc' = [rpc EXCEPT ![r] = "put"]
    /\ rseen' = [rseen EXCEPT ![r] = record]
    /\ UNCHANGED <<store, rat, confs, hist>>

\* 429: within the cooldown, or the window's sends are used up.
RefuseRequest(r) ==
    /\ rpc[r] = "get"
    /\ ~MayIssue(record, rat[r])
    /\ EndRequest(r, "refused")
    /\ rat' = [rat EXCEPT ![r] = 0]
    /\ UNCHANGED <<store, confs, hist>>

PutCode(r) ==
    /\ rpc[r] = "put"
    /\ record' = NewRecord(r, rseen[r], rat[r])
    /\ rpc' = [rpc EXCEPT ![r] = "send"]
    /\ UNCHANGED <<now, rat, rseen, confs, hist>>

Deliver(r) ==
    /\ rpc[r] = "send"
    /\ EndRequest(r, "sent")
    /\ UNCHANGED <<store, rat, confs, hist>>

\* A store call or the provider's send throws, or the process dies: what was
\* put stays put.
FailRequest(r) ==
    /\ rpc[r] \in {"get", "put", "send"}
    /\ EndRequest(r, "failed")
    /\ UNCHANGED <<store, rat, confs, hist>>

-------------------------------------------------------------------------------
(* check: get, recordAttempt, compare, delete. *)

BeginConfirm(c) ==
    /\ cpc[c] = "idle"
    /\ cpc' = [cpc EXCEPT ![c] = "get"]
    /\ cat' = [cat EXCEPT ![c] = now]
    /\ UNCHANGED <<store, reqs, cseen, hist>>

\* Not six digits, or not an identifier: false before any store access.
RefuseMalformed(c) ==
    /\ cpc[c] = "idle"
    /\ EndConfirm(c, "rejected")
    /\ UNCHANGED <<store, reqs, hist>>

Live(rec, t) == rec # NoRecord /\ ~(rec.expiresAt < t)

GetRecord(c) ==
    /\ cpc[c] = "get"
    /\ Live(record, cat[c])
    /\ cpc' = [cpc EXCEPT ![c] = "count"]
    /\ cseen' = [cseen EXCEPT ![c] = record]
    /\ UNCHANGED <<store, reqs, cat, hist>>

RefuseMissing(c) ==
    /\ cpc[c] = "get"
    /\ ~Live(record, cat[c])
    /\ EndConfirm(c, "rejected")
    /\ UNCHANGED <<store, reqs, hist>>

\* Mutant of CountMissing: ADD without attribute_exists creates an item.
CountMissingCreates(c) ==
    /\ cpc[c] = "count"
    /\ record = NoRecord
    /\ record' = [attempts |-> 1]
    /\ EndConfirm(c, "rejected")
    /\ UNCHANGED <<now, reqs, hist>>

\* recordAttempt on a missing record: Number.MAX_SAFE_INTEGER, over every limit.
CountMissing(c) ==
    /\ cpc[c] = "count"
    /\ record = NoRecord
    /\ EndConfirm(c, "purge")
    /\ UNCHANGED <<store, reqs, hist>>

\* Mutant of Attempts: counted on the record read before.
AttemptsRead(c) == cseen[c].attempts + 1

\* recordAttempt: the increment is atomic in the store, on the record the
\* store holds now, which need not be the one the handler read.
Attempts(c) == record.attempts + 1

CountOver(c) ==
    /\ cpc[c] = "count"
    /\ record # NoRecord
    /\ Attempts(c) > MaxAttempts
    /\ record' = [record EXCEPT !.attempts = Attempts(c)]
    /\ EndConfirm(c, "purge")
    /\ UNCHANGED <<now, reqs, hist>>

\* Within the limit: the guess is compared with the hash read before counting,
\* and is right or wrong.
CountAndCompare(c) ==
    /\ cpc[c] = "count"
    /\ record # NoRecord
    /\ Attempts(c) <= MaxAttempts
    /\ record' = [record EXCEPT !.attempts = Attempts(c)]
    /\ paid' = [paid EXCEPT ![record.by] = @ + 1]
    /\ \/ cpc' = [cpc EXCEPT ![c] = "delete"] /\ UNCHANGED <<cat, cseen>>
       \/ EndConfirm(c, "rejected")
    /\ UNCHANGED <<now, reqs>>

\* delete is by key: it removes whatever record the key holds by now.
PurgeRecord(c) ==
    /\ cpc[c] = "purge"
    /\ record' = NoRecord
    /\ EndConfirm(c, "purged")
    /\ UNCHANGED <<now, reqs, hist>>

\* Mutant of Accept: the record is left to expire.
AcceptKeepsRecord(c) ==
    /\ cpc[c] = "delete"
    /\ cpc' = [cpc EXCEPT ![c] = "accepted"]
    /\ UNCHANGED <<store, reqs, cat, cseen, hist>>

Accept(c) ==
    /\ cpc[c] = "delete"
    /\ record' = NoRecord
    /\ cpc' = [cpc EXCEPT ![c] = "accepted"]
    /\ UNCHANGED <<now, reqs, cat, cseen, hist>>

\* A store call throws, or the process dies, before or after its effect.
FailConfirm(c) ==
    /\ \/ /\ cpc[c] \in {"get", "count", "purge", "delete"}
          /\ record' = record
          /\ EndConfirm(c, "rejected")
       \/ /\ cpc[c] = "count" /\ record # NoRecord
          /\ record' = [record EXCEPT !.attempts = Attempts(c)]
          /\ EndConfirm(c, "rejected")
       \/ /\ cpc[c] \in {"purge", "delete"}
          /\ record' = NoRecord
          /\ EndConfirm(c, "purged")
    /\ UNCHANGED <<now, reqs, hist>>

-------------------------------------------------------------------------------
Tick ==
    /\ now < MaxTime
    /\ now' = now + 1
    /\ UNCHANGED <<record, reqs, confs, hist>>

\* DynamoDB removes an item some time after its ttl.
Sweep ==
    /\ record # NoRecord
    /\ record.windowStart + Retention <= now
    /\ record' = NoRecord
    /\ UNCHANGED <<now, reqs, confs, hist>>

RequestStep(r) ==
    \/ BeginRequest(r) \/ GetExisting(r) \/ RefuseRequest(r)
    \/ PutCode(r) \/ Deliver(r) \/ FailRequest(r)

ConfirmStep(c) ==
    \/ BeginConfirm(c) \/ RefuseMalformed(c) \/ GetRecord(c) \/ RefuseMissing(c)
    \/ CountMissing(c) \/ CountOver(c) \/ CountAndCompare(c)
    \/ PurgeRecord(c) \/ Accept(c) \/ FailConfirm(c)

Next ==
    \/ Tick \/ Sweep
    \/ \E r \in Requests : RequestStep(r)
    \/ \E c \in Confirms : ConfirmStep(c)

Spec == Init /\ [][Next]_vars

\* Calls under way.
Active == {r \in Requests : rpc[r] \in {"get", "put", "send"}}
          \cup {c \in Confirms : cpc[c] \in {"get", "count", "purge", "delete"}}

\* The calls arrive one after another, each after the end of the one before,
\* and a call takes less than a unit of time.
SequentialNext ==
    /\ Next
    /\ \A x, y \in Active' : x = y
    /\ Active # {} => now' = now

SequentialSpec == Init /\ [][SequentialNext]_vars

-------------------------------------------------------------------------------
(* Properties. *)

\* The code of the request has been sent.
Sent(r) == rpc[r] = "sent"

\* Each code issued pays for at most MaxAttempts comparisons, however many
\* confirms race on it: the reason recordAttempt counts atomically and before
\* the comparison.  The comparison may be with an older code, of a record that
\* has been replaced since.
BudgetPerCode == \A r \in Requests : paid[r] <= MaxAttempts

\* Once a confirm has returned true, the code it accepted is out of the store
\* for good: no confirm that starts afterwards can read it, and no request that
\* was under way puts it back.
NoReplay ==
    \A c \in Confirms :
        cpc[c] = "accepted" => record = NoRecord \/ record.by # cseen[c].by

Spaced(rec) ==
    /\ rec.sendCount \in 1 .. MaxSends
    /\ rec.issuedAt - rec.windowStart >= (rec.sendCount - 1) * Cooldown
    /\ rec.issuedAt = rec.windowStart \/ rec.issuedAt - rec.windowStart < Window

\* The send accounting of the stored record is truthful under any interleaving
\* of requests: n counted sends within the limit span n - 1 cooldowns, and the
\* last of them lies in the window that counts them.
CountedSendsSpaced == record # NoRecord => Spaced(record)

\* Codes whose handlers carried a time in the Window units that end at t.
SentWithin(t) == {r \in Requests : Sent(r) /\ t - Window < rat[r] /\ rat[r] <= t}

\* A confirm deletes the record when it accepts and when it finds the guesses
\* used up, and the send limits go with it.
LimitsKept == \A c \in Confirms : cpc[c] \notin {"accepted", "purged"}

\* What the fixed windows give while no confirm has deleted the record: a rolling
\* window meets at most two of them, and misses the send that opened the first
\* of the two.  (otp.ts says MaxSends "per rolling window".)
TwoWindowLimit ==
    LimitsKept => \A t \in 0 .. MaxTime : Cardinality(SentWithin(t)) <= 2 * MaxSends - 1

================================================================================
