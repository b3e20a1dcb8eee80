-------------------------------- MODULE Accounts --------------------------------
(***************************************************************************)
(* packages/auth and packages/professional-verification: UsersService over *)
(* the users table, for ONE identity (one table key), with the handlers    *)
(* that use it.  An identity of kind "oauth" signs in through a provider;  *)
(* one of kind "email" by a one-time code or by a work-email code.  A      *)
(* member of Calls is one HTTP call; a handler takes one action between    *)
(* two awaits of the table or of a slow service.                           *)
(*                                                                         *)
(* A call mints at most one user id and one verification code: both are    *)
(* named after it.                                                         *)
(***************************************************************************)
EXTENDS FiniteSets

CONSTANTS
    Calls,
    None            \* no row, no professional record, no pending code, no id

ASSUME NoneAssumption == None \notin Calls

Statuses == {"pending_email_confirmation", "awaiting_review", "verified", "rejected"}
Professional == [status : Statuses, by : Calls]             \* by: whose request
Code == [by : Calls, age : {"cooling", "live", "expired"}]  \* issuedAt, expiresAt
Row == [id : Calls, verified : BOOLEAN,
        professional : Professional \cup {None}, code : Code \cup {None}]

ASSUME RecordAssumption == None \notin Professional \cup Code \cup Row

VARIABLES
    kind,               \* of the identity
    row,                \* its item in the users table
    sessions,           \* the ids in the session tokens issued
    pc, seen, sid,      \* per call: control, the row it read, the id it will issue
    guess,              \* per call: the request whose code the user types
    mailed, confirmed,  \* history: requests whose code was mailed, confirmed
    decided,            \* history: requests a review has landed on
    raced,              \* history: a put made on an empty read replaced a row
    crossed             \* history: the record changed under a confirm

table == <<kind, row>>
local == <<seen, sid, guess>>
hist  == <<mailed, confirmed, decided, raced, crossed>>
vars  == <<kind, row, sessions, pc, seen, sid, guess,
           mailed, confirmed, decided, raced, crossed>>

\* The providers' callbacks, alike whatever the provider.
Callbacks == {"login"}

\* The handlers, by the first step of each.  A review is the call of another
\* verified contributor, with a session of its own.
Entries == [oauth |-> Callbacks \cup {"review"},
            email |-> {"find", "findEmail", "findLocal", "getUser", "review"}]
SignedIn == {"canRequest", "check", "mark"}

Pc == {"idle", "upsert", "create", "winner", "putEmail", "putLocal", "canRequest",
       "screen", "classify", "setPending", "mail", "check", "confirm", "decide",
       "over"}

TypeOK ==
    /\ kind \in DOMAIN Entries
    /\ row \in Row \cup {None}
    /\ sessions \subseteq Calls
    /\ pc \in [Calls -> Pc]
    /\ seen \in [Calls -> Row \cup {None}]
    /\ sid \in [Calls -> Calls \cup {None}] /\ guess \in [Calls -> Calls \cup {None}]
    /\ mailed \subseteq Calls /\ confirmed \subseteq mailed
    /\ decided \subseteq Calls
    /\ raced \in BOOLEAN /\ crossed \in BOOLEAN

Init ==
    /\ kind \in DOMAIN Entries
    /\ row = None /\ sessions = {}
    /\ pc = [c \in Calls |-> "idle"]
    /\ seen = [c \in Calls |-> None]
    /\ sid = [c \in Calls |-> None] /\ guess = [c \in Calls |-> None]
    /\ mailed = {} /\ confirmed = {} /\ decided = {}
    /\ raced = FALSE /\ crossed = FALSE

Goto(c, p) == pc' = [pc EXCEPT ![c] = p]

\* A call ends, well or not, and what it held is gone.
End(c) ==
    /\ Goto(c, "over")
    /\ seen' = [seen EXCEPT ![c] = None]
    /\ sid' = [sid EXCEPT ![c] = None]
    /\ guess' = [guess EXCEPT ![c] = None]

\* The session cookie: a token that names the user's id.
SignIn(c, id) ==
    /\ sessions' = sessions \cup {id}
    /\ End(c)

\* A call about to take step p: the first of its handler, or the next one.  The
\* handlers of a signed-in user need a session.
At(c, p) ==
    \/ pc[c] = p
    \/ pc[c] = "idle" /\ p \in Entries[kind] \cup (IF sessions = {} THEN {} ELSE SignedIn)

-------------------------------------------------------------------------------
(* Signing in. *)

Fresh(c) == [id |-> c, verified |-> FALSE, professional |-> None, code |-> None]

\* Whose request a row records.
By(r) == IF r = None \/ r.professional = None THEN None ELSE r.professional.by

\* Calls that will write on the record whose code they found right, or on what
\* replaces it.
Relying == {d \in Calls : pc[d] = "confirm"}

\* The row is written, and the request it records may be another than before.
WriteRow(item) ==
    /\ row' = item
    /\ crossed' = (crossed \/ (Relying # {} /\ By(item) # By(row)))

\* upsertFromOAuth and findOrCreateByEmail: a put, whatever the key holds now.
PutOver(c, item) ==
    /\ WriteRow(item)
    /\ raced' = (raced \/ (seen[c] = None /\ row # None))
    /\ UNCHANGED <<kind, mailed, confirmed, decided>>

LoginGet(c) ==
    /\ At(c, "login")
    /\ seen' = [seen EXCEPT ![c] = row]
    /\ Goto(c, "upsert")
    /\ UNCHANGED <<table, sessions, sid, guess, hist>>

\* Mutant of Upserted: the profile's own fields only.
UpsertedAnew(c) == [Fresh(c) EXCEPT !.id = IF seen[c] = None THEN c ELSE seen[c].id]

\* The item of upsertFromOAuth: the fields of User it read, no code fields.
Upserted(c) == IF seen[c] = None THEN Fresh(c) ELSE [seen[c] EXCEPT !.code = None]

Upsert(c) ==
    /\ pc[c] = "upsert"
    /\ PutOver(c, Upserted(c))
    /\ SignIn(c, Upserted(c).id)

\* findOrCreateByIdentifier, after the one-time code was right.
FindFirst(c) ==
    /\ At(c, "find")
    /\ IF row = None THEN Goto(c, "create") /\ UNCHANGED <<sessions, local>>
                     ELSE SignIn(c, row.id)
    /\ UNCHANGED <<table, hist>>

\* Mutant of CreateIfAbsent: without the condition on the put.
CreateAlways(c) ==
    /\ pc[c] = "create"
    /\ row' = Fresh(c) /\ SignIn(c, c)
    /\ UNCHANGED <<kind, hist>>

\* The conditional put, and the read of the winner when it fails.
CreateIfAbsent(c) ==
    /\ pc[c] = "create"
    /\ IF row = None THEN row' = Fresh(c) /\ SignIn(c, c)
                     ELSE Goto(c, "winner") /\ UNCHANGED <<row, sessions, local>>
    /\ UNCHANGED <<kind, hist>>

\* The put takes effect, its answer is lost, and the SDK's retry finds a row.
CreateUnanswered(c) ==
    /\ pc[c] = "create" /\ row = None
    /\ row' = Fresh(c)
    /\ Goto(c, "winner")
    /\ UNCHANGED <<kind, sessions, local, hist>>

GetWinner(c) ==
    /\ pc[c] = "winner" /\ row # None
    /\ SignIn(c, row.id)
    /\ UNCHANGED <<table, hist>>

\* email/request: findOrCreateByEmail, then the request for a code.
FindByEmail(c) ==
    /\ At(c, "findEmail")
    /\ Goto(c, IF row = None THEN "putEmail" ELSE "canRequest")
    /\ UNCHANGED <<table, sessions, local, hist>>

PutByEmail(c) ==
    /\ pc[c] = "putEmail"
    /\ PutOver(c, Fresh(c))
    /\ Goto(c, "canRequest")
    /\ UNCHANGED <<sessions, local>>

\* The OAuth server's local-sign-in, where it is offered: findOrCreateByEmail of a
\* configured address, then a session.
LocalSignIn(c) ==
    /\ At(c, "findLocal")
    /\ IF row = None THEN Goto(c, "putLocal") /\ UNCHANGED <<sessions, local>>
                     ELSE SignIn(c, row.id)
    /\ UNCHANGED <<table, hist>>

PutLocal(c) ==
    /\ pc[c] = "putLocal"
    /\ PutOver(c, Fresh(c))
    /\ SignIn(c, c)

-------------------------------------------------------------------------------
(* Asking for and confirming a work-email code. *)

\* The cooldown is checked on the row as it is now.
CanRequest(c) ==
    /\ At(c, "canRequest")
    /\ row.code # None => row.code.age # "cooling"
    /\ Goto(c, "screen")
    /\ UNCHANGED <<table, sessions, local, hist>>

\* A free or unreachable domain, or a code sent less than a minute ago.
RefuseRequest(c) ==
    /\ At(c, "canRequest")
    /\ End(c)
    /\ UNCHANGED <<table, sessions, hist>>

\* Homepage and search: seconds, with retries, and a failure is no evidence.
Screen(c) ==
    /\ pc[c] = "screen"
    /\ Goto(c, "classify")
    /\ UNCHANGED <<table, sessions, local, hist>>

\* The model's verdict on the evidence, or none: either way the request goes on.
Classify(c) ==
    /\ pc[c] = "classify"
    /\ Goto(c, "setPending")
    /\ UNCHANGED <<table, sessions, local, hist>>

\* Mutant of Pending: the record keeps its status.
PendingKeeps(c) ==
    [status |-> IF row.professional = None THEN "pending_email_confirmation"
                ELSE row.professional.status, by |-> c]

\* Mutant of Pending: a status of the type, but not the first of the workflow.
PendingNone(c) == [status |-> "none", by |-> c]

\* The whole record is replaced, whatever its status was.
Pending(c) == [status |-> "pending_email_confirmation", by |-> c]

SetPending(c) ==
    /\ pc[c] = "setPending"
    /\ WriteRow([row EXCEPT !.professional = Pending(c),
                            !.code = [by |-> c, age |-> "cooling"]])
    /\ Goto(c, "mail")
    /\ UNCHANGED <<kind, sessions, local, mailed, confirmed, decided, raced>>

SendMail(c) ==
    /\ pc[c] = "mail"
    /\ mailed' = mailed \cup {c}
    /\ End(c)
    /\ UNCHANGED <<table, sessions, confirmed, decided, raced, crossed>>

\* email/confirm reads the user it will sign in before it checks the code.
GetUser(c) ==
    /\ At(c, "getUser") /\ row # None
    /\ sid' = [sid EXCEPT ![c] = row.id]
    /\ \E r \in mailed : guess' = [guess EXCEPT ![c] = r]
    /\ Goto(c, "check")
    /\ UNCHANGED <<table, sessions, seen, hist>>

\* confirmProfessionalCode: the code is there, in time and right.
CodeMatches(r) ==
    /\ row.code # None
    /\ row.code.age # "expired"
    /\ row.code.by = r

Check(c) ==
    /\ At(c, "check")
    /\ \E r \in IF pc[c] = "check" THEN {guess[c]} ELSE mailed :
        IF CodeMatches(r)
        THEN Goto(c, "confirm") /\ guess' = [guess EXCEPT ![c] = r] /\ UNCHANGED <<seen, sid>>
        ELSE End(c)
    /\ UNCHANGED <<table, sessions, hist>>

\* Only the status and the code fields are written, on the record there is.
Confirm(c) ==
    /\ pc[c] = "confirm" /\ row.professional # None
    /\ row' = [row EXCEPT !.professional.status = "awaiting_review", !.code = None]
    /\ confirmed' = confirmed \cup {guess[c]}
    /\ IF sid[c] = None THEN End(c) /\ UNCHANGED sessions
                        ELSE SignIn(c, sid[c])
    /\ UNCHANGED <<kind, mailed, decided, raced, crossed>>

-------------------------------------------------------------------------------
(* Reviewing, by another verified contributor.  The list of what awaits review  *)
(* is a request of its own, which changes nothing and which no review depends on. *)

\* reviewProfessional finds the user of the id in the path, whatever the status.
GetById(c) ==
    /\ At(c, "review")
    /\ \E id \in Calls :
        IF row # None /\ row.id = id THEN Goto(c, "decide") /\ UNCHANGED local
                                    ELSE End(c)
    /\ UNCHANGED <<table, sessions, hist>>

\* The decision is written on the record there is, whatever its status.
Decide(c) ==
    /\ pc[c] = "decide" /\ row.professional # None
    /\ \/ row' = [row EXCEPT !.professional.status = "verified", !.verified = TRUE]
       \/ row' = [row EXCEPT !.professional.status = "rejected"]
    /\ decided' = decided \cup {row.professional.by}
    /\ End(c)
    /\ UNCHANGED <<kind, sessions, mailed, confirmed, raced, crossed>>

\* The contributor quiz was passed.
MarkVerified(c) ==
    /\ At(c, "mark")
    /\ row' = [row EXCEPT !.verified = TRUE]
    /\ End(c)
    /\ UNCHANGED <<kind, sessions, hist>>

\* A call of the table or of the mailer throws, or the process dies.
Throw(c) ==
    /\ pc[c] \notin {"idle", "over"}
    /\ End(c)
    /\ UNCHANGED <<table, sessions, hist>>

-------------------------------------------------------------------------------
\* Time passes: the cooldown of the pending code, then its lifetime.
Age ==
    /\ row # None /\ row.code # None /\ row.code.age # "expired"
    /\ row' = [row EXCEPT !.code.age = IF @ = "cooling" THEN "live" ELSE "expired"]
    /\ UNCHANGED <<kind, sessions, pc, local, hist>>

SignInStep(c) ==
    \/ LoginGet(c) \/ Upsert(c)
    \/ FindFirst(c) \/ CreateIfAbsent(c) \/ CreateUnanswered(c) \/ GetWinner(c)
    \/ FindByEmail(c) \/ PutByEmail(c) \/ LocalSignIn(c) \/ PutLocal(c)

VerificationStep(c) ==
    \/ CanRequest(c) \/ RefuseRequest(c) \/ Screen(c) \/ Classify(c) \/ SetPending(c) \/ SendMail(c)
    \/ GetUser(c) \/ Check(c) \/ Confirm(c)
    \/ GetById(c) \/ Decide(c) \/ MarkVerified(c)

Next ==
    \/ Age
    \/ \E c \in Calls : SignInStep(c) \/ VerificationStep(c) \/ Throw(c)

Spec == Init /\ [][Next]_vars

-------------------------------------------------------------------------------
(* Properties. *)

\* "Two simultaneous first sign-ins must not mint two ids for one identity":
\* every session issued names the user that is stored.  It holds until
\* upsertFromOAuth or findOrCreateByEmail, which put without a condition what
\* they found missing, replace a row that has appeared meanwhile.
SessionsResolve == ~raced => \A id \in sessions : row # None /\ row.id = id

\* A contributor once verified, by review or by quiz, is not unmade by what
\* else is written on the row, except by a sign-in that read it before.
VerifiedStays ==
    [][row # None /\ row.verified /\ ~row'.verified =>
        \E c \in Calls : /\ pc[c] \in {"upsert", "putEmail", "putLocal"} /\ pc'[c] # pc[c]
                         /\ seen[c] = None \/ ~seen[c].verified]_vars

\* The status of a record is that of its own request: it awaits review after its
\* own code was confirmed and carries a decision made on it, never what an
\* earlier request, a stale read or an overlapping call has left.  The first half
\* holds until a new request, or a sign-in that puts an older record back,
\* replaces the record between a confirm's read and its write: the write lands
\* on the record there is by then, whose address nobody has confirmed.
StatusIsItsOwn ==
    row # None /\ row.professional # None =>
        /\ row.professional.status = "awaiting_review" =>
               crossed \/ row.professional.by \in confirmed
        /\ row.professional.status \in {"verified", "rejected"} =>
               row.professional.by \in decided
================================================================================
