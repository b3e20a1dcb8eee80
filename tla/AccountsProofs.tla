----------------------------- MODULE AccountsProofs -----------------------------
(***************************************************************************)
(* Accounts for every number of calls: the ids in the sessions, the        *)
(* reviews, and what a sign-in may undo.                                   *)
(***************************************************************************)
EXTENDS Accounts, TLAPS

\* Steps that come after the row was found or written.
Later == {"winner", "canRequest", "screen", "classify", "setPending", "mail",
          "check", "confirm", "decide"}

\* No row is ever deleted: who has seen one, or its id, finds one.
RowThere ==
    /\ sessions # {} => row # None
    /\ \A c \in Calls :
           pc[c] \in Later \/ seen[c] # None \/ sid[c] # None => row # None

\* What a call holds besides its control.
Held ==
    \A c \in Calls :
        /\ pc[c] # "upsert" => seen[c] = None
        /\ pc[c] \in {"check", "confirm"} => guess[c] \in mailed

\* Until a put replaces a row it did not see, there is one id to be had.
OneId ==
    ~raced => \A c \in Calls :
        /\ seen[c] # None => row.id = seen[c].id
        /\ sid[c] # None => row.id = sid[c]

\* A pending code is of the request that the record is of.
CodeOfRecord == row # None /\ row.code # None => By(row) = row.code.by

\* StatusIsItsOwn of any row.
Earned(r) ==
    r # None /\ r.professional # None =>
        /\ r.professional.status = "awaiting_review" =>
               crossed \/ r.professional.by \in confirmed
        /\ r.professional.status \in {"verified", "rejected"} =>
               r.professional.by \in decided

\* A sign-in puts back only what was earned; until the record changes under a
\* confirm, the confirm lands on the request whose code it checked.
Relied ==
    \A c \in Calls :
        /\ Earned(seen[c])
        /\ ~crossed /\ pc[c] = "confirm" => By(row) = guess[c]

\* The inductive invariant.
IInv ==
    /\ TypeOK
    /\ RowThere /\ Held
    /\ SessionsResolve /\ OneId
    /\ CodeOfRecord /\ Relied /\ StatusIsItsOwn
-------------------------------------------------------------------------------
LEMMA InitIInv == Init => IInv
<1> SUFFICES ASSUME Init PROVE IInv
  OBVIOUS
<1>1. TypeOK
  BY DEF Init, TypeOK, Pc
<1>2. RowThere /\ Held /\ OneId /\ CodeOfRecord
  BY DEF Init, RowThere, Held, OneId, CodeOfRecord, Later
<1>3. SessionsResolve /\ Relied /\ StatusIsItsOwn
  BY DEF Init, SessionsResolve, Relied, Earned, StatusIsItsOwn
<1> QED BY <1>1, <1>2, <1>3 DEF IInv

LEMMA FreshType ==
    ASSUME NEW c \in Calls
    PROVE  /\ Fresh(c) \in Row /\ Fresh(c).id = c
           /\ Fresh(c).professional = None /\ Fresh(c).code = None
  BY DEF Fresh, Row

\* A step that leaves the row, and what has been mailed and confirmed, alone.
LEMMA LocalSteps ==
    ASSUME IInv, NEW c \in Calls,
           \/ LoginGet(c) \/ FindByEmail(c)
           \/ CanRequest(c) \/ RefuseRequest(c) \/ Screen(c) \/ Classify(c)
           \/ GetUser(c) \/ Check(c) \/ GetById(c) \/ Throw(c)
    PROVE  IInv'
<1> USE NoneAssumption, RecordAssumption
<1> USE DEF IInv, TypeOK, Goto, End, At, table, local, hist, Entries, Callbacks, SignedIn
<1>1. TypeOK'
  BY DEF LoginGet, FindByEmail, CanRequest, RefuseRequest, Screen, Classify, GetUser, Check,
         GetById, Throw, Pc, Row
<1>2. RowThere'
  BY DEF LoginGet, FindByEmail, CanRequest, RefuseRequest, Screen, Classify, GetUser, Check,
         GetById, Throw, RowThere, Later
<1>3. Held'
  BY DEF LoginGet, FindByEmail, CanRequest, RefuseRequest, Screen, Classify, GetUser, Check,
         GetById, Throw, Held
<1>4. SessionsResolve' /\ CodeOfRecord' /\ StatusIsItsOwn'
  BY DEF LoginGet, FindByEmail, CanRequest, RefuseRequest, Screen, Classify, GetUser, Check,
         GetById, Throw, SessionsResolve, CodeOfRecord, StatusIsItsOwn, By
<1>5. OneId'
  BY DEF LoginGet, FindByEmail, CanRequest, RefuseRequest, Screen, Classify, GetUser, Check,
         GetById, Throw, OneId
<1>6. Relied'
  <2> USE DEF Relied, Earned, By
  <2>1. CASE Check(c)
    \* The code found right is of the request on record.
    <3>1. row # None
      BY <2>1 DEF Check, RowThere, Later
    <3>2. \A r \in Calls : CodeMatches(r) => By(row) = r
      BY <3>1 DEF CodeMatches, CodeOfRecord
    <3> QED BY <2>1, <3>2 DEF Check, Held
  <2>3. CASE LoginGet(c)
    BY <2>3 DEF LoginGet, StatusIsItsOwn
  <2>4. CASE GetById(c)
    BY <2>4 DEF GetById
  <2>5. CASE \/ FindByEmail(c) \/ CanRequest(c) \/ RefuseRequest(c) \/ Screen(c) \/ Classify(c)
             \/ GetUser(c) \/ Throw(c)
    BY <2>5 DEF FindByEmail, CanRequest, RefuseRequest, Screen, Classify, GetUser, Throw
  <2> QED BY <2>1, <2>3, <2>4, <2>5
<1> QED BY <1>1, <1>2, <1>3, <1>4, <1>5, <1>6

\* A step of a handler that signs in, or creates the row if it is absent.
LEMMA RowSteps ==
    ASSUME IInv, NEW c \in Calls,
           \/ FindFirst(c) \/ CreateIfAbsent(c) \/ CreateUnanswered(c) \/ GetWinner(c)
           \/ LocalSignIn(c)
    PROVE  IInv'
<1> USE NoneAssumption, RecordAssumption, FreshType
<1> USE DEF IInv, TypeOK, Goto, End, SignIn, At, table, local, hist, Entries, Callbacks, SignedIn
<1>1. TypeOK'
  BY DEF FindFirst, CreateIfAbsent, CreateUnanswered, GetWinner, LocalSignIn, Pc, Row
<1>2. RowThere'
  BY DEF FindFirst, CreateIfAbsent, CreateUnanswered, GetWinner, LocalSignIn, RowThere, Later
<1>3. Held'
  BY DEF FindFirst, CreateIfAbsent, CreateUnanswered, GetWinner, LocalSignIn, Held
<1>4. SessionsResolve' /\ OneId'
  BY DEF FindFirst, CreateIfAbsent, CreateUnanswered, GetWinner, LocalSignIn,
         SessionsResolve, OneId, RowThere
<1>5. CodeOfRecord' /\ StatusIsItsOwn'
  BY DEF FindFirst, CreateIfAbsent, CreateUnanswered, GetWinner, LocalSignIn,
         CodeOfRecord, StatusIsItsOwn, By
<1>6. Relied'
  BY DEF FindFirst, CreateIfAbsent, CreateUnanswered, GetWinner, LocalSignIn,
         Relied, Earned, By, RowThere, Later
<1> QED BY <1>1, <1>2, <1>3, <1>4, <1>5, <1>6

\* A put over whatever the key holds now.
LEMMA PutOverSteps ==
    ASSUME IInv, NEW c \in Calls,
           Upsert(c) \/ PutByEmail(c) \/ PutLocal(c)
    PROVE  IInv'
<1> USE NoneAssumption, RecordAssumption, FreshType
<1> USE DEF IInv, TypeOK, Goto, End, SignIn, PutOver, WriteRow, local
<1> DEFINE item == IF pc[c] = "upsert" THEN Upserted(c) ELSE Fresh(c)
<1>1. /\ item \in Row /\ item.code = None
      /\ seen[c] = None => item = Fresh(c)
      /\ seen[c] # None => item.id = seen[c].id /\ item.professional = seen[c].professional
  BY DEF Upserted, Row, Held, Upsert, PutByEmail, PutLocal
<1>2. /\ row' = item /\ UNCHANGED <<kind, mailed, confirmed, decided>>
      /\ crossed' = (crossed \/ (Relying # {} /\ By(item) # By(row)))
      /\ raced' = (raced \/ (seen[c] = None /\ row # None))
      /\ pc[c] \in {"upsert", "putEmail", "putLocal"}
  BY DEF Upsert, PutByEmail, PutLocal, Upserted
<1>3. /\ pc' = [pc EXCEPT ![c] = IF pc[c] = "putEmail" THEN "canRequest" ELSE "over"]
      /\ sessions' = IF pc[c] = "putEmail" THEN sessions ELSE sessions \cup {item.id}
      /\ \A d \in Calls :
            /\ d # c \/ pc[c] = "putEmail" =>
                  seen'[d] = seen[d] /\ sid'[d] = sid[d] /\ guess'[d] = guess[d]
            /\ d = c /\ pc[c] # "putEmail" =>
                  seen'[d] = None /\ sid'[d] = None /\ guess'[d] = None
  BY <1>1 DEF Upsert, PutByEmail, PutLocal, Upserted
<1>4. TypeOK'
  <2>1. seen' \in [Calls -> Row \cup {None}] /\ sid' \in [Calls -> Calls \cup {None}]
        /\ guess' \in [Calls -> Calls \cup {None}]
    BY DEF Upsert, PutByEmail, PutLocal
  <2>2. item.id \in Calls
    BY <1>1 DEF Row
  <2>3. pc' \in [Calls -> Pc]
    BY <1>3 DEF Pc
  <2>4. raced' \in BOOLEAN /\ crossed' \in BOOLEAN
    BY <1>2
  <2>5. row' \in Row \cup {None} /\ sessions' \subseteq Calls
    BY <1>1, <1>2, <1>3, <2>2
  <2>6. /\ kind' \in DOMAIN Entries /\ mailed' \subseteq Calls
        /\ confirmed' \subseteq mailed' /\ decided' \subseteq Calls
    BY <1>2
  <2> QED BY <2>1, <2>3, <2>4, <2>5, <2>6
<1>5. RowThere' /\ Held'
  BY <1>1, <1>2, <1>3 DEF RowThere, Held
<1>6. SessionsResolve' /\ OneId'
  <2> SUFFICES ASSUME ~raced' PROVE SessionsResolve' /\ OneId'
    BY DEF SessionsResolve, OneId
  <2>1. ~raced /\ (seen[c] # None \/ row = None)
    BY <1>2
  <2>2. row # None => item.id = row.id
    BY <1>1, <2>1 DEF OneId
  <2>3. \A id \in sessions : item.id = id
    BY <2>1, <2>2 DEF SessionsResolve
  <2>4. item # None
    BY <1>1
  <2>5. SessionsResolve'
    BY <1>2, <1>3, <2>3, <2>4 DEF SessionsResolve
  <2>6. OneId'
    BY <1>2, <1>3, <2>1, <2>2 DEF OneId, RowThere
  <2> QED BY <2>5, <2>6
<1>7. CodeOfRecord'
  BY <1>1, <1>2 DEF CodeOfRecord
<1>8. Earned(item)
  BY <1>1 DEF Relied, Earned
<1>9. StatusIsItsOwn'
  BY <1>2, <1>8 DEF StatusIsItsOwn, Earned
<1>10. Relied'
  <2> SUFFICES ASSUME NEW d \in Calls
               PROVE  /\ Earned(seen[d])'
                      /\ ~crossed' /\ pc'[d] = "confirm" => By(row)' = guess'[d]
    BY DEF Relied
  <2>1. ~crossed' => ~crossed /\ (d \in Relying => By(item) = By(row))
    BY <1>2
  <2>2. By(row)' = By(item)
    BY <1>2 DEF By
  <2>3. Earned(seen[d])'
    BY <1>2, <1>3, <2>1 DEF Relied, Earned
  <2>4. pc'[d] = "confirm" => pc'[d] = pc[d] /\ guess'[d] = guess[d]
    BY <1>3
  <2> QED BY <1>2, <2>1, <2>2, <2>3, <2>4 DEF Relied, Relying
<1> QED BY <1>4, <1>5, <1>6, <1>7, <1>9, <1>10

\* A write on the record there is.
LEMMA RecordSteps ==
    ASSUME IInv, NEW c \in Calls,
           SetPending(c) \/ SendMail(c) \/ Confirm(c) \/ Decide(c) \/ MarkVerified(c)
    PROVE  IInv'
<1> USE NoneAssumption, RecordAssumption
<1> USE DEF IInv, TypeOK, Goto, End, local
<1>1. row \in Row
  <2>1. pc[c] \in Later \/ sessions # {}
    <3>1. CASE MarkVerified(c)
      BY <3>1 DEF MarkVerified, At, Entries, Callbacks, Pc
    <3> QED BY <3>1 DEF SetPending, SendMail, Confirm, Decide, Later
  <2> QED BY <2>1 DEF RowThere
<1>2. CASE SetPending(c)
  <2> DEFINE item == [row EXCEPT !.professional = Pending(c), !.code = [by |-> c, age |-> "cooling"]]
  <2>1. /\ item \in Row /\ item.id = row.id /\ item.code.by = c /\ By(item) = c
        /\ item.professional.status = "pending_email_confirmation"
    <3>1. Pending(c) \in Professional /\ [by |-> c, age |-> "cooling"] \in Code
      BY DEF Pending, Professional, Statuses, Code
    <3>2. item \in Row /\ item.id = row.id /\ item.professional = Pending(c) /\ item.code.by = c
      BY <1>1, <3>1 DEF Row
    <3>3. By(item) = c /\ item.professional.status = "pending_email_confirmation"
      BY <3>1, <3>2 DEF By, Pending
    <3> QED BY <3>2, <3>3
  <2>2. /\ row' = item /\ pc' = [pc EXCEPT ![c] = "mail"] /\ pc[c] = "setPending"
        /\ crossed' = (crossed \/ (Relying # {} /\ By(item) # By(row)))
        /\ UNCHANGED <<kind, sessions, seen, sid, guess, mailed, confirmed, decided, raced>>
    BY <1>2 DEF SetPending, WriteRow
  <2> HIDE DEF item
  <2>3. TypeOK'
    BY <2>1, <2>2 DEF Pc
  <2>4. RowThere' /\ Held' /\ SessionsResolve' /\ OneId'
    BY <2>1, <2>2 DEF RowThere, Later, Held, SessionsResolve, OneId
  <2>5. CodeOfRecord' /\ StatusIsItsOwn'
    BY <2>1, <2>2 DEF CodeOfRecord, StatusIsItsOwn, By
  <2>6. Relied'
    <3> SUFFICES ASSUME NEW d \in Calls
                 PROVE  /\ Earned(seen[d])'
                        /\ ~crossed' /\ pc'[d] = "confirm" => By(row)' = guess'[d]
      BY DEF Relied
    <3>1. /\ ~crossed' => ~crossed /\ (d \in Relying => By(item) = By(row))
          /\ By(row)' = By(item)
      BY <2>2 DEF By
    <3>2. Earned(seen[d])'
      BY <2>2, <3>1 DEF Relied, Earned
    <3> QED BY <2>2, <3>1, <3>2 DEF Relied, Relying
  <2> QED BY <2>3, <2>4, <2>5, <2>6
<1>3. CASE SendMail(c)
  <2>1. TypeOK' /\ RowThere' /\ Held' /\ SessionsResolve' /\ OneId'
    BY <1>3 DEF SendMail, table, Pc, RowThere, Later, Held, SessionsResolve, OneId
  <2>2. CodeOfRecord' /\ StatusIsItsOwn' /\ Relied'
    BY <1>3 DEF SendMail, table, CodeOfRecord, StatusIsItsOwn, Relied, Earned, By
  <2> QED BY <2>1, <2>2
<1>4. CASE Confirm(c)
  <2> DEFINE item == [row EXCEPT !.professional.status = "awaiting_review", !.code = None]
  <2>1. /\ item \in Row /\ item.id = row.id /\ item.code = None /\ By(item) = By(row)
        /\ item.professional # None /\ item.professional.by = By(row) /\ By(row) \in Calls
        /\ item.professional.status = "awaiting_review"
    <3>1. row.professional \in Professional
      BY <1>1, <1>4 DEF Confirm, Row
    <3>2. [row.professional EXCEPT !.status = "awaiting_review"] \in Professional
      BY <3>1 DEF Professional, Statuses
    <3>3. /\ item = [row EXCEPT !.professional = [row.professional EXCEPT !.status = "awaiting_review"],
                                !.code = None]
          /\ item.professional = [row.professional EXCEPT !.status = "awaiting_review"]
      BY <1>1 DEF Row
    <3>4. item \in Row /\ item.id = row.id /\ item.code = None
      BY <1>1, <3>2, <3>3 DEF Row
    <3>5. /\ item.professional.by = row.professional.by /\ row.professional.by \in Calls
          /\ item.professional.status = "awaiting_review"
      BY <3>1, <3>3 DEF Professional
    <3>6. item.professional \in Professional
      BY <3>2, <3>3
    <3> HIDE DEF item
    <3> QED BY <1>1, <3>1, <3>4, <3>5, <3>6 DEF By
  <2>2. /\ row' = item /\ pc' = [pc EXCEPT ![c] = "over"] /\ pc[c] = "confirm"
        /\ confirmed' = confirmed \cup {guess[c]} /\ guess[c] \in mailed
        /\ sessions' \in {sessions, sessions \cup {sid[c]}}
        /\ sessions' # sessions => sid[c] # None
        /\ seen' = [seen EXCEPT ![c] = None] /\ sid' = [sid EXCEPT ![c] = None]
        /\ guess' = [guess EXCEPT ![c] = None]
        /\ UNCHANGED <<kind, mailed, decided, raced, crossed>>
    BY <1>4 DEF Confirm, SignIn, Held
  <2> HIDE DEF item
  <2>3. TypeOK'
    BY <2>1, <2>2 DEF Pc
  <2>4. RowThere' /\ Held'
    BY <2>1, <2>2 DEF RowThere, Later, Held
  <2>5. SessionsResolve' /\ OneId'
    BY <1>1, <2>1, <2>2 DEF SessionsResolve, OneId
  <2>6. CodeOfRecord' /\ StatusIsItsOwn' /\ Relied'
    <3>1. ~crossed => By(row) = guess[c]
      BY <2>2 DEF Relied
    <3>2. StatusIsItsOwn' /\ CodeOfRecord'
      BY <2>1, <2>2, <3>1 DEF CodeOfRecord, StatusIsItsOwn
    <3>3. By(row)' = By(row)
      BY <2>1, <2>2 DEF By
    <3>4. Relied'
      BY <2>1, <2>2, <3>3 DEF Relied, Earned
    <3> QED BY <3>2, <3>4
  <2> QED BY <2>3, <2>4, <2>5, <2>6
<1>5. CASE Decide(c)
  <2>1. /\ row' \in Row /\ row'.id = row.id /\ row'.code = row.code
        /\ row.professional # None /\ row'.professional # None
        /\ row'.professional.by = row.professional.by /\ row.professional.by \in Calls
        /\ row'.professional.status \in {"verified", "rejected"}
    <3>1. row.professional \in Professional
      BY <1>1, <1>5 DEF Decide, Row
    <3>2. PICK s \in {"verified", "rejected"}, v \in BOOLEAN :
              row' = [row EXCEPT !.professional = [row.professional EXCEPT !.status = s], !.verified = v]
      <4>1. CASE row' = [row EXCEPT !.professional.status = "verified", !.verified = TRUE]
        BY <1>1, <4>1 DEF Row
      <4>2. CASE row' = [row EXCEPT !.professional.status = "rejected"]
        BY <1>1, <4>2 DEF Row
      <4> QED BY <1>5, <4>1, <4>2 DEF Decide
    <3>3. [row.professional EXCEPT !.status = s] \in Professional
      BY <3>1 DEF Professional, Statuses
    <3>4. row'.professional = [row.professional EXCEPT !.status = s]
      BY <1>1, <3>2 DEF Row
    <3>5. row' \in Row /\ row'.id = row.id /\ row'.code = row.code
      BY <1>1, <3>2, <3>3 DEF Row
    <3>6. /\ row'.professional.by = row.professional.by /\ row.professional.by \in Calls
          /\ row'.professional.status = s
      BY <3>1, <3>4 DEF Professional
    <3> QED BY <1>5, <3>1, <3>3, <3>4, <3>5, <3>6 DEF Decide
  <2>2. /\ pc' = [pc EXCEPT ![c] = "over"] /\ pc[c] = "decide"
        /\ seen' = [seen EXCEPT ![c] = None] /\ sid' = [sid EXCEPT ![c] = None]
        /\ guess' = [guess EXCEPT ![c] = None]
        /\ decided' = decided \cup {row.professional.by}
        /\ UNCHANGED <<kind, sessions, mailed, confirmed, raced, crossed>>
    BY <1>5 DEF Decide
  <2>3. TypeOK'
    BY <2>1, <2>2 DEF Pc
  <2>4. RowThere' /\ Held' /\ SessionsResolve' /\ OneId'
    BY <2>1, <2>2 DEF RowThere, Later, Held, SessionsResolve, OneId
  <2>5. By(row)' = By(row) /\ By(row) = row.professional.by
    BY <1>1, <2>1 DEF By
  <2>6. CodeOfRecord' /\ StatusIsItsOwn' /\ Relied'
    BY <1>1, <2>1, <2>2, <2>5 DEF CodeOfRecord, StatusIsItsOwn, Relied, Earned
  <2> QED BY <2>3, <2>4, <2>6
<1>6. CASE MarkVerified(c)
  <2>1. /\ row' \in Row /\ row'.id = row.id /\ row'.code = row.code
        /\ row'.professional = row.professional
    BY <1>1, <1>6 DEF MarkVerified, Row
  <2>2. /\ pc' = [pc EXCEPT ![c] = "over"]
        /\ seen' = [seen EXCEPT ![c] = None] /\ sid' = [sid EXCEPT ![c] = None]
        /\ guess' = [guess EXCEPT ![c] = None]
        /\ UNCHANGED <<kind, sessions, mailed, confirmed, decided, raced, crossed>>
    BY <1>6 DEF MarkVerified, hist
  <2>3. TypeOK' /\ RowThere' /\ Held' /\ SessionsResolve' /\ OneId'
    BY <1>1, <2>1, <2>2 DEF Pc, RowThere, Later, Held, SessionsResolve, OneId
  <2>4. CodeOfRecord' /\ StatusIsItsOwn' /\ Relied'
    BY <1>1, <2>1, <2>2 DEF CodeOfRecord, StatusIsItsOwn, Relied, Earned, By
  <2> QED BY <2>3, <2>4
<1> QED BY <1>2, <1>3, <1>4, <1>5, <1>6

LEMMA NextIInv == IInv /\ [Next]_vars => IInv'
<1> SUFFICES ASSUME IInv, [Next]_vars PROVE IInv'
  OBVIOUS
<1>1. CASE UNCHANGED vars
  BY <1>1 DEF vars, IInv, TypeOK, RowThere, Held, SessionsResolve, OneId, CodeOfRecord,
              Relied, Earned, StatusIsItsOwn, By
<1>2. CASE Age
  <2>1. /\ row \in Row /\ row' \in Row /\ row'.id = row.id
        /\ row'.professional = row.professional
        /\ row'.code # None /\ row.code # None /\ row'.code.by = row.code.by
    BY <1>2, RecordAssumption DEF Age, IInv, TypeOK, Row, Code
  <2>2. UNCHANGED <<kind, sessions, pc, seen, sid, guess,
                    mailed, confirmed, decided, raced, crossed>>
    BY <1>2 DEF Age, local, hist
  <2>3. By(row)' = By(row)
    BY <2>1, RecordAssumption DEF By
  <2>4. TypeOK' /\ RowThere' /\ Held' /\ SessionsResolve' /\ OneId'
    BY <2>1, <2>2, RecordAssumption
       DEF IInv, TypeOK, RowThere, Held, SessionsResolve, OneId
  <2>5. CodeOfRecord' /\ StatusIsItsOwn' /\ Relied'
    BY <2>1, <2>2, <2>3, RecordAssumption
       DEF IInv, CodeOfRecord, StatusIsItsOwn, Relied, Earned
  <2> QED BY <2>4, <2>5 DEF IInv
<1>3. ASSUME NEW c \in Calls, SignInStep(c) PROVE IInv'
  BY <1>3, LocalSteps, RowSteps, PutOverSteps DEF SignInStep
<1>4. ASSUME NEW c \in Calls, VerificationStep(c) \/ Throw(c) PROVE IInv'
  BY <1>4, LocalSteps, RecordSteps DEF VerificationStep
<1> QED BY <1>1, <1>2, <1>3, <1>4 DEF Next

LEMMA SpecIInv == Spec => []IInv
  BY InitIInv, NextIInv, PTL DEF Spec
-------------------------------------------------------------------------------
\* Every row, session, control point and history of the users table has its type.
THEOREM AccountsTypeOK == Spec => []TypeOK
<1>1. IInv => TypeOK
  BY DEF IInv
<1> QED BY <1>1, SpecIInv, PTL

\* Until an unconditional put replaces a row it did not see, every session issued
\* names the stored user.
THEOREM AccountsSessionsResolve == Spec => []SessionsResolve
<1>1. IInv => SessionsResolve
  BY DEF IInv
<1> QED BY <1>1, SpecIInv, PTL

\* A record carries only decisions made on its own request, and awaits review only
\* after its own code was confirmed, until it changes under a confirm.
THEOREM AccountsStatusIsItsOwn == Spec => []StatusIsItsOwn
<1>1. IInv => StatusIsItsOwn
  BY DEF IInv
<1> QED BY <1>1, SpecIInv, PTL

\* Only a sign-in that read an unverified row, or none, unmakes a verified
\* contributor.
THEOREM AccountsVerifiedStays == Spec => VerifiedStays
<1> DEFINE Undoes(c) == /\ pc[c] \in {"upsert", "putEmail", "putLocal"} /\ pc'[c] # pc[c]
                        /\ seen[c] = None \/ ~seen[c].verified
           Stays == row # None /\ row.verified /\ ~row'.verified => \E c \in Calls : Undoes(c)
<1>1. IInv /\ [Next]_vars => [Stays]_vars
  <2> SUFFICES ASSUME IInv, Next, row # None, row.verified, ~row'.verified
               PROVE  \E c \in Calls : Undoes(c)
    OBVIOUS
  <2>1. row \in Row
    BY DEF IInv, TypeOK
  <2>2. ASSUME NEW c \in Calls, Upsert(c) \/ PutByEmail(c) \/ PutLocal(c)
        PROVE  Undoes(c)
    <3>1. pc[c] \in {"upsert", "putEmail", "putLocal"} /\ pc'[c] # pc[c]
      BY <2>2 DEF Upsert, PutByEmail, PutLocal, SignIn, End, Goto, IInv, TypeOK
    <3>2. seen[c] = None \/ ~seen[c].verified
      BY <2>2, RecordAssumption DEF Upsert, PutByEmail, PutLocal, PutOver, WriteRow, Upserted,
         IInv, TypeOK, Held, Row
    <3> QED BY <3>1, <3>2
  <2>3. ASSUME NEW c \in Calls, Confirm(c) \/ Decide(c) \/ SetPending(c) \/ MarkVerified(c)
        PROVE  FALSE
    BY <2>1, <2>3 DEF Confirm, Decide, SetPending, MarkVerified, WriteRow, Row
  <2>4. CASE Age
    BY <2>1, <2>4 DEF Age, Row
  <2>5. row' # row
    OBVIOUS
  <2>6. ASSUME NEW c \in Calls, SignInStep(c) PROVE \E d \in Calls : Undoes(d)
    BY <2>2, <2>5, <2>6 DEF SignInStep, LoginGet, FindFirst, CreateIfAbsent, CreateUnanswered,
       GetWinner, FindByEmail, LocalSignIn, table
  <2>7. ASSUME NEW c \in Calls, VerificationStep(c) \/ Throw(c) PROVE FALSE
    BY <2>3, <2>5, <2>7 DEF VerificationStep, Throw, CanRequest, RefuseRequest, Screen, Classify,
       SendMail, GetUser, Check, GetById, table
  <2> QED BY <2>4, <2>6, <2>7 DEF Next
<1> QED BY <1>1, SpecIInv, PTL DEF Spec, VerifiedStays
================================================================================
