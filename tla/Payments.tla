-------------------------------- MODULE Payments --------------------------------
(***************************************************************************)
(* packages/payments: the Stripe gateway (createCheckout, refund,          *)
(* parseWebhook) and the onboarding of sellers.  Stripe is external: what  *)
(* it keeps is a session per checkout, with the payment made in it, and an *)
(* account per seller; what it reports are events, delivered any number of *)
(* times in any order.  Prices, addresses and texts are left out.          *)
(***************************************************************************)
EXTENDS Naturals, FiniteSets

CONSTANTS
    Checkouts, Sellers,
    Price,              \* the cents a checkout costs
    Lifetimes,          \* the values of expiresInMinutes tried, 0 for none given
    Null

ASSUME PaymentsAssumption ==
    /\ Price \in Nat \ {0} /\ Lifetimes \subseteq Nat
    /\ Null \notin Checkouts \cup Sellers \cup Nat

Owners == Sellers \cup {Null}       \* Null: the platform's own account
Input == [seller : Owners, direct : BOOLEAN, lines : 0 .. 1, rates : BOOLEAN,
          address : BOOLEAN, minutes : Lifetimes]

VARIABLES
    connectSecret,      \* whether connectWebhookSecret is configured
    accounts,           \* Stripe: the sellers' accounts
    sessions,           \* Stripe: the checkouts' sessions
    events,             \* Stripe: what it has reported
    inbox               \* what parseWebhook has told the application

paymentsVars == <<connectSecret, accounts, sessions, events, inbox>>

Session == [owner : Owners, transfer : Owners, tagged : BOOLEAN, tried : BOOLEAN,
            state : {"open", "paid", "expired"}, refunded : 0 .. Price]
ObjectId == ({"session", "intent", "charge"} \X Checkouts) \cup ({"account"} \X Sellers)
StripeEvent == [type : {"checkout.session.completed", "checkout.session.expired",
                        "payment_intent.payment_failed", "charge.refunded", "other"},
                account : Owners, id : ObjectId, intent : ObjectId \cup {Null},
                metadata : Checkouts \cup {Null}, amount : 0 .. Price]
PaymentEvent == [type : {"checkout.completed", "checkout.failed", "charge.refunded"},
                 paymentId : ObjectId, metadata : Checkouts \cup {Null},
                 connectedAccountId : Owners, amount : 0 .. Price]

ASSUME PlaceholderAssumption == Null \notin Session \cup ObjectId

PaymentsTypeOK ==
    /\ connectSecret \in BOOLEAN
    /\ accounts \in [Sellers -> {"pending", "active", Null}]
    /\ sessions \in [Checkouts -> Session \cup {Null}]
    /\ events \subseteq StripeEvent
    /\ inbox \subseteq PaymentEvent

PaymentsInit ==
    /\ connectSecret \in BOOLEAN
    /\ accounts = [s \in Sellers |-> Null]
    /\ sessions = [c \in Checkouts |-> Null]
    /\ events = {} /\ inbox = {}

-------------------------------------------------------------------------------
(* The gateway. *)

Accepts(i) ==
    /\ i.lines > 0
    /\ i.direct => i.seller # Null
    /\ i.rates => i.address
    /\ i.minutes # 0 => i.minutes \in 30 .. 1440

\* Mutant of NewSession: payment_intent_data without the metadata.
NewSessionUntagged(i) ==
    [owner |-> IF i.direct THEN i.seller ELSE Null,
     transfer |-> IF i.direct THEN Null ELSE i.seller,
     tagged |-> FALSE, tried |-> FALSE, state |-> "open", refunded |-> 0]

\* The params: a direct charge is made on the seller's account, a destination
\* charge transferred to it; only with a seller is the payment tagged as well.
NewSession(i) ==
    [owner |-> IF i.direct THEN i.seller ELSE Null,
     transfer |-> IF i.direct THEN Null ELSE i.seller,
     tagged |-> i.seller # Null, tried |-> FALSE, state |-> "open", refunded |-> 0]

\* Whether or not its answer reaches the application.
CreateCheckout(c, i) ==
    /\ sessions[c] = Null
    /\ Accepts(i)
    /\ i.seller # Null => accounts[i.seller] = "active"
    /\ sessions' = [sessions EXCEPT ![c] = NewSession(i)]
    /\ UNCHANGED <<connectSecret, accounts, events, inbox>>

\* What Stripe finds for a refund: the payment, on the account it is made on.
Finds(c, paymentId, account) ==
    /\ paymentId = <<"intent", c>>
    /\ sessions[c] # Null /\ sessions[c].state = "paid" /\ sessions[c].owner = account

Charge(c) ==
    [type |-> "charge.refunded", account |-> sessions[c].owner, id |-> <<"charge", c>>,
     intent |-> <<"intent", c>>, metadata |-> Null, amount |-> sessions'[c].refunded]

\* A refund of what the application was told of, in part or of the rest; nothing
\* says that it is the same refund when it is asked for again.
Refund(e, cents) ==
    /\ e \in inbox /\ e.type = "checkout.completed"
    /\ \E c \in Checkouts :
           /\ Finds(c, e.paymentId, e.connectedAccountId)
           /\ sessions[c].refunded + cents <= Price
           /\ sessions' = [sessions EXCEPT ![c].refunded = @ + cents]
           /\ events' = events \cup {Charge(c)}
    /\ UNCHANGED <<connectSecret, accounts, inbox>>

\* verify: events of connected accounts are signed with a secret of their own.
Verified(e) == e.account = Null \/ connectSecret

\* Mutant of PaymentId: the id of the event's object.
PaymentIdOwn(e) == e.id

\* Mutant of PaymentId: only payment_intent is read.
PaymentIdIntent(e) == e.intent

PaymentId(e) == IF e.intent # Null THEN e.intent ELSE e.id

\* parseWebhook.
Parsed(e) ==
    [type |-> CASE e.type = "checkout.session.completed" -> "checkout.completed"
                [] e.type = "charge.refunded" -> "charge.refunded"
                [] OTHER -> "checkout.failed",
     paymentId |-> PaymentId(e),
     metadata |-> e.metadata, connectedAccountId |-> e.account, amount |-> e.amount]

\* Stripe delivers an event, for the first time or again.
Webhook(e) ==
    /\ e \in events /\ Verified(e)
    /\ inbox' = IF e.type = "other" THEN inbox ELSE inbox \cup {Parsed(e)}
    /\ UNCHANGED <<connectSecret, accounts, sessions, events>>

-------------------------------------------------------------------------------
(* Stripe: payments. *)

Report(c, type, id, intent, metadata, amount) ==
    events' = events \cup
        {[type |-> type, account |-> sessions[c].owner, id |-> <<id, c>>, intent |-> intent,
          metadata |-> metadata, amount |-> amount]}

Open(c) == sessions[c] # Null /\ sessions[c].state = "open"

\* A payment is declined; the page stays open for another try.
Decline(c) ==
    /\ Open(c)
    /\ sessions' = [sessions EXCEPT ![c].tried = TRUE]
    /\ Report(c, "payment_intent.payment_failed", "intent", Null,
              IF sessions[c].tagged THEN c ELSE Null, 0)
    /\ UNCHANGED <<connectSecret, accounts, inbox>>

Pay(c) ==
    /\ Open(c)
    /\ sessions' = [sessions EXCEPT ![c].tried = TRUE, ![c].state = "paid"]
    /\ Report(c, "checkout.session.completed", "session", <<"intent", c>>, c, Price)
    /\ UNCHANGED <<connectSecret, accounts, inbox>>

Expire(c) ==
    /\ Open(c)
    /\ sessions' = [sessions EXCEPT ![c].state = "expired"]
    /\ Report(c, "checkout.session.expired", "session",
              IF sessions[c].tried THEN <<"intent", c>> ELSE Null, c, 0)
    /\ UNCHANGED <<connectSecret, accounts, inbox>>

-------------------------------------------------------------------------------
(* Sellers. *)

\* createExpressAccount, of either adapter.
Onboard(s) ==
    /\ accounts[s] = Null
    /\ accounts' = [accounts EXCEPT ![s] = "pending"]
    /\ UNCHANGED <<connectSecret, sessions, events, inbox>>

\* Stripe lets the account take charges, or stops it, and reports that as well.
Review(s) ==
    /\ accounts[s] # Null
    /\ \E a \in {"pending", "active"} : accounts' = [accounts EXCEPT ![s] = a]
    /\ events' = events \cup
           {[type |-> "other", account |-> s, id |-> <<"account", s>>, intent |-> Null,
             metadata |-> Null, amount |-> 0]}
    /\ UNCHANGED <<connectSecret, sessions, inbox>>

PaymentsNext ==
    \/ \E c \in Checkouts :
           \/ \E i \in Input : CreateCheckout(c, i)
           \/ Decline(c) \/ Pay(c) \/ Expire(c)
    \/ \E e \in inbox, cents \in 1 .. Price : Refund(e, cents)
    \/ \E e \in events : Webhook(e)
    \/ \E s \in Sellers : Onboard(s) \/ Review(s)

PaymentsSpec == PaymentsInit /\ [][PaymentsNext]_paymentsVars
-------------------------------------------------------------------------------
(* A refund made with what a completed checkout reported finds the payment *)
(* where it was made, on the platform or on a seller's account, whatever   *)
(* the order and number of its deliveries (parseWebhook, refund).          *)
RefundsFindPayment ==
    \A e \in inbox : e.type = "checkout.completed" =>
        /\ \E c \in Checkouts : Finds(c, e.paymentId, e.connectedAccountId)
        /\ e.amount = Price

(* What is reported can be told whose it is: by its metadata, or, a        *)
(* refund, by a completion the application was told of before, of the same *)
(* payment and account; except a declined payment of a checkout with no    *)
(* seller, which is not tagged (createCheckout, parseWebhook).             *)
Attributed ==
    \A e \in inbox :
        \/ e.paymentId[2] = e.metadata
        \/ /\ e.type = "charge.refunded"
           /\ \E d \in inbox : /\ d.type = "checkout.completed"
                               /\ d.paymentId = e.paymentId
                               /\ d.connectedAccountId = e.connectedAccountId
        \/ /\ e.type = "checkout.failed" /\ e.paymentId[1] = "intent"
           /\ LET s == sessions[e.paymentId[2]] IN s.owner = Null /\ s.transfer = Null

================================================================================
