----------------------------- MODULE SocialPublishing -----------------------------
(***************************************************************************)
(* packages/social: SocialPublisherRegistry.publishAll over the Meta, X    *)
(* and TikTok adapters.  One call of publishAll, a batch, is named by an   *)
(* element of BatchId; each of its posts that reaches an adapter is a      *)
(* flight, a record that says which request it makes next or how it ended. *)
(***************************************************************************)
EXTENDS Naturals, FiniteSets

CONSTANTS
    Registered,         \* the platforms with a publisher in the registry
    Configured,         \* Meta platforms with an account id
    AllowDirectPost     \* TikTokPublisherOptions.allowDirectPost

Platform == {"instagram", "facebook", "tiktok", "x"}
Capability == {"feed", "reel", "story", "carousel", "direct_post", "draft_only"}
Post == [platform : Platform, kind : Capability]

ASSUME SocialAssumption == Registered \subseteq Platform /\ Configured \subseteq Platform
                           /\ AllowDirectPost \in BOOLEAN

VARIABLES
    flights             \* the posts of the batches under way
svars == <<flights>>

Over == {"published", "draft", "retryable", "failed"}
Sending == {"media", "publish", "tweet", "upload"}
FlightType(BatchId) == [batch : BatchId, post : Post, at : Sending \cup Over]

PLATFORM_CAPABILITIES ==
    [instagram |-> {"feed", "reel", "carousel"}, facebook |-> {"feed", "reel"},
     tiktok |-> {"draft_only"}, x |-> {"feed"}]

\* Registry.publish rejects any other post; that of the other posts goes on.
Accepted(post) ==
    /\ post.kind \in PLATFORM_CAPABILITIES[post.platform]
    /\ post.platform \in Registered

\* Promise.all rejects at once when one of the posts is rejected.
Rejected(posts) == \E post \in posts : ~Accepted(post)

FirstStep(post) ==
    CASE post.platform = "x" -> "tweet"
      [] post.platform = "tiktok" -> "upload"
      [] post.platform \in Configured -> "media"
      [] OTHER -> "failed"      \* not_configured, not retryable

Launch(batch, posts) ==
    {[batch |-> batch, post |-> p, at |-> FirstStep(p)] : p \in {q \in posts : Accepted(q)}}

Mine(batch) == {f \in flights : f.batch = batch}
Settled(batch) == \A f \in Mine(batch) : f.at \in Over

\* The results of a batch that nobody waits for are dropped as they arrive.
To(f, at, waited) ==
    flights' = (flights \ {f}) \cup IF at \in Over /\ ~waited THEN {} ELSE {[f EXCEPT !.at = at]}

\* What the code makes of an error: Meta reads a lost session from its text.
FailedAs(f) == IF f.post.platform \in {"instagram", "facebook"} THEN {"retryable", "failed"}
               ELSE {"retryable"}

\* The container of a Meta post: nobody sees it yet.
Container(f, waited) ==
    /\ f \in flights /\ f.at = "media"
    /\ \E at \in {"publish"} \cup FailedAs(f) : To(f, at, waited)

Success(f) ==
    IF f.post.platform = "tiktok" /\ ~(f.post.kind = "direct_post" /\ AllowDirectPost)
    THEN "draft" ELSE "published"

\* Mutant of Attempts: the transport repeats a POST after a 5xx or a timeout.
AttemptsRepeated(answered) == IF answered THEN {1} ELSE {0, 1, 2}

\* How often a POST may take effect: ky never repeats one, but its answer can be
\* an error or a timeout although it did.
Attempts(answered) == IF answered THEN {1} ELSE {0, 1}

\* The request that makes the post public (a draft, for TikTok): n effects.
Send(f, n, waited) ==
    /\ f \in flights /\ f.at \in {"publish", "tweet", "upload"}
    /\ \/ n \in Attempts(TRUE) /\ To(f, Success(f), waited)
       \/ n \in Attempts(FALSE) /\ \E at \in FailedAs(f) : To(f, at, waited)

Forget(batch) == flights \ {f \in Mine(batch) : f.at \in Over}
================================================================================
