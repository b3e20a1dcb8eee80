------------------------------ MODULE MCCampaign ------------------------------
EXTENDS Campaign, TLC

P(platform, kind) == [platform |-> platform, kind |-> kind]
\* A reel, or a tweet whose batch holds a kind that is not accepted; then a page
\* that is not configured, with a draft.
MCPayloads == <<{{P("instagram", "reel")}, {P("x", "feed"), P("tiktok", "direct_post")}},
                {{P("facebook", "feed"), P("tiktok", "draft_only")}}>>
MCMaxJobs == [memory |-> 2, aws |-> 1]
================================================================================
