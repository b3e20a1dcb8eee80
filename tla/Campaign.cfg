SPECIFICATION CampaignSpec
CONSTANTS
    MaxJobs <- MCMaxJobs
    MaxAttempts = 2
    Workers = {w1, w2}
    None = None
    Registered = {"instagram", "facebook", "tiktok", "x"}
    Configured = {"instagram"}
    AllowDirectPost = TRUE
    Payloads <- MCPayloads
INVARIANTS CampaignTypeOK PostsExplained
PROPERTIES CancelHolds Settles
CHECK_DEADLOCK FALSE
