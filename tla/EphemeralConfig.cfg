SPECIFICATION Spec
CONSTANTS
    Source = "dev"
    Shared = "shared"
    Targets = {"pr1", "pr2"}
    Names <- MCNames
    Leaf <- MCLeaf
    Provisioned <- MCProvisioned
    Tweaked = {"jwt-secret"}
    Used = {"pr1"}
    DELETE_BATCH_SIZE = 2
    None = None
INVARIANTS TypeOK NoLeftovers BootsConfigured TweaksKept
