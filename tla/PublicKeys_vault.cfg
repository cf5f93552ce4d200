\* Any concurrent requests; what fails, fails before Vault is told.
SPECIFICATION Spec
CONSTANTS
    Handlers = {h1, h2, h3}
    KeyIds = {k1, k2, k3}
    CreateFlags = {"plain", "default"}
    PatchFlags = {"plain", "default", "keep"}
    Removing = TRUE
    Faults = {"clear", "write", "ensure", "choose", "promote"}
SYMMETRY Symmetry
INVARIANTS VaultMatches OneDefaultUnmet
CHECK_DEADLOCK FALSE
