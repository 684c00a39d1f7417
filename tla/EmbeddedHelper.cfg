\* Three hosts that share the cache directory and the temporary directory.
SPECIFICATION Spec
CONSTANTS
    Hosts = {h1, h2, h3}
    NumRoots = 2
INVARIANTS
    InstallInv
    GivenPathHolds
PROPERTIES
    NeverTruncated
