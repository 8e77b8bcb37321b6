SPECIFICATION Spec
CONSTANTS
    Sessions = {s1}
    Blocks = {0, 1}
    Manifests = {{0}}
    Replacing = {}
    Borrowed = {0}
    Nodes = {n1}
    Reqs = {q1, q2}
    Calls = {"create", "upload", "commit"}
    Faults = {"head"}
    MaxUncommittedBlockSessionsPerUser = 1
    MaxConcurrentBlockUploadsPerUser = 1
    MaxStagedBlocksPerSession = 2
    None = None
INVARIANT OneFilePerSession
CHECK_DEADLOCK FALSE
