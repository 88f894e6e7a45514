\* One goroutine: what becomes of the token a refresh returns.
SPECIFICATION Spec
CONSTANTS
    Procs = {g1}
    MaxTokens = 4
PROPERTIES RefreshIsKept
