\* Two goroutines share the account; the cloud issues up to two tokens.
SPECIFICATION FairSpec
CONSTANTS
    Procs = {g1, g2}
    MaxTokens = 2
INVARIANTS TypeOK RefusedStaysOut BlankIsExplained NestsOnlyWhenDisturbed
PROPERTIES CommandsEnd
