\* Every chain of three commands.
CONSTANTS
    Inputs <- LongChains
    Merged <- MCMerged
    ScriptFile <- MCScript
    Users = {bob}
    root = root
    max_chain_depth = 3
    OutputMayOverflow = FALSE
    MaxJobs = 0
SPECIFICATION ShellSpec
INVARIANT
    ChainsFollowShell
CHECK_DEADLOCK FALSE
