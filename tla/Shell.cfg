\* Nine things a client may type, four with carriage returns and every chain of three,
\* in chunks of every size; a script that asks for a password, up to two jobs.
CONSTANTS
    Inputs <- MCInputs
    Merged <- MCMerged
    ScriptFile <- MCScript
    Users = {bob}
    root = root
    max_chain_depth = 3
    OutputMayOverflow = TRUE
    MaxJobs = 2
SPECIFICATION ShellFairSpec
INVARIANTS
    LinesInOrder
    PlainChainsFollowShell
    AuthorisedOnce
PROPERTY
    InputIsServed
CHECK_DEADLOCK FALSE
