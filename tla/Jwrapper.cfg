SPECIFICATION Spec
CONSTANTS
    NIL = NIL
    jsmn_parse <- Tokens
    Docs <- MCDocs
INVARIANTS TokensInRange LookupsMatchDocument NothingUsedAfterFree NukeFreesOnce
\* A document that was nuked, could not be parsed or led to undefined behaviour
\* is the end.
CHECK_DEADLOCK FALSE
