\* Every two-node flow, and a second flow that starts on any text.
CONSTANTS
    f1 = f1
    f2 = f2
    n1 = n1
    n2 = n2
    None = None
    Flows = {f1, f2}
    Nodes = {n1, n2}
    Texts = {"", "start", "good"}
    Empty = ""
    Valid = {"good"}
    Hits <- MCHits
    Graphs <- MCGraphs
    RetryLimit = 1
    MaxIterations = 3
SPECIFICATION FairSpec
INVARIANTS TypeOK RestsAtOpenNode AnswerMeetsItsPrompt UnaskedOnlyAtEntry SlotsOfThisFlow RetriesBounded
PROPERTIES StaysInFlow MessageEnds
CHECK_DEADLOCK FALSE
