SPECIFICATION FairSpec
CONSTANTS
    n1 = n1  n2 = n2  s1 = s1  NoNode = NoNode
    Node <- CallsAndSub
    SubNode <- Sub
    MaxCost = 3
    MaxIterations = 4
    MaxDepth = 2
    Estimate = 2
    Cap = 2
    ChildOverrun = 1
    MaxRetries = 1
    Layers = 2
INVARIANTS   BooksBalance  AnswersBounded
PROPERTIES RunEnds
CHECK_DEADLOCK FALSE
