\* Eight keys of nested, scalar and partial sorts with one value, batches of two; two namespaces
\* of two keys; a clock of four minutes, two transactions, any number of processes one after another;
\* three calculations by two nicks; three lines on two connections; texts of five to seven symbols;
\* texts about dates of one phrase on seven days of each of 14 months, and of two on three days.
SPECIFICATION Spec
CONSTANTS
    u = u
    v = v
    a = a
    b = b
    n1 = n1
    n2 = n2
    NoValue = NoValue
    NoFile = NoFile
    Part = Part
    NoAnswer = NoAnswer
    Nobody = Nobody
    Keys <- AllKeys
    Value <- OneSetting
    Width = 2
    MaxSeq = 1
    MaxBatch = 2
    Ns <- Namespaces
    Name <- Names
    Setting <- Settings
    IntBits = 2
    MaxMinute = 3
    MaxCommit = 2
    User = {a, b}
    Expression <- Expressions
    Follow <- Follows
    Garbage <- Garbages
    MaxCalc = 3
    Server = {n1, n2}
    Registered <- Commands
    Me = "bot"
    LineHeard <- LinesHeard
    MaxHeard = 3
    Symbols <- SymbolsOf
    MaxText <- LongestOf
    Phrase <- Phrases
    Today <- Moments
    MaxPhrases <- MostPhrases
INVARIANTS KeyedKept ConfAgrees BackupsWhole CalcAgrees Dispatched TextAgrees DatesMeant
SYMMETRY Alike
CHECK_DEADLOCK FALSE
