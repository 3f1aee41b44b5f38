SPECIFICATION Spec
CONSTANTS
    NPROC = 5
    NFILE = 5
    NOFILE = 5
    NPIPE = 2
    MAXARGS = 3
    Lines <- Typed
    MaxLines = 2
    PIPESIZE = 1
    Program = {"src", "cat", "true"}
    Existing = {"f"}
    MaxTokens = 5
    Size = 4
    MaxRe = 4
    MaxPath = 6
    Width = 6
    MaxHeap = 14
    MinCore = 4
    Sizes = {2, 3, 5}
INVARIANTS HeapWhole FilesCounted CleanExec PromptAfterCommand NobodyStuck ParsedRight TextRight
CHECK_DEADLOCK FALSE
