SPECIFICATION WindowSpec
CONSTANTS
    ContextLimit = 16
    Histories <- MCHistories
    SystemLengths <- MCSystemLengths
    PromptLengths <- MCPromptLengths
CHECK_DEADLOCK FALSE
INVARIANTS
    WithinBudget
    SelectionIsGreedy
    Chronological
