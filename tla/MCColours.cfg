SPECIFICATION ColoursSpec
CONSTANTS
    Lists <- MCLists
    MaxCalls = 4
PROPERTY ColoursFollowAttributes
PROPERTY InkAndPaperAreApart
\* Nobody has to write.
CHECK_DEADLOCK FALSE
