SPECIFICATION Spec
CONSTANTS
    Cols = 4
    Rows = 3
    TabSize = 2
    Word = 16
    MaxValues = 2
    Base = 2
    LeadValues <- MCLeadValues
    Cp437 = {3, 9}
    Combining <- MCCombining
    NonPrinting = {1, 2}
    Wide = {13, 14}
    Numbers <- MCNumbers
    Starts <- MCStarts
    MaxItems = 2
INVARIANT TypeOK
INVARIANT OneStateAtATime
PROPERTY CharacterTakesItsWidth
PROPERTY CommandsAreExact
PROPERTY MarginsHold
