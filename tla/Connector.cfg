SPECIFICATION Spec
CONSTANTS
    Items = {a}
    Room = 6
    Globals = 3
    NamesPerFrame = 2
    Ids = 2
    MaxDepth = 1
    MaxItems = 2
INVARIANTS
    UpdatesInOrder
    AnswersAreCurrent
PROPERTIES
    CallReturns
