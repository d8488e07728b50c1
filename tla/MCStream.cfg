CONSTANTS
    Alphabet <- AnySymbol
    InlineLimit = 20
    MaxMessage = 67108864
    MaxRead = 200
    MaxBuffer = 200
    Commands <- CommandsValue
    Replies <- RepliesValue
    Messages <- MessagesValue
SPECIFICATION Spec
INVARIANTS
    CommandsArriveIntact
    
    MessagesArriveIntact
