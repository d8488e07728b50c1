SPECIFICATION Spec
CONSTANTS
    a = a
    b = b
    Channel = {a, b}
    Client = {4, 5, 6}
    ChannelArgs <- MCChannelArgs
INVARIANTS
    TypeOK
    IndexesAgree
    DisconnectForgets
PROPERTY
    ImplementsSubscriptions
