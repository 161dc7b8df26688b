CONSTANTS
    CharSigned = FALSE
    Sessions = {8, 20}
    Payloads = {0, 89, 90, 150, 640, 65499, 65500}
    Flags = {0, 1, 2, 3, 4, 5, 6, 7}
    Numbers <- MCNumbers
    Reserved = {0, 255}
SPECIFICATION Spec
INVARIANTS
    TypeOK
    RequestsUnderstood
    ResponsesUnderstood
    ReadyFollowsSession
