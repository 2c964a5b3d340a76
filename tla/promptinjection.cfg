CONSTANTS
    Pieces <- MCPieces
    Space = Space
    Newline = Newline
    Leads = {"C3"}
    Conts = {"A9", "A8"}
    Replacement = "U+FFFD"
    Requests <- MCRequests
    Dash = Dash
    Backslash = Backslash
    Answers <- MCAnswers
    OutputSize = 1
    MaxAge = 1
    MaxLogged = 2
    Modes = {"layered", "redis"}
    Faults = {"redis", "pg"}
SPECIFICATION Spec
INVARIANTS TypeOK TemplateIsTheClients StaysInjectable GraftIsExact
ACTION_CONSTRAINTS OneOfP1 PromptlessFirst
