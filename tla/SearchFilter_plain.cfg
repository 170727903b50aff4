CONSTANTS
    Chars = {"k", "K", "x", "eacute", " "}
    Space = " "
    Ascii = {"k", "K", "x", " "}
    Upper = {"K"}
    LowerOf <- MCLowerOf
    Commands <- MCCommands
    Queries <- MCQueries
    MaxRows = 3
    MayDrop = TRUE
SPECIFICATION Spec
INVARIANTS AnswersRight
