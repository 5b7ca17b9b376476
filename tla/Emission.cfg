CONSTANTS
    NameType <- NameTypes
    Channels <- AsyncNames
    Programs <- Sources
    Nesting = 2
    ExprC <- Emitted
SPECIFICATION Spec
INVARIANTS DeclaredBeforeUse LayoutAsDeclared ArgumentsArrive ExpressionsRead
CHECK_DEADLOCK FALSE
