SPECIFICATION Spec
CONSTANTS
    Text <- SomeText
    Unset = Unset
    None = None
INVARIANTS
    TypeOK
