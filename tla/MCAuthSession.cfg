SPECIFICATION FairSpec
CONSTANTS
    Users = {u1, u2}
    Known = {u1}
    Queries = {q1}
    Form = form
    Other = other
    None = None
INVARIANTS
    TokensOfShown
    RegistrationComplete
PROPERTIES
    OwnWorkspace
    CallSettles
