SPECIFICATION Spec
CONSTANTS
    NULL = NULL
    Handles = {h1}
    Emails = {e1, e2}
INVARIANTS
    TypeOK
    InputsFollowChoice
    PostIsAccepted
    ConfirmationIsGiven
PROPERTIES
    ChoicesSurvive
