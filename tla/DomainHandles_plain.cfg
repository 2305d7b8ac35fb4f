SPECIFICATION Spec
CONSTANTS
    NULL = NULL
    MaxLength = 8
    ZoneLabels = {1, 2}
INVARIANTS
    ExampleIsLastLabels
\* A handle of the full length is not typed on.
CHECK_DEADLOCK FALSE
