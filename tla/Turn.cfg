SPECIFICATION Spec
CONSTANTS
    Styles = {"queues", "steers", "skips"}
    MaxPrompts = 3
INVARIANTS
    TypeOK
    PromptsMatch
PROPERTIES
    AnswersEnd
CHECK_DEADLOCK FALSE
