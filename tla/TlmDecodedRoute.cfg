SPECIFICATION Spec
CONSTANTS
    Links <- LockedDecoded
    Nothing = Nothing
PROPERTY
    AnswersMatch
