SPECIFICATION Spec
CONSTANTS
    a = a  b = b  c = c
    Columns = {a, b, c}
    Original <- TwoColumns
    PrimaryKeys <- SingleKeys
    MaxRetries = 2
    MaxCommits = 2
    MaxAlterations = 1
    Disciplines = {FALSE}
INVARIANTS NothingPassedUnread
