SPECIFICATION FairSpec
CONSTANTS
    a = a  b = b  c = c
    Columns = {a, b, c}
    Original <- TwoColumns
    PrimaryKeys <- SingleKeys
    MaxRetries = 2
    MaxCommits = 3
    MaxAlterations = 2
    Disciplines = {TRUE, FALSE}
INVARIANTS PassedComplete
PROPERTIES Resumes
