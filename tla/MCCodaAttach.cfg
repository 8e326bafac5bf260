\* One instance: ATTACH statements while other connections change the secrets.
\* Statements stop at their bounds: no deadlock check.
CONSTANTS
    Instances = {i1}
    SecretNames = {n1, n2}
    GivenScopes <- ScopeClauses
    Tokens = {t1, t2}
    Empty = Empty
    NoKey = NoKey
    NoConfig = NoConfig
    NoSecret = NoSecret
    Prefix <- CodaPrefix
    MaxCreates = 4
    Paths <- AttachPaths
    MaxAttaches = 1
SPECIFICATION Spec
INVARIANTS
    TypeOK
    CredentialIsTheDocs
    DocSecretWins
    UnscopedSecretSuffices
    ConfigurationIsThere
SYMMETRY Symmetry
CHECK_DEADLOCK FALSE
