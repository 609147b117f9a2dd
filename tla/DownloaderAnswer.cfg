CONSTANTS
    MaxAttempts = 3
    pk = pk
    pk2 = pk2
    b2 = b2
    b3 = b3
    c2 = c2
    html = html
    Block <- MCBlock
    Magic <- MCMagic
    Builds <- MCBuilds
    Pages <- MCPages
SPECIFICATION Spec
INVARIANT CompleteAnswerSuffices
