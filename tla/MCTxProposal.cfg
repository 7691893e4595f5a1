CONSTANTS
    W = 2
    Proposals <- MCProposals
    Signatures <- MCSignatures
    MaxInt = 8
    MaxClicks = 2
SPECIFICATION Spec
INVARIANTS
    TypeOK
    SignsOwnInput
    ChangeAddsUp
    SignatureGoesHome
    PostsMinimalDer
