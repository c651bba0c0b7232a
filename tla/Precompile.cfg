\* Every precompile; MODEXP with every small input and with lengths at the limits.
SPECIFICATION Spec
CONSTANTS
    Recoverable <- MCRecoverable
    OnCurve <- MCOnCurve
    PairsToOne <- MCPairsToOne
    Calls <- MCCalls
    WordBytes = 3
    ByteBits = 4
    U64 = 2048
    LimbBytes = 1
    MaxAlloc = 7
    RoundBytes = 1
    BlakeBytes = 5
    EcRecoverGas = 5
    Sha256Gas = 4
    Sha256Word = 2
    RipemdGas = 6
    RipemdWord = 3
    IdentityGas = 2
    IdentityWord = 1
    Bn256AddGas = 4
    Bn256MulGas = 6
    PairingGas = 7
    PairingPairGas = 8
    MinModexpGas = 2
INVARIANTS
    StaysWithinGas
    ShortInputsArePadded
    ModexpComputes
    ModexpPrice
    PanicsOnlyOnHugeLengths
