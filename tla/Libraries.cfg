\* Hashes, sponges, ciphers, the generator, prime fields, curve points, key exchange, signatures and the ring, each on its own.
SPECIFICATION LibrarySpec
CONSTANTS
    Block = 8
    Trailer = 5
    Output = 4
    Pieces = {0, 1, 2, 7, 9}
    KeyLengths = {0, 3, 8, 9}
    MaxMessage = 40
    MaxUses = 3
    Length = 8
    Unit = 1
    Kind <- MCKind
    SpongePieces = {0, 1, 2, 5}
    SpongeKeys = {0, 1, 2, 3, 4, 32}
    MacLengths = {1, 9, 32}
    MaxFed = 9
    MaxDrawn = 9
    CipherBlock = 3
    Base = 3
    Words = 4
    Nonces <- MCNonces
    CipherPieces = {0, 1, 2, 3, 5}
    MaxText = 20
    KeyWords = 2
    CounterValues = 3
    RandomPieces = {0, 1, 2, 3, 5}
    MaxBlocks = 4
    Bits25519 = 4
    Words25519 = 3
    C = 3
    Bits448 = 2
    Words448 = 4
    ByteBits = 2
    ByteCount = 3
    Primes <- MCPrimes
    Operands25519 <- MCOperands25519
    Operands448 <- MCOperands448
    Curves <- MCCurves
    ScalarBits = 8
    Scalars = {0, 5, 64, 255}
    PrivateKeys = {0, 3, 21, 45, 111, 200, 255}
    Seeds = {45, 111}
    Messages = {"m1", "m2"}
    DigestValues = {0, 1, 13}
    Byte = {0, 1}
    MaxCapacity = 4
    Word = 9
INVARIANTS
    HashRight
    SpongeRight
    CipherRight
    OutputApart
    FieldRight
    PointRight
    SecretRight
    SignatureRight
PROPERTIES
    CallsReturn
    ImplementsQueue
CHECK_DEADLOCK FALSE
