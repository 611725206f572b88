---------------------------- MODULE MCLibraries ----------------------------
(* The objects of src/crypto and of src/utilities side by side, for one    *)
(* run of TLC.  They share no state: a behaviour uses one of them and      *)
(* leaves the others as they were made.                                    *)
EXTENDS BlockHash, Sponge, StreamCipher, SecureRandom, PrimeFields,
    Signatures, CircularBuffer

VARIABLE used       \* the object this behaviour is about

libraryVars == <<hashVars, spongeVars, cipherVars, randomVars, fieldVars,
                 pointVars, exchangeVars, signatureVars, bufVars, used>>

LibraryInit ==
    /\ HashInit /\ SpongeInit /\ CipherInit /\ RandomInit /\ FieldInit /\ BufInit
    /\ PointInit /\ ExchangeInit /\ SignatureInit
    /\ used \in {"hash", "sponge", "cipher", "random", "field", "curve", "buffer"}
    /\ used # "hash" => keyed = Plain
    /\ used # "sponge" => kind = [name |-> "sha3", variant |-> 1]
    /\ used # "cipher" => cipher = "aes_ctr"
    /\ used # "field" => field = [name |-> "F25519", prime |-> 0]
    /\ used # "curve" => curve.name = "ed448"
    /\ used # "buffer" => capacity = 1 /\ buffer[0] = 0

OthersKept(mine) ==
    /\ UNCHANGED used /\ used = mine
    /\ mine # "hash" => UNCHANGED hashVars
    /\ mine # "sponge" => UNCHANGED spongeVars
    /\ mine # "cipher" => UNCHANGED cipherVars
    /\ mine # "random" => UNCHANGED randomVars
    /\ mine # "field" => UNCHANGED fieldVars
    /\ mine # "curve" => UNCHANGED <<pointVars, exchangeVars, signatureVars>>
    /\ mine # "buffer" => UNCHANGED bufVars

\* Of a curve, one point, one exchange or one signature.
CurveNext ==
    \/ exchange = <<>> /\ signed = <<>> /\ UNCHANGED <<exchangeVars, signatureVars>> /\ PointNext
    \/ point = NeutralPoint /\ signed = <<>> /\ UNCHANGED <<pointVars, signatureVars>> /\ Exchange
    \/ point = NeutralPoint /\ exchange = <<>> /\ UNCHANGED <<pointVars, exchangeVars>> /\ SignatureNext

LibraryNext ==
    \/ OthersKept("hash") /\ HashNext
    \/ OthersKept("sponge") /\ SpongeNext
    \/ OthersKept("cipher") /\ CipherNext
    \/ OthersKept("random") /\ RandomNext
    \/ OthersKept("field") /\ FieldNext
    \/ OthersKept("curve") /\ CurveNext
    \/ OthersKept("buffer") /\ BufNext

\* The fairness of BufSpec.
LibrarySpec ==
    /\ LibraryInit /\ [][LibraryNext]_libraryVars
    /\ WF_libraryVars(OthersKept("buffer") /\ (WriteChunk \/ ReadChunk))

\* Two variants of each function, with the rates 6 and 4, and a third digest
\* length that is more than its rate, 2.
MCKind == {[name |-> "sha3", variant |-> v] : v \in 1 .. 3}
    \cup {[name |-> "shake", variant |-> v] : v \in 1 .. 2}
    \cup {[name |-> "kmac", variant |-> v] : v \in 0 .. 1}

\* 13 and the others have their highest bit in different bytes, and 16 only
\* that one; the operands lie at the modulus, at twice it and at the top.
MCPrimes == {13, 16, 19, 29}
MCOperands25519 == {1, 2044, 2047, 4089}
MCOperands448 == {1, 15, 127, 224, 238, 239, 255}

\* Primes of the residues of the code's, and on each a curve whose order is 8
\* (or 4) times a prime, with base points of that prime order.
MCCurves == {
    [name |-> "ed25519", prime |-> 29, width |-> 5, d |-> 27, order |-> 5, base |-> <<2, 23>>, tiny |-> 3,
     k24 |-> 1, u |-> 9, ladderBits |-> 7],
    [name |-> "ed448", prime |-> 23, width |-> 5, d |-> 7, order |-> 7, base |-> <<8, 21>>, tiny |-> 4,
     k24 |-> 4, u |-> 2, ladderBits |-> 8]}

\* A counter that starts at zero, one that carries soon, one that overflows.
MCNonces == {<<0, 0, 0>>, <<1, 2, 1>>, <<2, 2, 2>>}
=============================================================================
