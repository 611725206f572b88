------------------------------ MODULE BlockHash ------------------------------
(* sha256 and sha512 (sha2_sha256.cpp, sha2_sha512.cpp, sha2_common.cpp)   *)
(* and the HMAC over them (hmac.hpp).  The two classes differ in numbers   *)
(* and words, given here as constants; the compression of a block is       *)
(* symbolic: the chaining value names the blocks compressed so far.        *)
(*                                                                         *)
(* One object is used again and again, as a hash or as a MAC, and is fed   *)
(* in pieces of any length.                                                *)
EXTENDS SymbolicBytes

CONSTANTS
    Block,          \* hash::BLOCK
    Trailer,        \* TRAILER_SHAxxx, at least the five bytes that are written
    Output,         \* hash::OUTPUT
    Pieces,         \* lengths of the pieces a caller passes
    KeyLengths,     \* lengths of HMAC keys
    MaxMessage,     \* longest message
    MaxUses         \* messages hashed with one object

ASSUME BlockHashAssumption ==
    /\ {Block, Trailer, Output, MaxMessage, MaxUses} \subseteq Nat \ {0}
    /\ Trailer \in 5 .. Block - 1 /\ Output <= Block
    /\ Pieces \subseteq Nat /\ KeyLengths \subseteq Nat

VARIABLES
    m_hash,         \* the hash context: m_block, m_state, m_totalBytes
    m_key,          \* hmac::m_key
    keyed,          \* the key of the MAC in progress, Plain for an object that
                    \* is a hash, Unkeyed for an HMAC that awaits init()
    fed,            \* bytes passed since the last start
    uses,           \* which message this is
    answer          \* the digest last returned, <<>> otherwise

hashVars == <<m_hash, m_key, keyed, fed, uses, answer>>

Plain == <<{<<"hash", 0>>}>>
Unkeyed == <<{<<"mac", 0>>}>>

----------------------------------------------------------------------------
(* The hash.                                                              *)

\* m_state is the sequence of blocks compressed into it.
EmptyHash == [block |-> Zeros(Block), state |-> <<>>, total |-> 0]

ProcessBlock(h) == [h EXCEPT !.state = Append(@, h.block)]

\* One round of update(): c is the context and the data still to come.
UpdateRound(c) ==
    IF c.rest = <<>> THEN c
    ELSE LET used == c.h.total % Block
             len == IF Len(c.rest) < Block - used THEN Len(c.rest) ELSE Block - used
             next == [c.h EXCEPT !.block = CopiedInto(@, used, SubSeq(c.rest, 1, len)),
                                 !.total = @ + len]
         IN [h |-> IF next.total % Block = 0 THEN ProcessBlock(next) ELSE next,
             rest |-> SubSeq(c.rest, len + 1, Len(c.rest))]

\* The loop: a round takes a byte at least, so it has ended after as many
\* rounds as there are bytes.
Update(h, data) ==
    LET after[n \in 0 .. Len(data)] ==
            IF n = 0 THEN [h |-> h, rest |-> data] ELSE UpdateRound(after[n - 1])
    IN after[Len(data)].h

\* Whether the trailer still goes into the block.
TrailerFits(used) == used + Trailer <= Block

\* The trailer of a code that trusts the block to be clear.
WithTrailerUncleared(block, used, total) ==
    IF ~TrailerFits(used) THEN block
    ELSE [block EXCEPT ![Block] = Number((total * 8) % 256),
                       ![Block - 1] = Number(total \div 32)]

\* writeSHA2Trailer(): the rest of the block is cleared in any case; the bit
\* count takes five bytes, enough for a count of bytes in 32 bits.
WithTrailer(block, used, total) ==
    LET high == total \div 32
        cleared == [i \in DOMAIN block |-> IF i > used THEN Zero ELSE block[i]]
    IN IF ~TrailerFits(used) THEN cleared
       ELSE [cleared EXCEPT ![Block] = Number((total * 8) % 256),
                            ![Block - 1] = Number(high % 256),
                            ![Block - 2] = Number((high \div 2^8) % 256),
                            ![Block - 3] = Number((high \div 2^16) % 256),
                            ![Block - 4] = Number((high \div 2^24) % 256)]

\* finish(): the digest; the object is reset afterwards.
DigestOf(state) == [i \in 1 .. Output |-> {<<"digest", state, i>>}]
Finish(h) ==
    LET used == (h.total % Block) + 1
        ended == CopiedInto(h.block, used - 1, <<Number(128)>>)
        first == ProcessBlock([h EXCEPT !.block = WithTrailer(ended, used, h.total)])
        last == IF TrailerFits(used) THEN first
                ELSE ProcessBlock([first EXCEPT !.block = WithTrailer(@, 0, h.total)])
    IN DigestOf(last.state)

----------------------------------------------------------------------------
(* HMAC.                                                                  *)

IPad == {<<"number", 54>>}
OPad == {<<"number", 92>>}
MaskKey(key, pad) == [i \in DOMAIN key |-> Xor(key[i], pad)]

\* A key block that keeps what was there.
KeyBlockOver(key) == CopiedInto(m_key, 0,
               IF Len(key) > Block THEN Finish(Update(EmptyHash, key)) ELSE key)

\* init(): the key block before it is masked.
KeyBlock(key) ==
    CopiedInto(Zeros(Block), 0,
               IF Len(key) > Block THEN Finish(Update(EmptyHash, key)) ELSE key)

\* finish(): I_PAD ^ O_PAD turns the inner key into the outer one.
OuterKey(key) == MaskKey(key, Xor(IPad, OPad))
MacFinish(h, key) ==
    Finish(Update(Update(EmptyHash, OuterKey(key)), Finish(h)))

----------------------------------------------------------------------------
HashInit ==
    /\ m_hash = EmptyHash /\ m_key = Zeros(Block)
    /\ keyed \in {Plain, Unkeyed} /\ fed = <<>> /\ uses = 1 /\ answer = <<>>

\* hmac::init(key, length), at any moment.
HmacInit(n) ==
    LET key == Supplied("key", 100 * uses, n)
    IN /\ keyed # Plain
       /\ m_key' = MaskKey(KeyBlock(key), IPad)
       /\ m_hash' = Update(EmptyHash, m_key')
       /\ keyed' = key /\ fed' = <<>> /\ answer' = <<>>
       /\ uses < MaxUses /\ uses' = uses + 1

\* reset() of the hash, or of the MAC, which forgets its key as well.
HashReset ==
    /\ m_hash' = EmptyHash /\ m_key' = Zeros(Block)
    /\ keyed' = IF keyed = Plain THEN Plain ELSE Unkeyed
    /\ fed' = <<>> /\ answer' = <<>>
    /\ uses < MaxUses /\ uses' = uses + 1

\* update(data, length) of either.
HashUpdate(n) ==
    LET data == Supplied("message", 100 * uses + Len(fed), n)
    IN /\ keyed # Unkeyed /\ Len(fed) + n <= MaxMessage
       /\ m_hash' = Update(m_hash, data) /\ fed' = fed \o data /\ answer' = <<>>
       /\ UNCHANGED <<m_key, keyed, uses>>

\* finish(digest) of a hash: the context is empty again.  The answer is kept
\* beside what was hashed.
HashFinish ==
    /\ keyed = Plain /\ uses <= MaxUses
    /\ answer' = <<[of |-> fed, key |-> keyed, digest |-> Finish(m_hash)]>>
    /\ m_hash' = EmptyHash /\ fed' = <<>> /\ uses' = uses + 1
    /\ UNCHANGED <<m_key, keyed>>

\* hmac::finish(mac): the key is left masked for the outer hash, so that the
\* object has to be initialized before its next message.
HmacFinish ==
    /\ keyed \notin {Plain, Unkeyed} /\ uses <= MaxUses
    /\ answer' = <<[of |-> fed, key |-> keyed, digest |-> MacFinish(m_hash, m_key)]>>
    /\ m_hash' = EmptyHash /\ m_key' = OuterKey(m_key)
    /\ keyed' = Unkeyed /\ fed' = <<>> /\ uses' = uses + 1

HashNext ==
    \/ \E n \in KeyLengths : HmacInit(n)
    \/ \E n \in Pieces : HashUpdate(n)
    \/ HashReset \/ HashFinish \/ HmacFinish
HashSpec == HashInit /\ [][HashNext]_hashVars

----------------------------------------------------------------------------
(* The definitions of FIPS 180-4 and RFC 2104, of a message as a whole.   *)

\* The bits of the length, in big-endian bytes: byte p from the end of 8 * n,
\* which five bytes hold for messages as long as the code supports.
LengthByte(n, p) ==
    CASE p = 0 -> (n * 8) % 256
      [] p = 1 -> (n \div 2^5) % 256
      [] p = 2 -> (n \div 2^13) % 256
      [] p = 3 -> (n \div 2^21) % 256
      [] p = 4 -> (n \div 2^29) % 256
      [] OTHER -> 0
LengthField(n) == [i \in 1 .. Trailer |-> Number(LengthByte(n, Trailer - i))]

\* A one bit, as few zeros as fill whole blocks, the length.
Padded(m) ==
    LET gap == CHOOSE k \in 0 .. Block - 1 : (Len(m) + 1 + k + Trailer) % Block = 0
    IN m \o <<Number(128)>> \o Zeros(gap) \o LengthField(Len(m))

Blocks(m) == [b \in 1 .. Len(m) \div Block |-> SubSeq(m, (b - 1) * Block + 1, b * Block)]

Sha(m) == DigestOf(Blocks(Padded(m)))

Hmac(key, m) ==
    LET short == IF Len(key) > Block THEN Sha(key) ELSE key
        whole == short \o Zeros(Block - Len(short))
    IN Sha(MaskKey(whole, OPad) \o Sha(MaskKey(whole, IPad) \o m))

\* Whatever the pieces a message came in, and whatever the object was used
\* for before, the digest is that of the message: padding and length are
\* right at every fill of the last block, and nothing of an earlier block or
\* an earlier message is left in it.  The same holds of a MAC, for keys
\* shorter than a block, as long and longer.
HashRight ==
    \A a \in ToSet(answer) :
        a.digest = (IF a.key = Plain THEN Sha(a.of) ELSE Hmac(a.key, a.of))
=============================================================================
