----------------------------- MODULE StreamCipher -----------------------------
(* The stream ciphers of src/crypto: chacha20 (chacha20.cpp), which keeps  *)
(* one block of key stream ahead, and aes_ctr (aes.cpp), which makes a     *)
(* block when its first byte is needed.  Both exclusive-or a text that     *)
(* comes in pieces of any length.  Their block functions are symbolic.     *)
EXTENDS SymbolicBytes

CONSTANTS
    CipherBlock,    \* state_t::LENGTH, aes::BLOCK
    Base,           \* values of a byte of the AES counter (256 in the code)
    Words,          \* values of the ChaCha20 block counter (2^32 in the code)
    Nonces,         \* AES nonces: sequences of CipherBlock digits
    CipherPieces,   \* lengths of pieces
    MaxText         \* bytes processed after one init

ASSUME CipherAssumption ==
    /\ {CipherBlock, Base, Words, MaxText} \subseteq Nat \ {0}
    /\ CipherPieces \subseteq Nat
    /\ Nonces \subseteq [1 .. CipherBlock -> 0 .. Base - 1]

VARIABLES
    cipher,         \* "chacha20" or "aes_ctr"
    m_counter,      \* the counter block: key and nonce with it
    m_stream,       \* the block of key stream
    m_streamPos,    \* the next byte of it, m_streamPtr of chacha20
    begun,          \* [key, nonce] in use, <<>> before init() and after it failed
    done,           \* bytes processed since
    last            \* what the last call made of its source

cipherVars == <<cipher, m_counter, m_stream, m_streamPos, begun, done, last>>

\* The key stream block that a block function makes of key, nonce and count.
KeyStream(input) == [i \in 1 .. CipherBlock |-> {<<"stream", input, i>>}]

----------------------------------------------------------------------------
(* chacha20.                                                              *)

\* processBlock(): the stream for the counter, then the next counter.
ChaChaBlock(c) == [stream |-> KeyStream(c), counter |-> [c EXCEPT !.block = (@ + 1) % Words]]

\* How much of the rest the block of key stream is good for.
Share(c) == IF Len(c.rest) < CipherBlock - c.pos THEN Len(c.rest) ELSE CipherBlock - c.pos

\* exclusiveOr(dst, src, len, m_stream + m_streamPos) and the steps forward.
Combine(c, len) ==
    LET gamma == SubSeq(c.stream, c.pos + 1, c.pos + len)
    IN [c EXCEPT !.dst = @ \o Combined(SubSeq(c.rest, 1, len), gamma),
                 !.rest = SubSeq(@, len + 1, Len(@))]

\* One round of process(): c is the context, the text it has produced in this
\* call and the text still to come.
ChaChaRound(c) ==
    LET len == Share(c)
        next == ChaChaBlock(c.counter)
    IN IF c.pos + len < CipherBlock THEN [Combine(c, len) EXCEPT !.pos = c.pos + len]
       ELSE [Combine(c, len) EXCEPT !.pos = 0, !.stream = next.stream, !.counter = next.counter]

----------------------------------------------------------------------------
(* aes_ctr.                                                               *)

\* The carry loop of process(): the last byte is incremented, and every byte
\* before it whose followers have all become zero.
Incremented(counter) ==
    [i \in DOMAIN counter |->
        IF \A j \in i + 1 .. CipherBlock : (counter[j] + 1) % Base = 0
        THEN (counter[i] + 1) % Base ELSE counter[i]]

\* A counter that loses the carry.
AesNextByte(c) == [c EXCEPT !.nonce[CipherBlock] = (@ + 1) % Base]

\* The counter is one big-endian number: the carry runs from its last byte.
AesNext(c) == [c EXCEPT !.nonce = Incremented(@)]

\* One round of process(): a block is made when its first byte is needed.
AesRound(c) ==
    LET ready == IF c.pos = 0 THEN [c EXCEPT !.stream = KeyStream(c.counter),
                                             !.counter = AesNext(@)]
                              ELSE c
        len == Share(c)
    IN [Combine(ready, len) EXCEPT !.pos = (c.pos + len) % CipherBlock]

----------------------------------------------------------------------------
(* The loop of process(): a round takes a byte at least.                  *)

CipherRound(c) ==
    IF c.rest = <<>> THEN c
    ELSE IF cipher = "chacha20" THEN ChaChaRound(c) ELSE AesRound(c)

Processed(c) ==
    LET after[n \in 0 .. Len(c.rest)] == IF n = 0 THEN c ELSE CipherRound(after[n - 1])
    IN after[Len(c.rest)]

----------------------------------------------------------------------------
CipherInit ==
    /\ cipher \in {"chacha20", "aes_ctr"}
    /\ m_counter = <<>> /\ m_stream = Zeros(CipherBlock) /\ m_streamPos = 0
    /\ begun = <<>> /\ done = 0 /\ last = <<>>

\* chacha20::init(key, nonce), with the nonce as bytes or as a number: the
\* block counter starts at zero and the first block is made at once.
ChaChaInit(id) ==
    LET first == ChaChaBlock([key |-> id, nonce |-> id, block |-> 0])
    IN /\ cipher = "chacha20"
       /\ m_counter' = first.counter /\ m_stream' = first.stream /\ m_streamPos' = 0
       /\ begun' = <<[key |-> id, nonce |-> id]>> /\ done' = 0 /\ last' = <<>>
       /\ UNCHANGED cipher

\* aes_ctr::init(key, nonce, keyLength) with a key of a good length; the
\* stream keeps an old block until the first byte is asked for.
AesInit(id, nonce) ==
    /\ cipher = "aes_ctr"
    /\ m_counter' = [key |-> id, nonce |-> nonce] /\ m_streamPos' = 0
    /\ begun' = <<[key |-> id, nonce |-> nonce]>> /\ done' = 0 /\ last' = <<>>
    /\ UNCHANGED <<cipher, m_stream>>

\* aes_ctr::init() with a key of any other length: aes::init() has erased the old
\* key, the counter and the stream stay.  The caller is told, and processes
\* nothing before an init() that succeeds.
AesReject ==
    /\ cipher = "aes_ctr"
    /\ begun' = <<>> /\ done' = 0 /\ last' = <<>>
    /\ UNCHANGED <<cipher, m_counter, m_stream, m_streamPos>>

\* aes_ctr::reset()
AesReset ==
    /\ cipher = "aes_ctr"
    /\ m_counter' = <<>> /\ m_stream' = Zeros(CipherBlock) /\ m_streamPos' = 0
    /\ begun' = <<>> /\ done' = 0 /\ last' = <<>>
    /\ UNCHANGED cipher

\* process(dst, src, length), to encrypt or to decrypt, in place or not.
Process(n) ==
    LET src == Supplied("text", done, n)
        t == Processed([stream |-> m_stream, counter |-> m_counter, pos |-> m_streamPos,
                        dst |-> <<>>, rest |-> src])
    IN /\ begun # <<>> /\ done + n <= MaxText
       /\ m_counter' = t.counter /\ m_stream' = t.stream /\ m_streamPos' = t.pos
       /\ done' = done + n /\ last' = <<[from |-> done, dst |-> t.dst]>>
       /\ UNCHANGED <<cipher, begun>>

CipherNext ==
    \/ \E id \in 1 .. 2 : ChaChaInit(id)
    \/ \E id \in 1 .. 2, nonce \in Nonces : AesInit(id, nonce)
    \/ AesReject
    \/ AesReset
    \/ \E n \in CipherPieces : Process(n)
CipherSpec == CipherInit /\ [][CipherNext]_cipherVars

----------------------------------------------------------------------------
(* RFC 8439 and SP 800-38A: the key stream as one sequence of blocks.     *)

\* A number and its digits, most significant first; a number too large for
\* CipherBlock digits has its last ones.
Value(digits) ==
    LET upTo[i \in 0 .. CipherBlock] == IF i = 0 THEN 0 ELSE upTo[i - 1] * Base + digits[i]
    IN upTo[CipherBlock]
Digits(n) ==
    LET over[k \in 0 .. CipherBlock] == IF k = 0 THEN n ELSE over[k - 1] \div Base
    IN [i \in 1 .. CipherBlock |-> over[CipherBlock - i] % Base]

CounterBlock(b) ==
    IF cipher = "chacha20"
    THEN [key |-> begun[1].key, nonce |-> begun[1].nonce, block |-> b % Words]
    ELSE [key |-> begun[1].key, nonce |-> Digits(Value(begun[1].nonce) + b)]

\* The key stream at a place of the whole text, and what the text becomes.
StreamAt(at) == KeyStream(CounterBlock(at \div CipherBlock))[(at % CipherBlock) + 1]
Wanted(at) == Xor({<<"text", at + 1>>}, StreamAt(at))

\* Every byte that is returned is the byte of the text combined with the byte
\* of the key stream at its place in the whole text: whatever the pieces,
\* across the ends of blocks, carries of the counter and its overflow, and
\* after an earlier text that ended in the middle of a block.
CipherRight ==
    \A call \in ToSet(last) : \A i \in DOMAIN call.dst :
        call.dst[i] = Wanted(call.from + (i - 1))
=============================================================================
