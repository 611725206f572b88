---------------------------- MODULE SymbolicBytes ----------------------------
(* Bytes as the hashes and ciphers of src/crypto move them.  The block     *)
(* functions themselves (SHA-2 compression, Keccak-f, ChaCha20 and AES)    *)
(* are not computed: each is taken to be a function of everything it       *)
(* reads, and the bytes it yields are tokens that name the input.  A byte  *)
(* is the set of tokens that are exclusive-ored in it, the empty set is 0. *)
(* What is left is what the code around a block function does: where it    *)
(* puts bytes, when it calls the function, and what remains in a buffer.   *)
EXTENDS Integers, SequencesExt

Zero == {}
Xor(a, b) == (a \ b) \cup (b \ a)

\* A byte with a numeric value, a constant of an algorithm.
Number(n) == IF n = 0 THEN Zero ELSE {<<"number", n>>}

\* ub::crypto::secureZero, memset(..., 0, ...)
Zeros(n) == [i \in 1 .. n |-> Zero]

\* std::memcpy(buffer + at, data, length) on arrays numbered from 1.
CopiedInto(buffer, at, data) ==
    [i \in DOMAIN buffer |-> IF i - at \in DOMAIN data THEN data[i - at] ELSE buffer[i]]

\* ub::crypto::exclusiveOr(dst + at, data, length), no gamma: dst is one of
\* the operands.
XoredInto(buffer, at, data) ==
    [i \in DOMAIN buffer |->
        IF i - at \in DOMAIN data THEN Xor(data[i - at], buffer[i]) ELSE buffer[i]]

\* ub::crypto::exclusiveOr(dst, src, length, gamma)
Combined(src, gamma) == [i \in DOMAIN src |-> Xor(src[i], gamma[i])]

\* Fresh bytes a caller supplies: the n bytes that follow position at.
Supplied(name, at, n) == [i \in 1 .. n |-> {<<name, at + i>>}]
=============================================================================
