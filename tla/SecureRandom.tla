----------------------------- MODULE SecureRandom -----------------------------
(* secure_random (random.cpp): a generator over the ChaCha20 block         *)
(* function.  The first words of a block are exclusive-ored into the key   *)
(* that made it, the others are output; entropy is exclusive-ored into the *)
(* key as well.  The block function is symbolic: its words name the state  *)
(* they were made from, so that two blocks agree when their states do.     *)
EXTENDS SymbolicBytes

CONSTANTS
    KeyWords,       \* STATE_KEY_LENGTH, half of a block
    CounterValues,  \* values of a counter word (2^32 in the code)
    RandomPieces,   \* words of a request or of entropy
    MaxBlocks       \* blocks made

ASSUME RandomAssumption ==
    /\ {KeyWords, CounterValues, MaxBlocks} \subseteq Nat \ {0}
    /\ RandomPieces \subseteq Nat

VARIABLES
    seed,           \* m_state: the key and the two counter words
    stream,         \* m_stream, both halves
    blocks,         \* blocks made so far
    given           \* words handed to callers

randomVars == <<seed, stream, blocks, given>>

OutWord(state, i) == {<<"word", state, i>>}

----------------------------------------------------------------------------
\* The counter as the code steps it: the loop over the two words increments
\* the first one each time round.
Bumped(counter) == [counter EXCEPT ![1] = (@ + 1) % CounterValues]
Stepped(counter) ==
    LET once == Bumped(counter) IN IF once[1] # 0 THEN once ELSE Bumped(once)

\* advanceBlock(); words stand for 32 bits as bytes do elsewhere.
Advanced(s) ==
    LET made == [i \in 1 .. 2 * KeyWords |-> OutWord(s.seed, i)]
    IN [seed |-> [key |-> XoredInto(s.seed.key, 0, SubSeq(made, 1, KeyWords)),
                  counter |-> Stepped(s.seed.counter)],
        stream |-> made, blocks |-> s.blocks + 1, out |-> s.out]

Erased(s) == [s EXCEPT !.stream = Zeros(2 * KeyWords)]
Upper(s) == SubSeq(s.stream, KeyWords + 1, 2 * KeyWords)
Part(length) == IF length < KeyWords THEN length ELSE KeyWords

\* One round of pushEntropy(): c is the context and the data still to come.
PushRound(c) ==
    IF c.rest = <<>> THEN c
    ELSE LET len == Part(Len(c.rest))
             next == Advanced([c.s EXCEPT !.seed.key = XoredInto(@, 0, SubSeq(c.rest, 1, len))])
         IN [s |-> Erased([next EXCEPT !.seed.key = XoredInto(@, 0, Upper(next))]),
             rest |-> SubSeq(c.rest, len + 1, Len(c.rest))]

\* The loop: a round takes a word at least, so it has ended after as many
\* rounds as there are words.
Pushed(s, data) ==
    LET after[n \in 0 .. Len(data)] ==
            IF n = 0 THEN [s |-> s, rest |-> data] ELSE PushRound(after[n - 1])
    IN after[Len(data)].s

\* A generator that hands out the block from its start.
RoundFromStart(c) ==
    IF c.left = 0 THEN c
    ELSE LET next == Advanced(c.s)
         IN [s |-> Erased([next EXCEPT !.out = @ \o SubSeq(next.stream, 1, Part(c.left))]),
             left |-> c.left - Part(c.left)]

\* One round of generate(): c is the context and the words still to come.
GenerateRound(c) ==
    IF c.left = 0 THEN c
    ELSE LET next == Advanced(c.s)
         IN [s |-> Erased([next EXCEPT !.out = @ \o SubSeq(Upper(next), 1, Part(c.left))]),
             left |-> c.left - Part(c.left)]

Generated(s, length) ==
    LET after[n \in 0 .. length] ==
            IF n = 0 THEN [s |-> s, left |-> length] ELSE GenerateRound(after[n - 1])
    IN after[length].s

----------------------------------------------------------------------------
RandomInit ==
    /\ seed = [key |-> Zeros(KeyWords), counter |-> <<0, 0>>]
    /\ stream = Zeros(2 * KeyWords) /\ blocks = 0 /\ given = <<>>

Now == [seed |-> seed, stream |-> stream, blocks |-> blocks, out |-> given]
Becomes(s) == seed' = s.seed /\ stream' = s.stream /\ blocks' = s.blocks /\ given' = s.out

\* pushEntropy(data, length) and generate(buffer, length)
PushEntropy(n) == Becomes(Pushed(Now, Supplied("entropy", 0, n))) /\ blocks' <= MaxBlocks
GenerateWords(n) == Becomes(Generated(Now, n)) /\ blocks' <= MaxBlocks

RandomNext == \E n \in RandomPieces : PushEntropy(n) \/ GenerateWords(n)
RandomSpec == RandomInit /\ [][RandomNext]_randomVars

----------------------------------------------------------------------------
Tokens(words) == UNION Range(words)

\* What was given out is nowhere in the generator: neither in the key that
\* makes the blocks to come, nor in the stream buffer, and no word is given
\* out twice.
OutputApart ==
    /\ Tokens(given) \cap (Tokens(seed.key) \cup Tokens(stream)) = {}
    /\ \A i, j \in DOMAIN given : given[i] = given[j] => i = j
=============================================================================
