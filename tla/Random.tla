-------------------------------- MODULE Random --------------------------------
(* The random number generator of src/src/utils.c: a counter of two words    *)
(* that is multiplied and stepped, of which a word is drawn. The shifts of   *)
(* the real generator, of 64 bits and words of 32, are in the proportions    *)
(* its design gives them for other words.                                    *)
EXTENDS Int128

CONSTANT Multiplier  \* what the counter is multiplied by: 1 more than a multiple of 4

StateSize == Base * Base

\* How many of the highest bits of the counter tell how far the drawn word is rotated: 5 for 32
RotationBits == CHOOSE n \in 0..WordBits : PowerOfTwo[n] = WordBits

Rng(state, inc, bits, length) ==
    [state |-> state, inc |-> inc, coin_flip_cache_bits |-> bits, coin_flip_cache_length |-> length]

Drawn(value, rng) == [value |-> value, rng |-> rng]

\* The exclusive or of two counters, word by word
XorOf(s, t) == (((s \div Base) ^^ (t \div Base)) * Base) + ((s % Base) ^^ (t % Base))

gp_random(rng) ==
    LET old == rng.state
        xorshifted == (XorOf(old \div PowerOfTwo[(RotationBits + WordBits) \div 2], old)
                          \div PowerOfTwo[WordBits - RotationBits]) % Base
        rot == old \div PowerOfTwo[2 * WordBits - RotationBits]
    IN  Drawn(Right(xorshifted, rot) | Left(xorshifted, (0 - rot) % WordBits),
              [rng EXCEPT !.state = (old * Multiplier + rng.inc) % StateSize])

\* The increment is made odd, and the first two words are thrown away.
gp_random_state_seed(init, stream) ==
    LET first == gp_random(Rng(0, ((stream * 2) % StateSize) | 1, 0, 0)).rng
    IN  gp_random([first EXCEPT !.state = (first.state + init) % StateSize]).rng

\* The slip leaves a flip that was made in the cache.
Flip_Kept(rng) ==
    LET full == IF rng.coin_flip_cache_length # 0 THEN rng
                ELSE LET drawn == gp_random(rng)
                     IN  [drawn.rng EXCEPT !.coin_flip_cache_bits = drawn.value,
                                           !.coin_flip_cache_length = WordBits]
    IN  Drawn(full.coin_flip_cache_bits & 1,
              [full EXCEPT !.coin_flip_cache_length = @ - 1])

\* A bound of 2: the bits of one word are WordBits flips.
Flip(rng) ==
    LET full == IF rng.coin_flip_cache_length # 0 THEN rng
                ELSE LET drawn == gp_random(rng)
                     IN  [drawn.rng EXCEPT !.coin_flip_cache_bits = drawn.value,
                                           !.coin_flip_cache_length = WordBits]
    IN  Drawn(full.coin_flip_cache_bits & 1,
              [full EXCEPT !.coin_flip_cache_bits = @ \div 2, !.coin_flip_cache_length = @ - 1])

\* Words below the threshold are drawn again.
Threshold(bound) == ((0 - bound) % Base) % bound

Rngs == [state : Nat, inc : Nat, coin_flip_cache_bits : Nat, coin_flip_cache_length : Nat]

Redraw(first, bound) ==
    LET draw[rng \in Rngs] ==
            LET drawn == gp_random(rng)
            IN  IF drawn.value >= Threshold(bound) THEN Drawn(drawn.value % bound, drawn.rng)
                ELSE draw[drawn.rng]
    IN  draw[first]

gp_random_bound(rng, bound) ==
    IF bound = 2 THEN Flip(rng)
    ELSE IF PowerOf2(bound)
    THEN LET drawn == gp_random(rng) IN Drawn(drawn.value & (bound - 1), drawn.rng)
    ELSE Redraw(rng, bound)

\* min and max are signed words, and what is added to them is not.
gp_random_range(rng, min, max) ==
    LET drawn == gp_random_bound(rng, ((max % Base) - min) % Base)
    IN  Drawn(Signed((drawn.value + min) % Base), drawn.rng)

=============================================================================
