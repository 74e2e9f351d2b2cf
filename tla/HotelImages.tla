----------------------------- MODULE HotelImages -----------------------------
(***************************************************************************)
(* The photo list that hotel-images.ts makes up from a hotel's id.         *)
(*                                                                         *)
(* A 32-bit number is a pair of halves, high and low, so that its wrapping *)
(* is exact although TLC's own integers are no wider.                      *)
(***************************************************************************)
EXTENDS Naturals, Sequences

SHARED_IMAGE_COUNT == 8

HalfWord == 65536

Words == (0 .. HalfWord - 1) \X (0 .. HalfWord - 1)

\* (hash * 31 + code) | 0
HashStep(hash, code) ==
    LET low == 31 * hash[2] + code
    IN  << (31 * hash[1] + low \div HalfWord) % HalfWord, low % HalfWord >>

Negative(word) == word[1] >= HalfWord \div 2

\* The magnitude of a word in two's complement.  That of the least number, which
\* no positive 32-bit number has, is kept: Math.abs works on doubles.
Abs(word) ==
    IF ~ Negative(word) THEN word
    ELSE << (HalfWord - word[1] - (IF word[2] = 0 THEN 0 ELSE 1)) % HalfWord,
            (HalfWord - word[2]) % HalfWord >>

Remainder(word, m) == ((word[1] % m) * (HalfWord % m) + (word[2] % m)) % m

\* An id is the sequence of its character codes.
HashId(text) ==
    LET hash[i \in 0 .. Len(text)] ==
            IF i = 0 THEN <<0, 0>> ELSE HashStep(hash[i - 1], text[i])
    IN  Abs(hash[Len(text)])

\* Mutant: four to nine photos.
CountToNine(seed) == 4 + Remainder(seed, SHARED_IMAGE_COUNT - 2)

PhotoCount(seed) == 4 + Remainder(seed, SHARED_IMAGE_COUNT - 3)

\* The number in the path of the i-th photo, from 0.
Photo(seed, i) == ((Remainder(seed, SHARED_IMAGE_COUNT) + i) % SHARED_IMAGE_COUNT) + 1

Gallery(seed) == [i \in 1 .. PhotoCount(seed) |-> Photo(seed, i - 1)]

HotelImages(text) == Gallery(HashId(text))

-----------------------------------------------------------------------------
\* Whatever the hash wraps to, the least number included, a gallery has four to
\* eight photos, all of which exist and no two of which are the same.
GallerySound(gallery) ==
    /\ Len(gallery) \in 4 .. SHARED_IMAGE_COUNT
    /\ \A i \in DOMAIN gallery : gallery[i] \in 1 .. SHARED_IMAGE_COUNT
    /\ \A i, j \in DOMAIN gallery : i # j => gallery[i] # gallery[j]
=============================================================================
