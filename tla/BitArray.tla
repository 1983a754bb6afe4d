------------------------------ MODULE BitArray ------------------------------
(***************************************************************************)
(* FVizBitArray.c: bits in words.  Words that were allocated and never     *)
(* written hold anything.                                                  *)
(***************************************************************************)
EXTENDS Integers, FiniteSets, FiniteSetsExt

CONSTANTS
    BitsPerWord,     \* 64 in the code
    MaxBits          \* bound on the length

VARIABLES
    words,           \* the bits that are set in memory
    capacity,        \* number of words
    bitCount,
    bits             \* ghost: the bits of an ideal array that are set

bitVars == <<words, capacity, bitCount, bits>>

WordCount(n) == (n + BitsPerWord - 1) \div BitsPerWord
Bits(n) == 0 .. n - 1
Range0(from, to) == from .. to - 1

Init ==
    /\ bitCount = 0 /\ capacity = 1
    /\ words = {} /\ bits = {}

Modify(set, ideal) ==
    /\ words' = set /\ bits' = ideal
    /\ UNCHANGED <<capacity, bitCount>>

Set(i) == Modify(words \cup {i}, bits \cup {i})
Unset(i) == Modify(words \ {i}, bits \ {i})
Clear == Modify({}, {})

\* The bits of the words that hold n bits, without those behind the last one.
Masked(n) ==
    Range0(0, IF n % BitsPerWord = 0 THEN WordCount(n) * BitsPerWord ELSE n)
Unmasked(n) == Range0(0, WordCount(n) * BitsPerWord)

SetAll ==
    /\ bitCount > 0
    /\ Modify((words \ Unmasked(bitCount)) \cup Masked(bitCount), Bits(bitCount))

UnsetAll ==
    /\ bitCount > 0
    /\ Modify(words \ Unmasked(bitCount), {})

\* Words that come into use are zeroed; what is behind the last bit is cut off.
NewWords(n) == Range0(WordCount(bitCount) * BitsPerWord, WordCount(n) * BitsPerWord)
Cut(memory, n) == (memory \ NewWords(n)) \ Range0(n, WordCount(n) * BitsPerWord)

Resize(n, garbage) ==
    /\ capacity' = IF WordCount(n) > capacity THEN WordCount(n) ELSE capacity
    /\ words' = Cut(words \cup garbage, n)
    /\ bitCount' = n
    /\ bits' = bits \cap Bits(n)

Next ==
    \/ \E i \in Bits(bitCount) : Set(i) \/ Unset(i)
    \/ Clear \/ SetAll \/ UnsetAll
    \/ \E n \in 0 .. MaxBits :
        \E garbage \in SUBSET Range0(capacity * BitsPerWord, WordCount(n) * BitsPerWord) :
            Resize(n, garbage)

-----------------------------------------------------------------------------
\* Bits that an array grows by are unset, whatever was in memory and in the bits it
\* had when it was longer, and counting whole words counts none behind the end.
RevealsZeroes ==
    /\ \A i \in Bits(bitCount) : i \in words <=> i \in bits
    /\ Cardinality(words \cap Unmasked(bitCount)) = Cardinality(bits)
=============================================================================
