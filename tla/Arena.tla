-------------------------------- MODULE Arena --------------------------------
(***************************************************************************)
(* FVizArena.c: allocation from a chain of blocks that is reset as a whole.*)
(* A block's storage starts wherever the system allocator put it.          *)
(***************************************************************************)
EXTENDS Integers, Sequences, SequencesExt, FiniteSets, FiniteSetsExt

CONSTANTS
    BlockSize, Sizes, Alignments,
    Bases,           \* addresses, modulo the largest alignment, of a block's storage
    MaxBlocks        \* bound: the system allocator refuses more

VARIABLES
    blocks,          \* the chain: [base, storage, used]
    current,         \* number of the current block, 0 for NULL
    usedBytes, reservedBytes,
    live             \* ghost: allocations since the last reset

arenaVars == <<blocks, current, usedBytes, reservedBytes, live>>

Init ==
    /\ blocks = <<>> /\ current = 0
    /\ usedBytes = 0 /\ reservedBytes = 0
    /\ live = {}

AlignUp(x, alignment) == ((x + alignment - 1) \div alignment) * alignment

\* Where an allocation would start in a block.
Offset(b, alignment) == AlignUp(b.base + b.used, alignment) - b.base

\* fviz_arena_try_allocate
Fits(b, size, alignment) ==
    LET offset == Offset(b, alignment) IN offset <= b.storage /\ size <= b.storage - offset

NewBlock(base, size, alignment) ==
    LET required == size + alignment - 1
    IN  [base |-> base, used |-> 0,
         storage |-> IF BlockSize < required THEN required ELSE BlockSize]

\* The allocation from block i of chain.
Take(chain, i, size, alignment) ==
    LET offset == Offset(chain[i], alignment) IN
    /\ blocks' = [chain EXCEPT ![i].used = offset + size]
    /\ current' = i
    /\ usedBytes' = usedBytes + size
    /\ live' = live \cup {[block |-> i, offset |-> offset, size |-> size, alignment |-> alignment]}

\* From the current block on, never back.
Candidates(size, alignment) ==
    {i \in (IF current = 0 THEN 1 ELSE current) .. Len(blocks) : Fits(blocks[i], size, alignment)}

AllocateInBlock(size, alignment) ==
    /\ Candidates(size, alignment) # {}
    /\ Take(blocks, Min(Candidates(size, alignment)), size, alignment)
    /\ UNCHANGED reservedBytes

AllocateBlock(size, alignment, base) ==
    LET block == NewBlock(base, size, alignment) IN
    /\ Candidates(size, alignment) = {} /\ Len(blocks) < MaxBlocks
    /\ Take(Append(blocks, block), Len(blocks) + 1, size, alignment)
    /\ reservedBytes' = reservedBytes + block.storage

\* The search has left current behind the last block; the next one starts over.
AllocateFails(size, alignment) ==
    /\ Candidates(size, alignment) = {}
    /\ current' = 0
    /\ UNCHANGED <<blocks, usedBytes, reservedBytes, live>>

Rewound(chain) == [i \in DOMAIN chain |-> [chain[i] EXCEPT !.used = 0]]

Reset ==
    /\ blocks' = Rewound(blocks)
    /\ current' = IF blocks = <<>> THEN 0 ELSE 1
    /\ usedBytes' = 0 /\ live' = {}
    /\ UNCHANGED reservedBytes

Trim ==
    /\ blocks # <<>>
    /\ blocks' = Rewound(SubSeq(blocks, 1, 1))
    /\ reservedBytes' = blocks[1].storage
    /\ current' = 1 /\ usedBytes' = 0 /\ live' = {}

Next ==
    \/ \E size \in Sizes, alignment \in Alignments :
        \/ AllocateInBlock(size, alignment) \/ AllocateFails(size, alignment)
        \/ \E base \in Bases : AllocateBlock(size, alignment, base)
    \/ Reset
    \/ Trim

-----------------------------------------------------------------------------
\* What the arena has given out since it was last reset is aligned, lies inside its
\* block and overlaps nothing else it gave out, and the statistics count it exactly.
Disjoint ==
    /\ \A a \in live :
        /\ (blocks[a.block].base + a.offset) % a.alignment = 0
        /\ a.offset + a.size <= blocks[a.block].storage
    /\ \A a, b \in live :
        a # b /\ a.block = b.block
            => a.offset + a.size <= b.offset \/ b.offset + b.size <= a.offset
    /\ usedBytes = FoldSet(LAMBDA a, sum : sum + a.size, 0, live)
    /\ reservedBytes = FoldLeft(LAMBDA sum, b : sum + b.storage, 0, blocks)
=============================================================================
