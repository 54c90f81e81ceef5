--------------------------------- MODULE MCLzfx ---------------------------------
\* Where the runs of Lzfx begin: at every compressed address, with the raw ring far
\* from its end, and at the raw addresses from which four samples cross that end.
EXTENDS Lzfx

MCStarts == {<<1, c>> : c \in MEMORY_SIZE + 1 .. MEMORY_COMPRESSED_MAX}
            \cup {<<a, MEMORY_SIZE + 1>> : a \in MEMORY_SIZE - 4 * SAMPLE_SIZE .. MEMORY_SIZE}

FarFromEnd == {<<1, MEMORY_SIZE + 5>>}

=============================================================================
