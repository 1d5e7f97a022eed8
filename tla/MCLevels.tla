------------------------------- MODULE MCLevels -------------------------------
EXTENDS Levels, TLC

\* Keys above and below each other, a gap, a delete mark that is later in a bottom table.
MCBatches == << {{<<2, FALSE>>}, {<<3, FALSE>>}},
                {{<<1, FALSE>>, <<3, TRUE>>}},
                {{<<2, FALSE>>}} >>

MCIngestKeys == {{2}}

MCDeleteRanges == {<<1, 3>>}

Symmetry == Permutations(Workers)
=============================================================================
