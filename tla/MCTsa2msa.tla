----------------------------- MODULE MCTsa2msa -----------------------------
EXTENDS Tsa2msa

CONSTANTS prefix, maxItems, f1, f2

\* the prefix option and one more named option
MCOtherOptions == {prefix, maxItems}

MCFiles == {f1, f2}
=============================================================================
