--------------------------- MODULE MCInvestigation ---------------------------
EXTENDS Investigation, TLC
\* Two calls, so that an owner and the call that fences, reconciles or overtakes
\* it interleave at every step; the tokens are fresh, hence alike.
Symmetry == Permutations(Call) \union Permutations(Token)
===============================================================================
