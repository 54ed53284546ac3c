-------------------------- MODULE MCRecoveryAttempt --------------------------
EXTENDS RecoveryAttempt, TLC
\* Three calls, so that a creator, the call that fences it and a third one that
\* reuses the session interleave; two tokens, so that a creation is refused and
\* made again.
Symmetry == Permutations(Call) \union Permutations(Token)
===============================================================================
