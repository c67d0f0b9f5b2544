-------------------------- MODULE MCStarttlsDowngrade -------------------------
\* Tags are interchangeable: the machine only compares them.
EXTENDS StarttlsDowngrade, TLC

MCSymmetry == Permutations(Tags)
===============================================================================
