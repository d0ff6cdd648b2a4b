-------------------------- MODULE MCDripRefinement --------------------------
\* Constants for checking DripRefinement: those of MCDripVault.
EXTENDS MCDripVault, DripRefinement
=============================================================================
