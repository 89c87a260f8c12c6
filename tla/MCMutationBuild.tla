--------------------------- MODULE MCMutationBuild ---------------------------
EXTENDS MutationBuild, TLC

CONSTANTS b1, b2, v1

MCBuilders == {b1, b2}
MCVerifiers == {v1}
=============================================================================
