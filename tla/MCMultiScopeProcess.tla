------------------------ MODULE MCMultiScopeProcess ------------------------
EXTENDS MultiScopeProcess
=============================================================================
