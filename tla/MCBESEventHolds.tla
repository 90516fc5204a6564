-------------------------- MODULE MCBESEventHolds --------------------------
EXTENDS BESEventHolds
=============================================================================
