----------------------------- MODULE MCLogTail -----------------------------
EXTENDS LogTail
=============================================================================
