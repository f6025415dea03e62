---------------------------- MODULE MCFlushLsns ----------------------------
EXTENDS FlushLsns

MCLsn == 1 .. 3
=============================================================================
