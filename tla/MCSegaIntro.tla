---------------------------- MODULE MCSegaIntro ----------------------------
\* Small instances of SegaIntro for TLC.
EXTENDS SegaIntro
=============================================================================
