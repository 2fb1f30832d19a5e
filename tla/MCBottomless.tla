---------------------------- MODULE MCBottomless ----------------------------
EXTENDS Bottomless
=============================================================================
