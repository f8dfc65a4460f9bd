------------------------------ MODULE MCKPool ------------------------------
EXTENDS KPool
TwoRequests == 0 .. 1
=============================================================================
