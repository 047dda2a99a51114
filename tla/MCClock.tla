------------------------------ MODULE MCClock -------------------------------
EXTENDS Clock

MCErrors == {-8, -3, 0, 1, 6}
=============================================================================
