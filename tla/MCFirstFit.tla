----------------------------- MODULE MCFirstFit ----------------------------
EXTENDS FirstFitTop
=============================================================================
