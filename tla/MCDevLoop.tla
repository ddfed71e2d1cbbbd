------------------------------ MODULE MCDevLoop ------------------------------
EXTENDS DevLoop
=============================================================================
