------------------------------- MODULE MCChat -------------------------------
EXTENDS ChatProperties, TLC
=============================================================================
