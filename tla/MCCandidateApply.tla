-------------------------- MODULE MCCandidateApply ---------------------------
EXTENDS ApplyProperties, TLC
MCCreates == {2}
=============================================================================
