-------------------------------- MODULE MCRun --------------------------------
EXTENDS RunProperties
=============================================================================
