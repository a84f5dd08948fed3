--------------------------- MODULE MCDetectorPool ---------------------------
EXTENDS DetectorPool
=============================================================================
