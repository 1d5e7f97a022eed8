------------------------------- MODULE MCBlob -------------------------------
EXTENDS Blob

MCFlushes == <<2, 1>>
=============================================================================
