------------------------- MODULE MCSyncWordCorrelator -------------------------
EXTENDS SyncWordCorrelator

\* The header is the length; the register is wider, as it has to be for a
\* coded one.
MCFrameLength == [h \in 0 .. 3 |-> h]
=============================================================================
