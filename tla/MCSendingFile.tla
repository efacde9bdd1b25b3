--------------------------- MODULE MCSendingFile ----------------------------
EXTENDS SendingFile

SmallSizes == 0 .. 7
=============================================================================
