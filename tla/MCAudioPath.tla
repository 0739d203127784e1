----------------------------- MODULE MCAudioPath -----------------------------
EXTENDS AudioPath
=============================================================================
