--------------------------- MODULE MCAliyunRegion ---------------------------
EXTENDS AliyunRegion
=============================================================================
