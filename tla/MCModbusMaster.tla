--------------------------- MODULE MCModbusMaster ---------------------------
EXTENDS ModbusMaster
=============================================================================
