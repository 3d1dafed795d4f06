--------------------------- MODULE MCEnetInterrupt ---------------------------
EXTENDS EnetInterrupt

CONSTANTS c1, c2

=============================================================================
