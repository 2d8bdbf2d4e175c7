-------------------------------- MODULE MCTCP --------------------------------
EXTENDS TCP

CONSTANTS h1, h2

TwoFromActive == [h \in Hosts |-> IF h \in Active THEN 2 ELSE 0]
OneFromActive == [h \in Hosts |-> IF h \in Active THEN 1 ELSE 0]
=============================================================================
