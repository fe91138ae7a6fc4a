--------------------------- MODULE MCClientServer ---------------------------
EXTENDS ClientServer

MCMaxMsgs == [c \in Clients |-> IF c = 0 THEN 2 ELSE 1]
=============================================================================
