--------------------------- MODULE MCBrokerRooms ---------------------------
EXTENDS BrokerRooms, TLC
=============================================================================
