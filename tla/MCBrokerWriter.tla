--------------------------- MODULE MCBrokerWriter ---------------------------
EXTENDS BrokerWriter, TLC
=============================================================================
