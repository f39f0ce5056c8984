----------------------------- MODULE MCPairing -----------------------------
\* Pairing on small sets of phones, QRs and instants.
EXTENDS Pairing, TLC

\* Phones are interchangeable.
Phones == Permutations(Keys)

=============================================================================
