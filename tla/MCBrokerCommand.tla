-------------------------- MODULE MCBrokerCommand --------------------------
\* Instances of BrokerCommand for TLC.
EXTENDS BrokerCommand

CONSTANTS c1, c2, f1, s1

OneChange  == {c1}
TwoChanges == {c1, c2}
OneFlush   == {f1}
OneShow    == {s1}
None       == {}
=============================================================================
