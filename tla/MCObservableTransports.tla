----------------------- MODULE MCObservableTransports -----------------------
\* ObservableTransports on the bodies of MCBodies.
EXTENDS ObservableTransports, MCBodies
=============================================================================
