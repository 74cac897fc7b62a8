--------------------------- MODULE MCFetchStream ---------------------------
\* FetchStream on the bodies of MCBodies.
EXTENDS FetchStream, MCBodies
============================================================================
