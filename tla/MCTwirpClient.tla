---------------------------- MODULE MCTwirpClient ----------------------------
\* TwirpClient with one transport to register and two objects of fetchOptions.
EXTENDS TwirpClient

SmallNames == {"ORIGINAL", "FETCH", "DEFAULT", "RXJS"}

SmallOptions == {"shared", "bare"}

SmallWithHeaders == {"shared"}
=============================================================================
