-------------------------- MODULE MCSourceCoordinator --------------------------
EXTENDS SourceCoordinator, TLC

\* A vanity path in two spellings, a package of its root, a URL to which that root
\* is deduced, in two spellings, and a malformed path.
SmallPaths == {"v.org/p", "V.org/p", "v.org/p/x", "https://h/U", "https://h/u", "h/"}
SmallVanity == {"v.org/p", "V.org/p", "v.org/p/x"}
SmallFold ==
    [x \in SmallPaths \cup {"ssh://h/U", "ssh://h/u"} |->
        CASE x = "V.org/p" -> "v.org/p"
          [] x = "https://h/U" -> "https://h/u"
          [] x = "ssh://h/U" -> "ssh://h/u"
          [] OTHER -> x]
SmallRoot ==
    [p \in SmallPaths |-> CASE p = "v.org/p/x" -> "v.org/p"
                          [] p = "https://h/U" -> "h/U"
                          [] p = "https://h/u" -> "h/u"
                          [] OTHER -> p]
SmallAbove == [p \in SmallPaths |-> IF p = "v.org/p/x" THEN <<p, "v.org/p">> ELSE <<p>>]
\* Known hosts are tried with several schemes; metadata has one URL.
SmallSources ==
    [p \in SmallPaths |->
        CASE p = "https://h/U" -> <<"https://h/U", "ssh://h/U">>
          [] p = "https://h/u" -> <<"https://h/u", "ssh://h/u">>
          [] OTHER -> <<"https://h/U">>]
SmallInfos ==
    {<<p, "ctHTTPMetadata">> : p \in SmallPaths} \cup {<<"git", "ctListVersions">>}
        \cup {<<u, "ctValidateLocal">> : u \in {"https://h/U", "https://h/u", "ssh://h/U", "ssh://h/u"}}
NoInfo == <<>>
=============================================================================
