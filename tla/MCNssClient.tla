---------------------------- MODULE MCNssClient ----------------------------
(* NssClient: a program that makes one lookup after the other, of two names *)
(* and through every entry point, beside the server's own.                  *)
EXTENDS NssClient, TLC

CONSTANTS a1, Own

Call(name, via) == [name |-> name, via |-> via]

MCLookups ==
  { Call("n1", "addrinfo"), Call("n2", "inet"), Call("n2", "inet6"),
    Call("n1", "other"), Call(Localhost, "inet"), Call(NotUtf8, "addrinfo") }

MCOwnLookup == Call(Own, "addrinfo")

File(provider, url, providers) ==
  [provider |-> provider, custom_url |-> url, providers |-> providers]

Url(port) == [host |-> Own, port |-> port]
NoProviders == [p \in {} |-> p]

\* Every way the connector can be set up.
MCFiles ==
  { Unreadable,
    File("unknown", NoUrl, NoProviders),
    File("custom", Url(FALSE), NoProviders),
    File("custom", Url(TRUE), NoProviders),
    File("own", NoUrl, "own" :> [url |-> Url(FALSE), bootstrap |-> <<NotIp, Ip(Own, FALSE)>>]),
    File("own", NoUrl, "own" :> [url |-> Url(FALSE), bootstrap |-> <<NotIp>>]),
    File("own", NoUrl, "own" :> [url |-> Url(FALSE),
                                 bootstrap |-> <<Ip(Own, TRUE), Ip(Own, FALSE)>>]) }

\* After a name of 17 bytes and an IPv4 address the list of addresses has to be
\* aligned, and FirstRoom is just what the check asks for.
MCNameLen == [n \in {"n1", "n2", Own, Localhost, NotUtf8} |-> IF n = "n2" THEN 17 ELSE 9]
=============================================================================
