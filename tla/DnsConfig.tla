----------------------------- MODULE DnsConfig -----------------------------
(***************************************************************************)
(* How zebrafish-dns finds its upstream: the configuration file or the      *)
(* defaults (main.rs, config.rs), the URL and the bootstrap addresses, and  *)
(* the connector that uses them in place of the system's resolver (doh.rs). *)
(*                                                                         *)
(* A URL is its host and whether it names a port; an address is the host    *)
(* whose server listens there and whether it is one of IPv6, or NotIp for   *)
(* an entry that does not parse.                                            *)
(***************************************************************************)
EXTENDS Naturals, Sequences

CONSTANTS
  Cloudflare,   \* cloudflare-dns.com
  NotIp,
  NoUrl,        \* custom_url is not set
  Unreadable    \* no file, or one that does not parse

Ip(host, v6) == [host |-> host, v6 |-> v6]

ASSUME ConfigAssumption == \A v6 \in BOOLEAN : Ip(Cloudflare, v6) # NotIp

CloudflareUrl == [host |-> Cloudflare, port |-> FALSE]

\* 1.1.1.1 first; the others, of both kinds, are all Cloudflare's.
Default ==
  [ provider   |-> "cloudflare",
    custom_url |-> NoUrl,
    providers  |-> [p \in {"cloudflare"} |-> [url |-> CloudflareUrl,
                                              bootstrap |-> <<Ip(Cloudflare, FALSE), Ip(Cloudflare, TRUE)>>]] ]

\* A configuration that cannot be read is replaced as a whole.
load(file) == IF file = Unreadable THEN Default ELSE file

doh_url(config) ==
  CASE config.provider = "custom" ->
         IF config.custom_url = NoUrl THEN CloudflareUrl ELSE config.custom_url
    [] config.provider \in DOMAIN config.providers ->
         config.providers[config.provider].url
    [] OTHER -> CloudflareUrl

\* Broken variant: an unknown provider has no addresses.
KnownOnly(config) ==
  IF config.provider \in DOMAIN config.providers
  THEN config.providers[config.provider].bootstrap
  ELSE << >>

\* Any URL of the user's own goes with Cloudflare's address.
bootstrap_addrs(config) ==
  IF config.provider # "custom" /\ config.provider \in DOMAIN config.providers
  THEN config.providers[config.provider].bootstrap
  ELSE <<Ip(Cloudflare, FALSE)>>

\* DohClient::new keeps the entries that parse, here by their place in the list.
SocketAddrs(config) ==
  {i \in DOMAIN bootstrap_addrs(config) : bootstrap_addrs(config)[i] # NotIp}

\* Of those the connector takes the first, whatever becomes of it.
First(config) == CHOOSE i \in SocketAddrs(config) : \A j \in SocketAddrs(config) : i <= j

\* BootstrapConnector compares the host of the request with the URL up to its
\* first slash, which holds the port when there is one; only when they agree, and
\* with an address that makes an authority, does it do without the system's
\* resolver.  An IPv6 address is written without brackets and makes none.
Bootstrapped(config) ==
  /\ ~doh_url(config).port /\ SocketAddrs(config) # {}
  /\ ~bootstrap_addrs(config)[First(config)].v6

\* TLS insists on the name of the URL.
CanConnect(config) ==
  bootstrap_addrs(config)[First(config)].host = doh_url(config).host
=============================================================================
