---------------------------- MODULE MCProxyServer ----------------------------
(***************************************************************************)
(* ProxyServer for TLC: one configuration, which names binaries and        *)
(* addresses, denies the upgrade to one target and allows the other.       *)
(***************************************************************************)
EXTENDS ProxyServer

CONSTANTS lax, api, site

MCDenied == {<<lax, api>>}
================================================================================
