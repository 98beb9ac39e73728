----------------------------- MODULE MCCertService -----------------------------
(***************************************************************************)
(* CertService for TLC: the handshakes, the calls of set_ca, the usable    *)
(* CAs and the well-formed domains are interchangeable.                    *)
(***************************************************************************)
EXTENDS CertService, TLC

Symmetry ==
  Permutations(Handshakes) \cup Permutations(Setters)
  \cup Permutations(Cas \ Unparsable) \cup Permutations(Domains \ Malformed)
================================================================================
