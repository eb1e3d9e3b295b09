---------------------------- MODULE MCCertReload ----------------------------
EXTENDS CertReload

(* The pair to begin with and the one it is renewed to. *)
CONSTANTS p1, p2

Pairs == {p1, p2}
=============================================================================
