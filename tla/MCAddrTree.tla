----------------------------- MODULE MCAddrTree -----------------------------
(***************************************************************************)
(* Four addresses of three binary digits: 0 and 1 share all but their last *)
(* digit, 2 shares the first digit with them, 5 shares nothing.            *)
(***************************************************************************)
EXTENDS AddrTree

Addresses == {<<0, 0, 0>>, <<0, 0, 1>>, <<0, 1, 0>>, <<1, 0, 1>>}
=============================================================================
