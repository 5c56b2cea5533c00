----------------------------- MODULE MCServices ------------------------------
(***************************************************************************)
(* The services for TLC: a server with a handler of GET and one of POST.    *)
(***************************************************************************)
EXTENDS Services

CONSTANTS h1, p1

Handlers == {<<"GET", "u1">>, <<"POST", "u1">>}
=============================================================================
