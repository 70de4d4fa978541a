------------------------- MODULE MC_HTTPTransport ---------------------------
(* Instantiates HTTPTransport for TLC: two requests in flight, each to any *)
(* of the configured routes, with any of the configured Accept headers.    *)
EXTENDS HTTPTransport, TLC

\* Requests are interchangeable.
MCSymmetry == Permutations(Requests)
=============================================================================
