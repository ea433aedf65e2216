--------------------------- MODULE MCProxyEndpoint ---------------------------
(***************************************************************************)
(* Instances of ProxyEndpoint: requests that fall back to HTTP/2.          *)
(***************************************************************************)
EXTENDS ProxyEndpoint, TLC

MCProtocols == [r \in Request |-> <<"h3", "h2">>]
Symmetry == Permutations(Request)

=============================================================================
