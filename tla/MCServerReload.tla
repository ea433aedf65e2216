--------------------------- MODULE MCServerReload ---------------------------
(***************************************************************************)
(* Instances of ServerReload: enough generations for a listen address to   *)
(* be removed and added back while its connections drain.                  *)
(***************************************************************************)
EXTENDS ServerReload, TLC

Symmetry == Permutations(Conn)

=============================================================================
