--------------------------- MODULE MCRegistryStore ---------------------------
(* Small instances of RegistryStore for TLC. *)
EXTENDS RegistryStore, TLC

CONSTANTS alice, bob, setup, player, other

\* Two programs of one user, the first of which may write HKLM, and an elevated
\* program of another user.
MCUserOf == (setup :> alice) @@ (player :> alice) @@ (other :> bob)
OneUserOf == (setup :> alice) @@ (player :> alice)
==============================================================================
