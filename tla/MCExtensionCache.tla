-------------------------- MODULE MCExtensionCache --------------------------
(* ExtensionCache for TLC: two extensions, each offline or in a call. *)
EXTENDS ExtensionCache

CONSTANTS n1, n2

MCNumbers == {n1, n2}
MCDetails == {[state |-> eOffline, peers |-> {}],
              [state |-> eIdle, peers |-> {eRing, eIncall}]}
=============================================================================
