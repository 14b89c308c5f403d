-------------------------- MODULE MCExtensionsZone --------------------------
(* ExtensionsZone for TLC: one extension, which is in the ring group. *)
EXTENDS ExtensionsZone

CONSTANT n1

MCMembers == {n1}
MCDetails == {[state |-> eOffline, peers |-> {}], [state |-> eIdle, peers |-> {}],
              [state |-> eIdle, peers |-> {eRing, eIncall}]}
=============================================================================
