---------------------------- MODULE MCHubSettings ---------------------------
(***************************************************************************)
(* Instances of HubSettings for TLC: the boundaries of the range, a pair   *)
(* in the wrong order, the default pair, and two legal ones.               *)
(***************************************************************************)
EXTENDS HubSettings

CONSTANTS x1, x2, alice, bob

MCAddresses == {x1, x2}
MCOwners == {alice, bob}

MCTimeouts == {999, 1000, 30000, 60000, 300000, 300001}
Timing(d, m) == [default |-> d, max |-> m]

MCConfigs ==
  {Timing(1000, 60000), Timing(60000, 300000), Timing(999, 60000),
   Timing(1000, 300001), Timing(60000, 30000), Timing(30000, 30000)}
=============================================================================
