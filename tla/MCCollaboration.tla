--------------------------- MODULE MCCollaboration ---------------------------
(* Collaboration on a small incident: metrics sees a tunnel; the tunnel      *)
(* depends on a VPN connection only config can explain; the evidence on it   *)
(* names a TGW route table that config can be asked about as well.  When     *)
(* routing sees the table by itself, it asks config in the same round.       *)
EXTENDS Collaboration, TLC

CONSTANTS metrics, routing, config, tunnel, vpn, table

TheSeen == (metrics :> {tunnel}) @@ (routing :> {table}) @@ (config :> {})
TheFindable == (metrics :> {tunnel}) @@ (routing :> {table}) @@ (config :> {vpn, table})
TheNamed == (tunnel :> {}) @@ (vpn :> {table}) @@ (table :> {})
TheReach == (tunnel :> {tunnel, vpn}) @@ (vpn :> {vpn}) @@ (table :> {table})
TheProbes == (tunnel :> {metrics}) @@ (vpn :> {config}) @@ (table :> {config})
=============================================================================
