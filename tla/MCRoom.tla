------------------------------- MODULE MCRoom -------------------------------
(* Bounds of the model-checking run of module Room. *)
EXTENDS Room

\* Bound: in a behaviour with a VPN switch no connection is opened, since
\* neither handler reads what the other sets, and one client at most joins again.
SwitchesAreApart ==
  toggles > 0 =>
    \A c, d \in Clients : opened[c] = 0 /\ (c # d => stays[c] + stays[d] <= 3)
=============================================================================
