------------------------------ MODULE MCLaunch ------------------------------
(* Instances of Launch: families of options, each free in what its run asks    *)
(* about and fixed in the rest.                                                *)
EXTENDS Launch

Default == [user |-> FALSE, uidmap |-> TRUE, seccomp |-> FALSE, demand |-> FALSE,
            backend |-> "auto", composed |-> "auto", firewall |-> TRUE, mode |-> "enforce",
            tiers |-> {}, inherited |-> {}]

\* Every way to select, probe, compose or refuse.
BackendConfigs ==
  {[Default EXCEPT !.user = u, !.uidmap = m, !.demand = d, !.backend = b, !.composed = c,
                   !.seccomp = s] :
     u, m, d, s \in BOOLEAN, b \in {"auto", "bwrap", "unshare", "other"},
     c \in {"auto", "on", "off", "other"}}

\* The tiers under every launch shape, nested launches among them.
TierConfigs ==
  {[Default EXCEPT !.user = u, !.seccomp = s, !.tiers = t, !.firewall = f, !.inherited = i] :
     u, s, f \in BOOLEAN, t \in SUBSET {"fs", "net"}, i \in SUBSET {"mark", "mapped"}}

\* The firewall, switched and in its three modes.
FirewallConfigs ==
  {[Default EXCEPT !.firewall = f, !.mode = m, !.tiers = t] :
     f \in BOOLEAN, m \in {"enforce", "warn", "disabled"}, t \in SUBSET {"net"}}

AllConfigs == BackendConfigs \cup TierConfigs \cup FirewallConfigs
AllLoaders == {Tiers}
AnyLoaders == SUBSET Tiers
=============================================================================
