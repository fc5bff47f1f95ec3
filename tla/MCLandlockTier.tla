---------------------------- MODULE MCLandlockTier ----------------------------
(* Instances of LandlockTier: a small disk, working directories all over it,  *)
(* and hosts that can or cannot do what the tiers need.                        *)
EXTENDS LandlockTier

\* The disk, as the list of what is above each path.
Parents ==
  [root |-> "none", usr |-> "root", tmp |-> "root", home |-> "root", user |-> "home",
   ssh |-> "user", key |-> "ssh", config |-> "user", other |-> "config", jail |-> "config",
   setting |-> "jail", rules |-> "jail", tools |-> "user", venv |-> "tools",
   project |-> "user", source |-> "project", hermes |-> "user", yaml |-> "hermes"]

Nodes == DOMAIN Parents
Chain[p \in Nodes] == IF Parents[p] = "none" THEN {p} ELSE {p} \cup Chain[Parents[p]]
Tree == [p \in Nodes |-> {q \in Nodes : p \in Chain[q]}]

\* TLC keeps the value of a definition, but not of one that a constant stands for.
MCPaths == Nodes
MCUnder == Tree

Without(removed) == Nodes \ UNION {Tree[p] : p \in removed}

\* Everything is there; there is no rules.d; HOME holds no surface at all.
Disks == {Without({}), Without({"rules"}), Without({"ssh", "jail", "hermes"})}

Start(there, at, roots, shut) ==
  [files |-> there, workdir |-> at, derived |-> roots, sealed |-> shut]

Layouts ==
  {Start(f, w, d, {}) : f \in Disks, d \in {{}, {"venv", "tools"}, {"user"}},
                        w \in {"root", "home", "user", "config", "jail", "project"}}
  \cup {Start(Without({}), w, {}, c) : w \in {"root", "home", "config"},
                                       c \in {{"user"}, {"config"}, {"user", "jail"}}}
Usual == Start(Without({"rules"}), "project", {"venv"}, {})
Everything == Layouts \cup {Usual}
MCScenarios == Everything

Host == [by : {"engine", "wrapper"}, on : SUBSET Tiers, abi : {"none", "fs", "net"},
         enforces : SUBSET Tiers, shipped : {{}, Tiers}, readable : SUBSET Tiers,
         needs : {{"usr"}, {"usr", "venv"}, {"usr", "key"}}]
Good(h) == /\ h.on = Tiers /\ h.abi = "net" /\ h.enforces = Tiers /\ h.shipped = Tiers
           /\ h.readable = Tiers
\* What a host lacks it lacks alone, or together with the tiers of its kernel.
Odd(h) == \/ h.abi = "net" /\ h.shipped = Tiers /\ h.readable = Tiers
          \/ h.on = Tiers /\ h.enforces = Tiers
HostsOf == [s \in Everything |->
              IF s = Usual THEN {h \in Host : Odd(h)}
              ELSE {h \in Host : Good(h) /\ h.needs = {"usr", "key"}}]
MCSetups == HostsOf
===============================================================================
