------------------------------- MODULE MCNet -------------------------------
(* Instances of Net for TLC. *)
EXTENDS Net

OneRole ==
    {{"serve"}, {"connect"}, {"serve", "legacy"}, {"connect", "legacy"},
     {"serve", "tell"}, {"connect", "tell"}, {"connect", "legacy", "tell"},
     {"serve", "hear"}, {"connect", "hear"}, {}}

EachUse == {{}, {"dns", "user"}, {"dhcp"}, {"ping"}, {"user", "arp"}}
====
