----------------------------- MODULE MCSwosConfig ------------------------------
(* Model-checking instance of SwosConfig.  "alone": one caller, many starts and *)
(* documents; "access": one that changes only the ports management is allowed   *)
(* from; "together": two callers with a few documents.                          *)
EXTENDS SwosConfig

Tables == UNION {[vs -> SUBSET {1}] : vs \in SUBSET {1, 2}}
SwitchOf(table, mode, recv, vlan) ==
    [vlan |-> table,
     fwd  |-> [p \in Ports |-> [mode |-> IF p = 1 THEN mode ELSE "disabled", recv |-> recv, dvid |-> 1, force |-> FALSE]],
     link |-> [p \in Ports |-> TRUE],
     snmp |-> "old",
     sys  |-> [vlan |-> vlan, ports |-> Ports]]
TheTable == 1 :> {1} @@ 2 :> {1}

Nothing == <<>>
Apply == [kind |-> "apply", vlans |-> None, ports |-> Nothing, snmp |-> None, system |-> Nothing,
          prune |-> TRUE, include |-> TRUE, accept |-> FALSE, dryRun |-> FALSE]
Settings == {"mode" :> "strict", "mode" :> "enabled", "mode" :> "disabled", "recv" :> "only_tagged",
             "dvid" :> 2, "dvid" :> 2 @@ "mode" :> "strict", "force" :> TRUE, "on" :> FALSE}
Systems == {"vlan" :> 0, "vlan" :> 2, "ports" :> {2}, "ports" :> {2} @@ "vlan" :> 0}
Documents ==
    {[Apply EXCEPT !.vlans = t, !.ports = ps] : t \in Tables, ps \in {Nothing} \cup {1 :> s : s \in Settings}}
      \cup {[Apply EXCEPT !.vlans = t, !.system = s] : t \in Tables, s \in Systems}
      \cup {[Apply EXCEPT !.system = s] : s \in Systems}
      \cup {[Apply EXCEPT !.ports = 1 :> ps, !.system = s] : ps \in Settings, s \in Systems}
Blob(endpoint) == [Apply EXCEPT !.kind = "blob"] @@ [endpoint |-> endpoint]

MCStarts ==
    [alone    |-> {SwitchOf(t, m, r, v) : t \in Tables, m \in {"strict", "enabled", "disabled"},
                                          r \in {"any", "only_tagged"}, v \in {0, 1}},
     access   |-> {[SwitchOf(TheTable, "strict", "any", 1) EXCEPT !.sys.ports = {1}]},
     together |-> {SwitchOf(TheTable, "strict", "any", 0)}]
MCAsks ==
    [alone    |-> [a |-> Documents \cup {[d EXCEPT !.accept = TRUE] : d \in Documents}, b |-> {}],
     access   |-> [a |-> {[Apply EXCEPT !.system = "ports" :> {2}]}, b |-> {}],
     together |-> [a |-> {[Apply EXCEPT !.vlans = 2 :> {1}, !.prune = FALSE, !.snmp = "new"],
                          [Apply EXCEPT !.vlans = 2 :> {1}, !.ports = 1 :> ("dvid" :> 2), !.accept = TRUE],
                          [Apply EXCEPT !.system = "vlan" :> 2, !.include = FALSE, !.dryRun = TRUE],
                          [Apply EXCEPT !.ports = 1 :> ("force" :> TRUE), !.snmp = "new", !.dryRun = TRUE]},
                   b |-> {[Blob("fwd") EXCEPT !.ports = 1 :> ("mode" :> "enabled")],
                          [Blob("snmp") EXCEPT !.snmp = "other"],
                          [Blob("link") EXCEPT !.ports = 1 :> ("on" :> FALSE), !.dryRun = TRUE],
                          [Apply EXCEPT !.vlans = 1 :> {1}, !.accept = TRUE]}]]
=============================================================================
