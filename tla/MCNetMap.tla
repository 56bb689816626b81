------------------------------ MODULE MCNetMap ------------------------------
(* A laptop and two machines called nas, a subnet and the default route. *)
EXTENDS NetMap, TLC

Names == {"laptop", "nas"}
NamesDenote ==
    [e \in Names |-> IF e = "laptop" THEN Machines \cap {1} ELSE Machines \ {1}]

(* "Pc" and "pc!": both are pc to the DNS. *)
OneLabel == [m \in Machines |-> "pc"]

Prefixes == {"lan", "default"}

(* Everything, or laptops to the nas. *)
LaptopsToNas == {[src |-> {"laptop"}, dst |-> {"nas"}]}
TwoPolicies == {{}, LaptopsToNas}

(* To a nas: nothing, the subnet, all. *)
ForNas == {[device |-> "nas", routes |-> R] : R \in {{}, {"lan"}, Prefixes}}

Client == [advertise |-> {}, accept |-> TRUE, exit |-> {3}]
Router == [advertise |-> {"lan"}, accept |-> TRUE, exit |-> {}]
Gateway == [advertise |-> {"lan", "default"}, accept |-> TRUE, exit |-> {}]
Selfish == [advertise |-> {"lan", "default"}, accept |-> FALSE, exit |-> {}]

(* The laptop and one nas come and go; the agent of the other does not run now. *)
Usual == <<{Client}, {}, {Gateway, Selfish}>>
Routers == [m \in Machines |-> {Client, Router}]

(* A new server, and one at which both nas have served the subnet before. *)
NewFile == {Empty}
OldFile ==
    {(2 :> [advertised |-> {"lan"}, approved |-> {"lan"}])
     @@ (3 :> [advertised |-> Prefixes, approved |-> {"lan"}])}
=============================================================================
