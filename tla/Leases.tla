------------------------------- MODULE Leases -------------------------------
(***************************************************************************)
(* What the store promises about the machines: a table of leases with a    *)
(* saved copy.  A lease is the id and the address of a machine; a change   *)
(* is of one lease, which is given with a fresh id and a free address, or  *)
(* withdrawn; the saved copy follows the table or stays, and all that can  *)
(* happen to the table otherwise is to become the saved copy again.        *)
(***************************************************************************)
EXTENDS Maps

CONSTANTS Machines, Addresses, Ids

VARIABLES table,   \* the leases, by machine
          saved,   \* what is left of them when the process ends
          given    \* the ids that were ever given

vars == <<table, saved, given>>

Init == table = Empty /\ saved = Empty /\ given = {}

(* The table becomes t and is saved, or is not; or the process dies before. *)
Commit(t) ==
    \/ table' = t /\ saved' \in {saved, t}
    \/ table' = saved /\ UNCHANGED saved

Grant(m, id, ip) ==
    /\ m \notin DOMAIN table
    /\ id \notin given
    /\ \A n \in DOMAIN table : table[n].ip # ip
    /\ given' = given \cup {id}
    /\ Commit(Put(table, m, [id |-> id, ip |-> ip]))

Withdraw(m) ==
    /\ m \in DOMAIN table
    /\ Commit(Delete(table, m))
    /\ UNCHANGED given

(* A call that is not about the leases saves them, too; the process restarts. *)
Keep == Commit(table) /\ UNCHANGED given

Next ==
    \/ Keep
    \/ \E m \in Machines : Withdraw(m)
    \/ \E m \in Machines, id \in Ids, ip \in Addresses : Grant(m, id, ip)

Spec == Init /\ [][Next]_vars
=============================================================================
