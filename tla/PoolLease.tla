------------------------------ MODULE PoolLease ------------------------------
(***************************************************************************)
(* What the pool cache promises, without counters, timers, promises or     *)
(* tunnels: a pool is opened for a connection identity no other live pool  *)
(* serves, is joined only while live, and is retired only when nobody uses *)
(* it.  A retired pool never comes back: its name is only given to a new   *)
(* pool, which starts absent.                                              *)
(***************************************************************************)
CONSTANTS Requests, Keys, Entries

VARIABLES
    serves,  \* the connection identity of each pool
    lease,   \* "absent", "live" or "gone"
    users    \* the requests using each pool

leaseVars == <<serves, lease, users>>

Init ==
    /\ serves \in [Entries -> Keys]
    /\ lease = [e \in Entries |-> "absent"]
    /\ users = [e \in Entries |-> {}]

\* A name that stands for no live pool is given to a pool for identity k.
Assign(e, k) ==
    /\ lease[e] # "live"
    /\ serves' = [serves EXCEPT ![e] = k]
    /\ lease' = [lease EXCEPT ![e] = "absent"]
    /\ UNCHANGED users

Open(e) ==
    /\ lease[e] = "absent"
    /\ \A d \in Entries : serves[d] = serves[e] => lease[d] # "live"
    /\ lease' = [lease EXCEPT ![e] = "live"]
    /\ UNCHANGED <<serves, users>>

Join(r, e) ==
    /\ lease[e] = "live"
    /\ \A d \in Entries : r \notin users[d]
    /\ users' = [users EXCEPT ![e] = @ \cup {r}]
    /\ UNCHANGED <<serves, lease>>

Leave(r, e) ==
    /\ r \in users[e]
    /\ users' = [users EXCEPT ![e] = @ \ {r}]
    /\ UNCHANGED <<serves, lease>>

Retire(e) ==
    /\ lease[e] = "live"
    /\ users[e] = {}
    /\ lease' = [lease EXCEPT ![e] = "gone"]
    /\ UNCHANGED <<serves, users>>

Next ==
    \E e \in Entries :
        \/ \E k \in Keys : Assign(e, k)
        \/ Open(e)
        \/ Retire(e)
        \/ \E r \in Requests : Join(r, e) \/ Leave(r, e)

Spec == Init /\ [][Next]_leaseVars
=============================================================================
