------------------------------ MODULE GpuLease ------------------------------
(***************************************************************************)
(* What owned batches promise: a context's GPU work runs on a lease of      *)
(* things that exist, and nothing on lease is ever taken away.              *)
(***************************************************************************)
CONSTANT Clients

VARIABLES
  exists,  \* things that may be accessed
  lease    \* lease[c]: what the running work of c may access

leaseVars == <<exists, lease>>

LeaseInit == exists = {} /\ lease = [c \in Clients |-> {}]

\* Work starts on existing things, one piece of work per client.
Begin(c) ==
  /\ lease[c] = {} /\ lease'[c] # {} /\ lease'[c] \subseteq exists
  /\ lease' = [lease EXCEPT ![c] = lease'[c]]
  /\ UNCHANGED exists

End(c) ==
  /\ lease[c] # {}
  /\ lease' = [lease EXCEPT ![c] = {}]
  /\ UNCHANGED exists

Provide == exists \subseteq exists' /\ UNCHANGED lease

\* Only what no running work may access is destroyed.
Destroy ==
  /\ exists' \subseteq exists
  /\ \A c \in Clients : lease[c] \subseteq exists'
  /\ UNCHANGED lease

LeaseNext == Provide \/ Destroy \/ \E c \in Clients : Begin(c) \/ End(c)

LeaseSpec == LeaseInit /\ [][LeaseNext]_leaseVars
=============================================================================
