-------------------------- MODULE ScopeLockRegistry --------------------------
(***************************************************************************)
(* What one Peer Scope Lock registry promises the threads that share it:   *)
(* the abstract specification that the runs of Background implement.       *)
(***************************************************************************)
EXTENDS ScopeLock

CONSTANTS
  Requests,   \* the sets of peer scopes runs ask for
  Owners      \* the runs that own leases

VARIABLES
  registry,   \* the value behind the mutex of PeerScopeLockRegistry
  leases      \* the tokens of the PeerScopeLock values not dropped yet

lockVars == <<registry, leases>>

Init ==
  /\ registry = NoLeases
  /\ leases = {}

acquire(run, wanted) ==
  /\ ~Refused(registry, wanted)
  /\ registry' = Grant(registry, run, wanted)
  /\ leases' = leases \cup {registry.next + 1}

(* Drop for PeerScopeLock. *)
release(token) ==
  /\ registry' = GiveBack(registry, token)
  /\ leases' = leases \ {token}

(* The process ends; the next one begins with a new registry. *)
exit ==
  /\ registry' = NoLeases
  /\ leases' = {}

Next ==
  \/ \E run \in Owners, wanted \in Requests : acquire(run, wanted)
  \/ \E token \in leases : release(token)
  \/ exit

Spec == Init /\ [][Next]_lockVars

-----------------------------------------------------------------------------
HeldScope == [scope : UNION Requests, owner : Owners, token : Nat \ {0}]

LockTypeOK ==
  /\ registry \in [next : Nat, held : SUBSET HeldScope]
  /\ leases \subseteq 1..registry.next

(* Every scope of the registry belongs to a lease that is not dropped yet,
   and every such lease owns one: release takes back its own scopes only,
   and no lease outlives its scopes (acquire, Drop for PeerScopeLock).     *)
HeldByLease == {h.token : h \in registry.held} = leases

(* Two leases never own trees of which one contains the other, whatever
   order runs acquire and drop them in (acquire).                          *)
HeldDisjoint ==
  \A g, h \in registry.held : g.token # h.token => ~Overlaps(g.scope, h.scope)
=============================================================================
