------------------------------ MODULE ScopeLock ------------------------------
(***************************************************************************)
(* Peer Scope Locks: the value of the registry that says which directory   *)
(* trees active runs own, PeerScopeLockRegistry, and its two operations.   *)
(* A run takes all its scopes in one step or none, and gives them back by  *)
(* its token when its lease is dropped.                                    *)
(*                                                                         *)
(* Data.  A scope is a namespace (the local machine, or one server,        *)
(* account and port) and a path in it, a sequence of path components that  *)
(* normalize_path and normalize_remote_path have already cleaned.          *)
(* next_token, a 64-bit counter, is a natural number.                      *)
(***************************************************************************)
EXTENDS Integers, Sequences, FiniteSets

NoLeases == [next |-> 0, held |-> {}]

StartsWith(p, q) ==
  /\ Len(q) <= Len(p)
  /\ SubSeq(p, 1, Len(q)) = q

(* Faulty variant: only a held tree that contains the requested one counts. *)
HeldContains(s, t) == s.namespace = t.namespace /\ StartsWith(s.path, t.path)

Overlaps(s, t) ==
  /\ s.namespace = t.namespace
  /\ StartsWith(s.path, t.path) \/ StartsWith(t.path, s.path)

(* acquire with these scopes is an error, EmptyScopes or Conflict. *)
Refused(reg, wanted) ==
  \/ wanted = {}
  \/ \E s \in wanted : \E h \in reg.held : Overlaps(s, h.scope)

Grant(reg, run, wanted) ==
  LET token == reg.next + 1
  IN  [next |-> token,
       held |-> reg.held \cup {[scope |-> s, owner |-> run, token |-> token] : s \in wanted}]

GiveBack(reg, token) == [reg EXCEPT !.held = {h \in reg.held : h.token # token}]
=============================================================================
