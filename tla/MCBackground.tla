---------------------------- MODULE MCBackground ----------------------------
(* TLC instance: a profile may be moved between two pairs of folders of which
   one lies inside the other.                                               *)
EXTENDS Background, TLC

Local(path) == [namespace |-> "local", path |-> path]
Pair == {Local(<<"photos">>), Local(<<"backup">>)}
NestedPair == {Local(<<"photos", "2024">>), Local(<<"archive">>)}

TwoPairs == {Pair, NestedPair}

SchedulerSymmetry == Permutations(Schedulers)
=============================================================================
