----------------------------- MODULE MCWatcher -----------------------------
(* Small instances of Watcher for TLC. *)
EXTENDS Watcher

(* The defaults (1 success, 2 failures) and a host that is slow to recover. *)
Default == [success |-> 1, failure |-> 2, delay |-> FALSE]
Eager == [success |-> 2, failure |-> 1, delay |-> TRUE]

(* The identities of the loops are interchangeable. *)
Symmetry == Permutations(Loops)

MCConfigs == {Default, Eager}

(* Thresholds of one keep the instance with store faults small. *)
MCFastConfigs == {[success |-> 1, failure |-> 1, delay |-> d] : d \in BOOLEAN}

=============================================================================
