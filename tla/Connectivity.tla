---------------------------- MODULE Connectivity ----------------------------
(***************************************************************************)
(* Does the monitor itself have a network (pkg/connectivity)?  Online asks *)
(* the targets, one asker at a time, and keeps the verdict for a while.    *)
(* Time is in ticks.                                                       *)
(***************************************************************************)
EXTENDS Integers

CONSTANTS
  Ttl,     \* how long a verdict is kept
  Timeout  \* how long the targets are tried

ASSUME ConnectivityAssumption == Ttl \in Nat \ {0} /\ Timeout \in Nat

VARIABLES
  uplink,  \* external: a target can be reached
  mu,      \* is c.mu held, over a probe?
  online,  \* the verdict
  age,     \* of the verdict; Ttl when it is too old, or there is none
  begun,   \* ticks since the probe began
  tried,   \* what uplink was during the probe
  trail    \* history variable: what uplink was so many ticks ago

connVars == <<uplink, mu, online, age, begun, tried, trail>>

(* As far back as a verdict can see: a probe, and a tick less than the Ttl. *)
Horizon == Ttl + Timeout - 1
Recent  == UNION {trail[i] : i \in 0 .. Horizon}

ConnInit ==
  /\ uplink \in BOOLEAN
  /\ mu = FALSE /\ online = TRUE /\ age = Ttl /\ begun = 0 /\ tried = {}
  /\ trail = [i \in 0 .. Horizon |-> {uplink}]

Fresh == age < Ttl

(* Online returns the verdict it kept. *)
Cached == ~mu /\ Fresh /\ UNCHANGED connVars

Probe ==
  /\ ~mu /\ ~Fresh
  /\ mu' = TRUE /\ begun' = 0 /\ tried' = {uplink}
  /\ UNCHANGED <<uplink, online, age, trail>>

ProbedKeepsLock == \* mutant: the lock is not released
  /\ mu
  /\ online' \in tried /\ age' = 0
  /\ begun' = 0 /\ tried' = {}
  /\ UNCHANGED <<uplink, trail, mu>>
(* One target that answers is enough; when none has, at the latest after    *)
(* the timeout, there is no connection.                                     *)
Probed ==
  /\ mu
  /\ online' \in tried /\ age' = 0
  /\ mu' = FALSE /\ begun' = 0 /\ tried' = {}
  /\ UNCHANGED <<uplink, trail>>

(* external *)
Flip ==
  /\ uplink' = ~uplink
  /\ tried' = IF mu THEN tried \cup {uplink'} ELSE tried
  /\ trail' = [trail EXCEPT ![0] = @ \cup {uplink'}]
  /\ UNCHANGED <<mu, online, age, begun>>

OlderUnlessOffline == \* mutant: only a good verdict gets old
  IF online /\ age < Ttl THEN age + 1 ELSE age
Older == IF age < Ttl THEN age + 1 ELSE age

(* A tick.  No probe goes on for longer than its timeout. *)
ConnTick ==
  /\ mu => begun < Timeout
  /\ begun' = IF mu THEN begun + 1 ELSE begun
  /\ age' = Older
  /\ trail' = [i \in 0 .. Horizon |-> IF i = 0 THEN {uplink} ELSE trail[i - 1]]
  /\ UNCHANGED <<uplink, mu, online, tried>>

ConnTypeOK ==
  /\ uplink \in BOOLEAN /\ online \in BOOLEAN /\ mu \in BOOLEAN
  /\ age \in 0 .. Ttl /\ begun \in 0 .. Timeout
  /\ tried \subseteq BOOLEAN
  /\ trail \in [0 .. Horizon -> SUBSET BOOLEAN]

=============================================================================
