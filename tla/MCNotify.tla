----------------------------- MODULE MCNotify -----------------------------
(* A small instance of Notify for TLC. *)
EXTENDS Notify, TLC

CONSTANTS mail, chat, hook

MCClients == <<mail, chat, hook>>
Both == Broadcasts

(* Every host alerts two of the three channels, or (an empty list) all. *)
SomeAlerts == [h \in Hosts |-> {mail, hook}]
AllAlerts == [h \in Hosts |-> {}]

=============================================================================
