----------------------------- MODULE Protocols -----------------------------
(***************************************************************************)
(* What one check of a host can come back with, by the type of the host    *)
(* (pkg/dialer), and when that is a success (types.Host.Status).           *)
(*                                                                         *)
(* An outcome is how far the check got, the code of the response and the   *)
(* body that was received.  The network, the servers and the drivers are   *)
(* external: any error and any answer they can give is possible.           *)
(***************************************************************************)
EXTENDS Integers

CONSTANTS
  Accepted, \* the codes of a success, 200 .. 208 unless configured
  Served    \* the statuses a web server answers with

HostTypes == {"http", "icmp", "tcp", "dns", "redis", "sql", "mongo"}
Stages    == {"address", "network", "session", "answer"}

(* The body of a web server's answer is the expected text, another one that *)
(* is kept, empty, or not kept: longer than 1023 bytes, or cut short.  All  *)
(* else has none.                                                           *)
Bodies == {"text", "other", "empty", "unkept"}
(* What a host wants of the body: nothing, the text, or to be empty.        *)
Expectations == {"any", "text", "empty"}

Outcome(stage, codes, bodies) == [stage : {stage}, code : codes, body : bodies]
Fails(stage, codes) == Outcome(stage, codes, {"none"})
Answers             == Outcome("answer", {200}, {"none"})

(* The last error is any that is none of the others. *)
errorCode == [timeout |-> 522, dial |-> 523, read |-> 521, refused |-> 523,
              other |-> 503]
TransportErrors == {errorCode[e] : e \in DOMAIN errorCode}

(* An answer with any status counts as read, although its body may be cut.  *)
httpCall == Fails("address", {0}) \cup Fails("network", TransportErrors)
              \cup Outcome("answer", Served, Bodies)

tcpCall == Fails("address", {400}) \cup Fails("network", TransportErrors)
             \cup Answers

(* A name that cannot be resolved is a bad address here. *)
icmpCall == Fails("address", {400}) \cup Fails("network", {522}) \cup Answers

(* No records, or not those expected. *)
dnsCall == Fails("address", {400}) \cup Fails("network", TransportErrors)
             \cup Fails("session", {404, 417}) \cup Answers

(* TLS, AUTH, then SELECT and PING. *)
redisCall == Fails("address", {400}) \cup Fails("network", TransportErrors)
               \cup Fails("session", {525, 401, 502}) \cup Answers

(* The first ping logs in; the text of an error tells that it could not.    *)
sqlCall == Fails("address", {400}) \cup Fails("network", TransportErrors)
             \cup Fails("session", {401, 502}) \cup Answers

mongoCallOK == \* mutant: the code is set with OK, before the ping
  Fails("network", {523}) \cup Fails("session", {200}) \cup Answers
(* The state of the replica set, if there is one. *)
mongoCall == Fails("network", {523}) \cup Fails("session", {500, 502, 503})
               \cup Answers

Dial(type) ==
  CASE type = "mongo" -> mongoCall
    [] type = "icmp"  -> icmpCall
    [] type = "tcp"   -> tcpCall
    [] type = "dns"   -> dnsCall
    [] type = "redis" -> redisCall
    [] type = "sql"   -> sqlCall
    [] OTHER          -> httpCall

(* Bytes that were not kept are nil, which compares equal to an empty text. *)
BodyIs(body, expect) ==
  expect \in {"any", body} \/ (expect = "empty" /\ body \in {"unkept", "none"})

Status(o, expect) == o.code \in Accepted /\ BodyIs(o.body, expect)

ASSUME CodesAssumption == Accepted \subseteq Int /\ Served \subseteq 100 .. 999

=============================================================================
