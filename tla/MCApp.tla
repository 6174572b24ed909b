------------------------------- MODULE MCApp -------------------------------
(* A small instance of App for TLC. *)
EXTENDS App

CONSTANTS a, b, both, one, odd, torn

(* Two good versions that differ in the definition of a and in having b,    *)
(* one that Validate rejects, one that cannot be parsed.                    *)
MCKind == [v \in Versions |-> IF v = odd THEN "invalid"
                              ELSE IF v = torn THEN "broken" ELSE "good"]
MCDef == [v \in Versions |-> [h \in Hosts |->
           IF v \in {both, one} /\ h = a THEN v
           ELSE IF v = both THEN "b" ELSE None]]

=============================================================================
