---------------------------- MODULE MCSupervisor ----------------------------
(* Two servers: one built from source whose ports a worker holds, one detached. *)
EXTENDS Supervisor

CONSTANTS a, b

MCServer   == {a, b}
MCPort     == {1, 2, 3}
MCDeclared == [s \in {a, b} |-> IF s = a THEN {1} ELSE {2}]

\* Both servers, one of them disabled, or the other one alone.
MCFleets == {[s \in {a, b} |-> IF s = a THEN "disabled" ELSE "enabled"],
             [s \in {a, b} |-> IF s = a THEN "enabled" ELSE "absent"]}

\* One server at a time.
MCSingles == {[s \in {a, b} |-> IF s = a THEN x ELSE "absent"] : x \in {"enabled", "disabled"}}
                 \cup {[s \in {a, b} |-> IF s = a THEN "absent" ELSE "enabled"]}
============================================================================
