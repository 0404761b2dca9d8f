---------------------------- MODULE AtomicStore -----------------------------
(***************************************************************************)
(* What the storage backend promises its callers: seat.json changes only   *)
(* by one writer's mutation applied to exactly what the file holds at that *)
(* moment.  A content is the set of writers whose entry it carries, and a  *)
(* mutation toggles the writer's own entry, as a login or an rm does, so   *)
(* that a mutation computed from an outdated content shows.                *)
(***************************************************************************)
CONSTANT Procs

VARIABLE content

Toggled(c, p) == IF p \in c THEN c \ {p} ELSE c \union {p}

Init == content = {}

Mutate(p) == content' = Toggled(content, p)

Next == \E p \in Procs : Mutate(p)

Spec == Init /\ [][Next]_content

=============================================================================
