------------------------- MODULE MCComponentBundle -------------------------
(* Small sets of signatures for TLC: a perfect one, one that expires soon, *)
(* and for each fault one that has it, at every creation time.             *)
EXTENDS ComponentBundle

CONSTANT MaxTime

Perfect(c, m) == [ctime |-> c, life |-> 0, mpi |-> m, good |-> TRUE,
                  policy |-> TRUE, back |-> "unneeded"]
Faulty(c, m) ==
  LET p == Perfect(c, m)
  IN  {p, [p EXCEPT !.life = 1], [p EXCEPT !.good = FALSE],
       [p EXCEPT !.policy = FALSE], [p EXCEPT !.back = "good"],
       [p EXCEPT !.back = "dead"], [p EXCEPT !.back = "rejected"]}

MCSelf == UNION {Faulty(c, 1) : c \in 1 .. MaxTime}
          \cup {Perfect(None, 1), Perfect(2, 0), [Perfect(2, 2) EXCEPT !.good = FALSE]}
Revocation(c, reason) == [ctime |-> c, life |-> 0, mpi |-> 1, good |-> TRUE,
                          policy |-> TRUE, reason |-> reason]
MCRevs ==
  UNION {LET p == Revocation(c, r)
         IN  {p, [p EXCEPT !.life = 1], [p EXCEPT !.good = FALSE],
              [p EXCEPT !.policy = FALSE]}
         : c \in {2, 3}, r \in {"hard", "soft", "none"}}
MCOthers == {Revocation(2, "hard"), Revocation(2, "soft")}
============================================================================
