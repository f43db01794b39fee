------------------------ MODULE MCWhopSubscriptions ------------------------
(* Small instances of WhopSubscriptions for TLC. *)
EXTENDS WhopSubscriptions, TLC

CONSTANTS mx, my, ann

\* One buyer with a linked membership and, for another plan, one that is not linked.
MCPlanOf == [x \in Membership |-> IF x = mx THEN "premium" ELSE "starter"]
MCBuyer == [x \in Membership |-> ann]

\* The handlers are interchangeable.
HandlerSymmetry == Permutations(Handler)

=============================================================================
