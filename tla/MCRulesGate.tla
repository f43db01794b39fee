---------------------------- MODULE MCRulesGate ----------------------------
(* A small server for RulesGate: a category with a public and a preview     *)
(* channel, one with a private tool, and a brand channel.                   *)
EXTENDS RulesGate

MCParent ==
  [c \in Text |-> CASE c \in {"rules", "news"} -> "accueil" [] c = "tools" -> "outils" [] OTHER -> NoParent]

MCPlace ==
  [c \in Channel |-> CASE c = "accueil" -> 1 [] c = "rules" -> 2 [] c = "news" -> 3
                       [] c = "nike" -> 4 [] c = "outils" -> 5 [] c = "tools" -> 6]

\* Pro was given a brand channel and, like Starter by mistake, a private tool;
\* Pro+ has the brand channel already.
MCStart ==
  {[c \in Channel |-> [r \in GuildRole |->
      IF <<r, c>> \in {<<"pro", "nike">>, <<"pro", "tools">>, <<"starter", "tools">>, <<"proplus", "nike">>}
      THEN "allow"
      ELSE IF <<r, c>> = <<"starter", "outils">> THEN "deny" ELSE "absent"]]}

=============================================================================
