---------------------------- MODULE MCAuditReport ----------------------------
(***************************************************************************)
(* An instance of AuditReport for TLC: a homepage with its www variant, and*)
(* another page; two rules whose categories the report joins, with every   *)
(* combination of verdicts except that markup earns no bonus; and a rule of*)
(* a category of its own that only the other page fails.                   *)
(***************************************************************************)
EXTENDS AuditReadModel

CONSTANTS www, bare, other, homepage, page, title, robots, markup

Keys == www :> homepage @@ bare :> homepage @@ other :> page
Cats == title :> "on_page" @@ robots :> "technical" @@ markup :> "schema"
\* DEFAULT_WEIGHTS of the categories.
Weights == "on_page" :> 20 @@ "technical" :> 15 @@ "schema" :> 5
Penalties == {-5, -20}
Severities == (-5) :> "warning" @@ (-20) :> "critical"
Rules == <<markup, title, robots>>
Pages == <<www, other, bare>>

TitleOf(v) == IF v = other THEN [passed |-> FALSE, impact |-> -5] ELSE [passed |-> TRUE, impact |-> 0]

NoBonus == {w \in Verdict : w.impact <= 0} \cup {Missing}

MCInit ==
  /\ row \in {[v \in Variant |-> title :> TitleOf(v) @@ robots :> f[v] @@ markup :> g[v]] :
               f \in [Variant -> Verdict \cup {Missing}], g \in [Variant -> NoBonus]}
  /\ Init

MCSpec == MCInit /\ [][Next]_vars
=============================================================================
