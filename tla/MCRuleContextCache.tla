-------------------------- MODULE MCRuleContextCache --------------------------
(* Small repositories for the rule context cache. *)
EXTENDS RuleContextCache

\* A version of a file, and references.
V(text, raw, size, refs) == [text |-> text, raw |-> raw, size |-> size, utf8 |-> TRUE, refs |-> refs]
Binary(raw) == [text |-> raw, raw |-> raw, size |-> 1, utf8 |-> FALSE, refs |-> {}]
To(p) == [paths |-> <<p>>, name |-> None, strong |-> TRUE]
Named(name) == [paths |-> <<>>, name |-> name, strong |-> FALSE]

Agents == <<"/", "AGENTS.md">>
Override == <<"/sub", "AGENTS.override.md">>
Team == <<"/sub", "TEAM.md">>
Home == <<Global, "AGENTS.md">>
A == <<"/", "a.md">>
B == <<"/", "b.md">>
C == <<"/", "c.md">>
OtherB == <<"/sub", "b.md">>

Root == [cwd |-> <<"/">>, fallbacks |-> <<>>, limit |-> 5, tag |-> None, global |-> FALSE, extra |-> {}]
Sub == [Root EXCEPT !.cwd = <<"/", "/sub">>, !.fallbacks = <<"TEAM.md">>, !.global = TRUE]

\* Rules in a cycle: one is edited and staged, the other is staged and gets other line ends. One operation at a time.
Cycle ==
  [files |-> Agents :> <<V("i", "i", 1, {To(A)})>> @@ A :> <<V("a", "a", 1, {To(B)})>>
     @@ B :> <<V("b", "b", 1, {To(C)}), V("b2", "b2", 1, {To(C)})>>
     @@ C :> <<V("c", "c", 1, {}), V("c2", "c2", 1, {To(B)}), V("c2", "c2 crlf", 2, {To(B)})>>,
   order |-> Agents :> 0 @@ A :> 1 @@ B :> 2 @@ C :> 3,
   work |-> (C :> 2), index |-> (C :> 2), options |-> {Root}, staged |-> {B}, deaths |-> FALSE, alone |-> TRUE]

\* A global instruction file, an override that appears, a fallback; two scopes, and texts that grow.
Chain ==
  [files |-> Home :> <<V("g", "g", 1, {To(A)}), V("g2", "g2", 1, {})>> @@ Agents :> <<V("i", "i", 2, {}), V("i2", "i2", 4, {})>>
     @@ Override :> <<None, V("o", "o", 2, {To(A)})>> @@ Team :> <<V("t", "t", 1, {})>> @@ A :> <<V("a", "a", 1, {})>>,
   order |-> Home :> 0 @@ Agents :> 1 @@ A :> 2 @@ Override :> 3 @@ Team :> 4,
   work |-> <<>>, index |-> <<>>, options |-> {Root, Sub}, staged |-> {Override}, deaths |-> FALSE, alone |-> FALSE]

\* A name that becomes ambiguous, a file that is removed, one that is no longer text, and processes that die.
Names ==
  [files |-> Agents :> <<V("i", "i", 1, {Named("b.md"), To(A)})>> @@ A :> <<V("a", "a", 1, {}), None>>
     @@ OtherB :> <<V("b", "b", 1, {}), Binary("b bin")>> @@ B :> <<None, V("b", "b", 1, {})>>,
   order |-> Agents :> 0 @@ A :> 1 @@ B :> 2 @@ OtherB :> 3,
   work |-> <<>>, index |-> <<>>, options |-> {[Root EXCEPT !.extra = {Named("b.md")}]}, staged |-> {}, deaths |-> TRUE, alone |-> FALSE]

MCKinds == [p \in {A, B, C, OtherB, Team, Override} |-> IF p = OtherB THEN "context" ELSE "rule"]
CallerSymmetry == Permutations(Caller)
MCSetups == [cycle |-> Cycle, chain |-> Chain, names |-> Names]
================================================================================
