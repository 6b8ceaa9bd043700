-------------------------- MODULE MC_KnowledgeGraph --------------------------
(***************************************************************************)
(* KnowledgeGraph for TLC: two chunks, one of which names a thing a and    *)
(* the other b; the two names find each other, and both chunks relate them. *)
(***************************************************************************)
EXTENDS KnowledgeGraph, TLC

CONSTANTS c1, c2, a, b, p, q

MCMentioned == (c1 :> <<a>>) @@ (c2 :> <<b>>)
MCRelated   == (c1 :> {<<a, b>>}) @@ (c2 :> {<<b, a>>})
MCFinds     == {<<a, b>>, <<b, a>>}

\* The executions are alike, and so are the chunks with the names they use.
Swapped     == (c1 :> c2) @@ (c2 :> c1) @@ (a :> b) @@ (b :> a)
MCSymmetry  == {e @@ s : e \in Permutations(Executions), s \in {Swapped, [x \in DOMAIN Swapped |-> x]}}
=============================================================================
