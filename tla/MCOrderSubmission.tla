------------------------- MODULE MCOrderSubmission -------------------------
(* A cart of two guests with one item in it.                               *)
EXTENDS OrderSubmission, TLC

CONSTANTS i1, g1, g2, k, r1, r2, r3, r4

FirstLine == [choice |-> [quantity |-> 1, options |-> k], menu |-> 1, by |-> g1]
MCFirstLines == [i \in ItemRefs |-> IF i = i1 THEN FirstLine ELSE None]
MCSends ==
  r1 :> {<<"Add", g2>>, <<"Update", g1>>, <<"Update", g2>>, <<"Remove", g1>>}
    @@ r2 :> {<<"AttachQuote", g1>>, <<"Remove", g2>>}
    @@ r3 :> {<<"CreateOrder", g1>>}
    @@ r4 :> {<<"Update", g1>>, <<"Abandon", g2>>, <<"Expire", None>>, <<"AttachQuote", g1>>,
              <<"CreateOrder", g1>>, <<"CreateOrder", g2>>}
Symmetry == Permutations(Keys)
=============================================================================
