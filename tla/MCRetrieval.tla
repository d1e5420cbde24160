---------------------------- MODULE MCRetrieval ----------------------------
(***************************************************************************)
(* Two turns: the first says a1 and a2, the second b1, which is about the  *)
(* same thing as a1 and may supersede it.                                  *)
(***************************************************************************)
EXTENDS Retrieval

MCChunks == {"c1", "c2"}
MCFacts == {"a1", "a2", "b1"}
MCEntities == {"e1", "e2"}
MCDrafts == [c1 |-> <<"a1", "a2">>, c2 |-> <<"b1">>]
MCObservedAt == [c1 |-> 1, c2 |-> 2]
MCKeyOf == [a1 |-> "k", b1 |-> "k", a2 |-> "other"]
MCEntityOf == [a1 |-> "e1", b1 |-> "e1", a2 |-> "e2"]
MCValidFrom == [a1 |-> 0, a2 |-> 1, b1 |-> 2]
MCChatScoped == {"a2"}
MCBoundary == [p \in MCFacts \X MCFacts |-> 1]

MCPathResults ==
  {{[from |-> "e1", to |-> "e2", hops |-> 1]},
   {[from |-> "e1", to |-> "e1", hops |-> 2]}}

\* A question about e1 whose words match a1 and b1; rewritten, it
\* mentions e2 as well, and a2 matches without rank.
AboutE1 ==
  [date |-> 3, from |-> 1, to |-> 3,
   distance |-> [a1 |-> 2, a2 |-> 4, b1 |-> 4],
   mentions |-> [plain |-> {"e1"}, rewritten |-> {"e1", "e2"}],
   matches |-> [plain |-> [a1 |-> 1, b1 |-> 5], rewritten |-> [a1 |-> 1, b1 |-> 5, a2 |-> 0]]]

\* A question asked in the second of the second turn, about e2.
AboutE2 ==
  [date |-> 2, from |-> 1, to |-> 2,
   distance |-> [a1 |-> 3, a2 |-> 3, b1 |-> 1],
   mentions |-> [plain |-> {"e2"}, rewritten |-> {"e2"}],
   matches |-> [plain |-> [a2 |-> 2], rewritten |-> [a2 |-> 2, a1 |-> 2]]]

MCQuestions == {AboutE1, AboutE2}

\* A question close to both facts of the first turn, of which a2 has expired.
CloseToBoth == {[AboutE1 EXCEPT !.distance = [a1 |-> 2, a2 |-> 2, b1 |-> 4]]}

\* A question that no fact has anything to do with.
Unrelated ==
  {[AboutE1 EXCEPT !.distance = [a1 |-> 15, a2 |-> 15, b1 |-> 15],
                   !.mentions = [plain |-> {}, rewritten |-> {}],
                   !.matches = [plain |-> [a1 |-> 0], rewritten |-> [a1 |-> 0]]]}
=============================================================================
