-------------------------------- MODULE MCSite --------------------------------
EXTENDS Site, TLC

CONSTANTS g1, d1, d2, x1, n1, n2, t1, t2, s1, s2, h1, h2

Slugs == (t1 :> s1) @@ (t2 :> s2)

(* The uuids of the decisions begin alike, those of the notes do not. *)
Heads == [e \in {g1, d1, d2, x1, n1, n2} |-> IF e = n2 THEN h2 ELSE h1]

(* A project whose records refer to each other under one title; a second    *)
(* decision and a second note can still be made.                            *)
Linking ==
  [goal |-> [g \in Goal |-> [title |-> t1]],
   decision |-> [d \in Decision |-> IF d = d1 THEN [title |-> t1, goal |-> g1] ELSE None],
   experiment |-> [x \in Experiment |->
                     [title |-> t1, goal |-> g1, decision |-> d1, lesson |-> t2]],
   note |-> [n \in Note |-> IF n = n1 THEN [title |-> t1, source |-> d1] ELSE None],
   links |-> {<<d1, x1>>}, hidden |-> {}]

(* And one that has nothing yet. *)
Empty ==
  [goal |-> [g \in Goal |-> None], decision |-> [d \in Decision |-> None],
   experiment |-> [x \in Experiment |-> None], note |-> [n \in Note |-> None],
   links |-> {}, hidden |-> {}]

Projects == {Linking, Empty}
===============================================================================
