---------------------------- MODULE ExportAbstract ----------------------------
(***************************************************************************)
(* What the exports promise: an archive is the project as it was at one    *)
(* moment of the request, complete, and does not change any more.          *)
(***************************************************************************)
CONSTANTS Reader, None

VARIABLES
  content,   \* all that can be read of the project
  exists,    \* whether there is a project
  archive    \* a reader's archive, or None

Init == archive = [r \in Reader |-> None]

Take(r) ==
  /\ archive[r] = None /\ exists
  /\ archive' = [archive EXCEPT ![r] = content]
  /\ UNCHANGED <<content, exists>>

Hand(r) ==
  /\ archive' = [archive EXCEPT ![r] = None]
  /\ UNCHANGED <<content, exists>>

(* The project may change at any time, into anything. *)
Change == UNCHANGED archive

Next == Change \/ \E r \in Reader : Take(r) \/ Hand(r)

Spec == Init /\ [][Next]_<<content, exists, archive>>
=============================================================================
