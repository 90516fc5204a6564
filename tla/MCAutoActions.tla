--------------------------- MODULE MCAutoActions ---------------------------
(***************************************************************************)
(* Instances of AutoActions.  One user; the rows are 1: a kill, once in a  *)
(* session; 2: an event row that calls row 3, and waits after the menu;    *)
(* 3: once in a window.                                                    *)
(***************************************************************************)
EXTENDS AutoActions

Startups   == [r \in Rows |-> IF r = 2 THEN 1 ELSE 0]
EventCools == [r \in Rows |-> IF r = 2 THEN 1 ELSE 0]
TestEvent  == <<2>>
=============================================================================
