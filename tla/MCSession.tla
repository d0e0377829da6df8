------------------------------- MODULE MCSession -------------------------------
(* Session with ids that are drawn neither in rising nor in falling order. *)
EXTENDS Session

MCDrawn == <<2, 4, 1, 3>>

================================================================================
