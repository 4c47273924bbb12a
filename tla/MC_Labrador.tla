---------------------------- MODULE MC_Labrador ----------------------------
(* One fault at a time beside the transmission of the messages.             *)
EXTENDS Labrador

Fine == [statement |-> "same", z_norm |-> "small", alt |-> "no"]
MCFaults ==
  {Fine, [Fine EXCEPT !.alt = "other"]}
    \cup {[Fine EXCEPT !.statement = st] : st \in {"other_contents", "other_params"}}
    \cup {[Fine EXCEPT !.z_norm = z] : z \in {"large", "error"}}
=============================================================================
