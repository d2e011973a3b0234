------------------------------ MODULE MCInstance ------------------------------
(* Two objects that may be given the same port.  One has no configured     *)
(* binary; the other may launch as often as there are processes.           *)
EXTENDS Instance
===============================================================================
