-------------------------------- MODULE Status --------------------------------
(* The statuses of an instance and the transitions its status machine      *)
(* admits (src/pkg/instance/status.go).                                    *)

Stopped      == "stopped"
Running      == "running"
Failed       == "failed"
Restarting   == "restarting"
ShuttingDown == "shutting_down"

Statuses == {Stopped, Running, Failed, Restarting, ShuttingDown}

statusTransitions ==
  [s \in Statuses |->
     CASE s = Stopped      -> {Restarting}
       [] s = Restarting   -> {Running, Failed, Stopped}
       [] s = Running      -> {ShuttingDown, Failed}
       [] s = ShuttingDown -> {Stopped}
       [] s = Failed       -> {Restarting}]

(* Set accepts the new status.                                             *)
CanSet(from, to) == to \in statusTransitions[from]
===============================================================================
