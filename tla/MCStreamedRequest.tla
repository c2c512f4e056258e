-------------------------- MODULE MCStreamedRequest --------------------------
(***************************************************************************)
(* The instance of StreamedRequest for TLC: two labels, and of the builds  *)
(* those that differ in what can be flashed.                               *)
(***************************************************************************)
EXTENDS StreamedRequest

MCLabels == {"core", "tool"}

Whole == EspImages \cup {"address"}
MCBuilds == {{}, {"hex"}, {"app"}, Whole, Whole \cup {"hex"},
             Whole \ {"partitions"}, Whole \ {"address"}}

MCOffered ==
    {f \in Frame : f.type # "result" \/ f.build \in MCBuilds}
        \ [type : {"task"}, name : {"", "core", "tool"}, message : {"tool"}]
=============================================================================
