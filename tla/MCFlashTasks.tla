---------------------------- MODULE MCFlashTasks ----------------------------
(***************************************************************************)
(* Instances of FlashTasks for TLC.  Ids are sequences of characters.      *)
(***************************************************************************)
EXTENDS FlashTasks

CONSTANTS s1, s2

Request(s, id, kind, n) == [session |-> s, id |-> id, kind |-> kind, nth |-> n]

A == <<"a">>
B == <<"b">>

PlainIds   == {A, B}
MCAlnum    == {"a", "b"}

\* Work of two sessions that share the daemon: compiles that share a scratch
\* dir, installs that share a lock, a request answered inline, two flashes.
CompileA == Request(s1, A, "compile", 1)
CompileB == Request(s1, B, "compile", 2)
InstallA == Request(s1, A, "installPlatform", 3)
InstallC == Request(s2, A, "installPlatform", 4)
List     == Request(s1, B, "listBoards", 5)
Upload   == Request(s1, A, "upload", 6)
Firmware == Request(s1, B, "flashFirmware", 7)
Workday  == {CompileA, CompileB, InstallA, InstallC, List, Upload, Firmware}

\* Bounds: the requests that arrive are one of these pairs, or part of it, and
\* a browser leaves only a session that has been sent one.
Pairs == {{CompileA, CompileB}, {CompileB, InstallA}, {CompileA, List},
          {InstallA, InstallC}, {Upload, Firmware}}
OnePair ==
    /\ \E pair \in Pairs : {r \in Requests : phase[r] # "absent"} \subseteq pair
    /\ \A s \in Sessions :
          socket[s] = "gone" => \E r \in Of(s) : phase[r] # "absent"

\* A task and a request answered inline.
CompileAndList == {CompileA, List}

\* Two flashes in a row that may use one id.
Flashes == {Request(s1, A, "upload", 1), Request(s1, A, "flashFirmware", 2)}

\* One install.
Install == {Request(s1, A, "installPlatform", 1)}
=============================================================================
