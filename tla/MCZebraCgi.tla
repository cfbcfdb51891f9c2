------------------------------- MODULE MCZebraCgi ------------------------------
(***************************************************************************)
(* ZebraCgi.tla with two requests and requests of every kind.              *)
(***************************************************************************)
EXTENDS ZebraCgi

CONSTANTS r1, r2

Page(page) ==
  [page |-> page, method |-> "GET", announced |-> -1, body |-> 0, program |-> "none",
   output |-> 0]

Get(program) ==
  [page |-> "cgi", method |-> "GET", announced |-> -1, body |-> 0, program |-> program,
   output |-> 1]

Post(program, announced, body) ==
  [page |-> "cgi", method |-> "POST", announced |-> announced, body |-> body,
   program |-> program, output |-> 3]

MCKinds ==
  {Page("unknown"), Page("missing"), Page("file"), Get("C"), Get("counts")}
    \cup {Post(program, 3, 3) : program \in Programs \ {"echoes"}}
    \cup {Post("C", announced, 1) : announced \in {-1, 0, 1, 2}}
    \cup {Post("counts", announced, 1) : announced \in {1, 2}}
    \cup {Post("echoes", 5, 5), Post("echoes", 6, 6)}

Ample == [fds |-> 11, children |-> 2, patient |-> TRUE]
FewFds == [fds |-> 6, children |-> 2, patient |-> FALSE]
OneChild == [fds |-> 11, children |-> 1, patient |-> FALSE]
MCLimits == {Ample, FewFds, OneChild}

Pair(k1, k2) == [r \in Requests |-> IF r = r1 THEN k1 ELSE k2]

\* Every kind beside a script; every kind beside a file, and a script beside C
\* code, where something is scarce and clients may go.
MCSituations ==
  [kind : {Pair(k, Get("counts")) : k \in MCKinds}
            \cup {Pair(Post("counts", 3, 3), Post("counts", 1, 1))}, limit : {Ample}]
    \cup [kind : {Pair(k, Page("file")) : k \in MCKinds}, limit : {FewFds}]
    \cup [kind : {Pair(Post("counts", 1, 1), Get("C"))}, limit : {FewFds, OneChild}]
================================================================================
