--------------------------- MODULE MCOriginHealth ---------------------------
(* A local origin a that stays, and an NFS or a plugin's origin b that     *)
(* comes and goes.                                                         *)
EXTENDS OriginHealth

CONSTANTS a, b

OnlyB == {b}
MCKind == [o \in Origins |-> IF o = a THEN "local" ELSE "nfs"]
MCPriority == [o \in Origins |-> IF o = a THEN 1 ELSE 2]
MCThreshold == [o \in Origins |-> IF o = a THEN 1 ELSE 2]
=============================================================================
