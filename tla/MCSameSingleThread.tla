------------------------- MODULE MCSameSingleThread -------------------------
(***************************************************************************)
(* SameSingleThread for TLC: three calls of do, among which an error can   *)
(* come first, in the middle or last, and two calls of Close.  Tickets are *)
(* model values.  There is no symmetry, since liveness is checked.         *)
(***************************************************************************)
EXTENDS SameSingleThread

CONSTANTS t1, t2, t3, c1, c2

MCTickets == {t1, t2, t3}
MCClosers == {c1, c2}
MCFnResults == {"nil", "error"}
=============================================================================
