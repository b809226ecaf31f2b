----------------------------- MODULE OrmSession -----------------------------
(***************************************************************************)
(* What a flush of SQLAlchemy's session writes, for the modules that model *)
(* a row shared by several sessions.  A row and the object a session has   *)
(* of it are records with the same fields.                                 *)
(***************************************************************************)

\* The row after a flush that turns the object m into new: only the columns
\* that differ from what the session last read are written.
Merged(m, new, current) ==
  [c \in DOMAIN current |-> IF new[c] # m[c] THEN new[c] ELSE current[c]]
=============================================================================
