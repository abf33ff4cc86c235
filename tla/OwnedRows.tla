----------------------------- MODULE OwnedRows -----------------------------
(***************************************************************************)
(* WHERE over the rows of a table, in the order in which they are listed.  *)
(***************************************************************************)
EXTENDS Naturals, Sequences

\* The rows whose owner is o.
OwnedBy(rows, o) ==
    LET own[n \in 0..Len(rows)] ==
            IF n = 0 THEN <<>>
            ELSE IF rows[n].owner = o THEN Append(own[n - 1], rows[n])
            ELSE own[n - 1]
    IN  own[Len(rows)]
=============================================================================
