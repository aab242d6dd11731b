------------------------------- MODULE Tables -------------------------------
(***************************************************************************)
(* A PostgreSQL table is a function from the primary keys of its rows to   *)
(* the rows.  UPDATE ... WHERE id = k is [table EXCEPT ![k] = ...], which  *)
(* leaves the table alone when no row has that key, as SQL does.           *)
(***************************************************************************)

EmptyTable == [k \in {} |-> {}]

\* INSERT of a row, or the replacement of the row that has this key.
Put(table, key, row) ==
    [k \in DOMAIN table \cup {key} |-> IF k = key THEN row ELSE table[k]]

\* mutant: the handler goes on whatever the insert said.
ShouldProcessNoDedup(processed, e) == TRUE

\* INSERT INTO processed_events ... ON CONFLICT (event_id) DO NOTHING: the
\* handler goes on only when the row was inserted (rowCount = 1).
ShouldProcess(processed, e) == e.id \notin processed

=============================================================================
