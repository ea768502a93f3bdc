------------------------------- MODULE StreamRows -------------------------------
(***************************************************************************)
(* The rows of a replication stream.  A writer's tokens are counted on     *)
(* their own; a token sequence gives the kind of each: an ID it wrote with *)
(* one row ("event") or with two ("state": the event and a current-state   *)
(* row), one it did not use ("unused": a rolled-back transaction), or a    *)
(* position it took over from others ("moved").                            *)
(***************************************************************************)
EXTENDS Naturals, Sequences

AllKinds == {"moved", "unused", "event", "state"}

(* The number of rows a token carries. *)
RowsOf(kind) == CASE kind = "event" -> 1 [] kind = "state" -> 2 [] OTHER -> 0

(* The rows of w's token t in the token sequence ts. *)
RowsAt(w, ts, t) == {<<w, t, i>> : i \in 1 .. RowsOf(ts[t])}

(* The rows of w's tokens above a, up to b. *)
RowsBetween(w, ts, a, b) == UNION {RowsAt(w, ts, t) : t \in (a + 1) .. b}

(* The tokens above a, up to b, that carry rows. *)
WithRows(ts, a, b) == {t \in (a + 1) .. b : RowsOf(ts[t]) > 0}
================================================================================
