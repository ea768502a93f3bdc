----------------------------- MODULE ReplicatedRows -----------------------------
(***************************************************************************)
(* What replication promises a reader of a stream: the rows of each writer *)
(* are handed over in the order of their tokens, none left out, and the    *)
(* reader's position for a writer moves only over rows it has been given.  *)
(*                                                                         *)
(* The promise is conditional.  Once `broken` is set nothing more is       *)
(* promised; ReplicationStream says when that is.                          *)
(***************************************************************************)
EXTENDS StreamRows

CONSTANTS
    Writers,      \* the instances that write the stream
    Kinds         \* what a token may stand for

VARIABLES
    tokens,       \* the kinds of each writer's tokens, in order
    pos,          \* how far the reader is with each writer
    handled,      \* the rows handed over
    broken        \* the promise is off

vars == <<tokens, pos, handled, broken>>

Init ==
    /\ tokens = [w \in Writers |-> <<>>]
    /\ pos = [w \in Writers |-> 0]
    /\ handled = {}
    /\ broken = FALSE

(* A writer's token moves on by one. *)
Write(w, k) ==
    /\ tokens' = [tokens EXCEPT ![w] = Append(@, k)]
    /\ UNCHANGED <<pos, handled, broken>>

(* The reader is given every row up to token t, and stands there. *)
HandOver(w, t) ==
    /\ t \in (pos[w] + 1) .. Len(tokens[w])
    /\ handled' = handled \cup RowsBetween(w, tokens[w], pos[w], t)
    /\ pos' = [pos EXCEPT ![w] = t]
    /\ UNCHANGED <<tokens, broken>>

(* From here on anything may happen. *)
Break == broken' = TRUE

Next ==
    \/ \E w \in Writers, k \in Kinds : Write(w, k)
    \/ \E w \in Writers : \E t \in 1 .. Len(tokens[w]) : HandOver(w, t)
    \/ Break

Spec == Init /\ [][Next]_vars

(* The reader has been given every row its positions cover. *)
Complete ==
    \A w \in Writers : RowsBetween(w, tokens[w], 0, pos[w]) \subseteq handled
================================================================================
