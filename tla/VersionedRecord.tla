-------------------------- MODULE VersionedRecord --------------------------
(***************************************************************************)
(* What the Data Vault promises of its records: each has a history of      *)
(* contents, the last one current, that only ever grows, by one at a time. *)
(***************************************************************************)
EXTENDS Integers, Sequences

CONSTANTS Record, Content

VARIABLE history

HInit == history = [d \in Record |-> <<>>]

Extend(d) ==
    /\ Len(history'[d]) = Len(history[d]) + 1
    /\ \E c \in Content : history' = [history EXCEPT ![d] = Append(@, c)]

HNext == \E d \in Record : Extend(d)

HSpec == HInit /\ [][HNext]_history
=============================================================================
