-------------------------- MODULE RevisionHistory --------------------------
(***************************************************************************)
(* What ingestion promises to a reader of the graph: each document has a   *)
(* history to which uploads append, and serves the content of the last     *)
(* entry.  Nothing is ever rewritten, dropped or served out of turn, and   *)
(* the switch from one revision to the next is a single step.              *)
(***************************************************************************)
EXTENDS Sequences

CONSTANTS Docs, Contents, Tenants, None

VARIABLES
    history,    \* the entries of each document, oldest first
    served      \* the content each document serves, or None

Entry == [hash: Contents, tenant: Tenants]

Init ==
    /\ history = [d \in Docs |-> <<>>]
    /\ served = [d \in Docs |-> None]

Publish(d, e) ==
    /\ history' = [history EXCEPT ![d] = Append(@, e)]
    /\ served' = [served EXCEPT ![d] = e.hash]

Next == \E d \in Docs, e \in Entry : Publish(d, e)

Spec == Init /\ [][Next]_<<history, served>>
=============================================================================
