---------------------------- MODULE BatchPromise ----------------------------
(***************************************************************************)
(* What BatchCollector promises its callers, without states, pointers and  *)
(* timers: a batch is the set of items added since it was opened; the item *)
(* that makes it complete takes it away and hands it over; a batch is      *)
(* dropped only when a batch of that ID has been waiting too long.         *)
(***************************************************************************)
EXTENDS Naturals, FiniteSets

CONSTANTS BatchIDs, IDs, Data, Total, Missing

VARIABLES open,    \* the items of each batch; Missing where there is none yet
          overdue, \* batch IDs whose time is over
          ret      \* what the last Add returned: a batch with its items, or not ok

Nothing   == [id \in IDs |-> Missing]
Present(items) == {id \in IDs : items[id] # Missing}

Init ==
    /\ open = [b \in BatchIDs |-> Nothing]
    /\ overdue = {}
    /\ ret = [ok |-> FALSE]

Collect(b, id, d) ==
    LET items == [open[b] EXCEPT ![id] = d]
    IN  /\ IF Cardinality(Present(items)) = Total[b]
           THEN /\ open' = [open EXCEPT ![b] = Nothing]
                /\ ret' = [ok |-> TRUE, batch |-> b, items |-> items]
           ELSE /\ open' = [open EXCEPT ![b] = items]
                /\ ret' = [ok |-> FALSE]
        /\ UNCHANGED overdue

Wait(b) ==
    /\ overdue' = overdue \cup {b}
    /\ UNCHANGED <<open, ret>>

Drop(b) ==
    /\ b \in overdue
    /\ open' = [open EXCEPT ![b] = Nothing]
    /\ overdue' \in {overdue, overdue \ {b}}
    /\ UNCHANGED ret

Next ==
    \E b \in BatchIDs :
        \/ \E id \in IDs, d \in Data : Collect(b, id, d)
        \/ Wait(b) \/ Drop(b)

Spec == Init /\ [][Next]_<<open, overdue, ret>>
=============================================================================
