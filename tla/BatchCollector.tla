--------------------------- MODULE BatchCollector ---------------------------
(***************************************************************************)
(* internal/channel/batch.go: the collector of the files of a selection.   *)
(* Add and the timer's callback run under the mutex and are single steps;  *)
(* a timer that has fired waits for the mutex first, and Stop does not     *)
(* reach it any more.  Its callback deletes by batch ID, whichever state   *)
(* the map holds by then.                                                  *)
(***************************************************************************)
EXTENDS Naturals, FiniteSets

CONSTANTS BatchIDs, IDs,
          Data,      \* what an item carries: a path, or NoData for a refusal
          Total,     \* BatchTotal of each batch
          Missing,   \* an ID that has not been added
          NoState    \* no entry in the map

ASSUME MissingIsNoData == Missing \notin Data
ASSUME TotalIsNat      == Total \in [BatchIDs -> Nat]

VARIABLES batches,   \* BatchID to batchState: the serial number of its timer, its items
          timers,    \* serial numbers used so far
          armed,     \* timers running: <<batch, serial>>
          firing,    \* timers that fired and wait for the mutex
          ret        \* what the last Add returned

collector == <<batches, timers, armed, firing, ret>>

Items == [IDs -> Data \cup {Missing}]
State == [timer : Nat, items : Items]

ASSUME NoStateIsNoState == NoState \notin State

CollectorTypeOK ==
    /\ batches \in [BatchIDs -> State \cup {NoState}]
    /\ timers \in Nat
    /\ armed \subseteq BatchIDs \X Nat
    /\ firing \subseteq BatchIDs \X Nat
    /\ ret \in [ok : {FALSE}] \cup [ok : {TRUE}, batch : BatchIDs, items : Items]

Present(items) == {id \in IDs : items[id] # Missing}

CollectorInit ==
    /\ batches = [b \in BatchIDs |-> NoState]
    /\ timers = 0
    /\ armed = {} /\ firing = {}
    /\ ret = [ok |-> FALSE]

\* The state of the batch: the one in the map, or a new one with a new timer.
StateOf(b) ==
    IF batches[b] = NoState
    THEN [timer |-> timers + 1, items |-> [id \in IDs |-> Missing]]
    ELSE batches[b]

\* Mutant: the timer is started once, not with each state.
RunningOnce(b) == IF timers = 0 THEN armed \cup {<<b, 1>>} ELSE armed

\* The timers that run once the state of the batch is there.
Running(b) == IF batches[b] = NoState THEN armed \cup {<<b, timers + 1>>} ELSE armed

\* Mutant: the state stays in the map after the hand-over.
FinishKeeps(b, s) ==
    /\ batches' = [batches EXCEPT ![b] = s]
    /\ armed' = Running(b) \ {<<b, s.timer>>}
    /\ ret' = [ok |-> TRUE, batch |-> b, items |-> s.items]

\* The last item: stop the timer, forget the batch, hand it over.
Finish(b, s) ==
    /\ batches' = [batches EXCEPT ![b] = NoState]
    /\ armed' = Running(b) \ {<<b, s.timer>>}
    /\ ret' = [ok |-> TRUE, batch |-> b, items |-> s.items]

Add(b, id, d) ==
    LET s == [StateOf(b) EXCEPT !.items[id] = d]
    IN  /\ timers' = IF batches[b] = NoState THEN timers + 1 ELSE timers
        /\ IF Cardinality(Present(s.items)) = Total[b]
           THEN Finish(b, s)
           ELSE batches' = [batches EXCEPT ![b] = s] /\ armed' = Running(b) /\ ret' = [ok |-> FALSE]
        /\ UNCHANGED firing

\* The threshold passes.
TimerFires(t) ==
    /\ t \in armed
    /\ armed' = armed \ {t} /\ firing' = firing \cup {t}
    /\ UNCHANGED <<batches, timers, ret>>

\* The callback gets the mutex.
TimerDeletes(t) ==
    /\ t \in firing
    /\ firing' = firing \ {t}
    /\ batches' = [batches EXCEPT ![t[1]] = NoState]
    /\ UNCHANGED <<timers, armed, ret>>

TimerStep == \E t \in armed \cup firing : TimerFires(t) \/ TimerDeletes(t)

CollectorNext ==
    \/ \E b \in BatchIDs, id \in IDs, d \in Data : Add(b, id, d)
    \/ TimerStep

CollectorSpec == CollectorInit /\ [][CollectorNext]_collector

----------------------------------------------------------------------------
\* The promise, with the items read through the map and a batch overdue when
\* a timer of its ID has fired.
OpenItems == [b \in BatchIDs |-> IF batches[b] = NoState THEN [id \in IDs |-> Missing]
                                 ELSE batches[b].items]
Overdue   == {t[1] : t \in firing}

Promise == INSTANCE BatchPromise WITH open <- OpenItems, overdue <- Overdue

=============================================================================
