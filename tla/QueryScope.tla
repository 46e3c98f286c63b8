------------------------------ MODULE QueryScope ------------------------------
(***************************************************************************)
(* What a query promises, with no builder and no SQL: it starts from the   *)
(* rows of its set, less the hidden ones unless the caller asks for them,  *)
(* every later call can only narrow it, reading changes nothing and shows  *)
(* only rows in scope, and a bulk statement leaves every other row alone.  *)
(* Queries shows it for callers that do not || over the global filter.     *)
(***************************************************************************)
VARIABLES
    stored,      \* the rows of the table
    hidden,      \* those the global filter of the set hides
    open,        \* a query is being built
    scope,       \* the rows it stands for
    shown        \* the rows the last query showed

Init ==
    /\ ~open
    /\ scope = {}
    /\ shown = {}

Begin ==
    /\ ~open /\ open'
    /\ scope' \in {stored, stored \ hidden}
    /\ UNCHANGED <<stored, hidden, shown>>

Narrow ==
    /\ open /\ open'
    /\ scope' \subseteq scope
    /\ UNCHANGED <<stored, hidden, shown>>

Show ==
    /\ open /\ ~open'
    /\ scope' = {}
    /\ shown' \subseteq scope
    /\ UNCHANGED <<stored, hidden>>

Change ==
    /\ open /\ ~open'
    /\ scope' = {} /\ shown' = {}
    /\ stored \ scope \subseteq stored'

Next == Begin \/ Narrow \/ Show \/ Change

Spec == Init /\ [][Next]_<<stored, hidden, open, scope, shown>>
=============================================================================
