------------------------------ MODULE HookTable ------------------------------
(***************************************************************************)
(* What the hook registry promises: the hooks that run in each class, as   *)
(* the threads of the VM see them.  A hook appears at once and complete,   *)
(* hooks go one method at a time or, at the end of a session and when a    *)
(* user redefines a class, one class at a time, and nothing else ever      *)
(* changes what runs.                                                      *)
(***************************************************************************)
CONSTANT Classes

VARIABLES
    table,     \* the hooks of each class: kind, method, offset, function
    open       \* a session is running

vars == <<table, open>>

Init ==
    /\ table = [c \in Classes |-> {}]
    /\ open = FALSE

Open ==
    /\ ~open
    /\ open' = TRUE
    /\ UNCHANGED table

\* A detour shares its method with no other hook.
Compatible(h, others) ==
    \A o \in others : o.method = h.method => o.kind = "INSERT_CALL" /\ h.kind = "INSERT_CALL"

Install ==
    /\ open
    /\ \E c \in Classes : \E h \in table'[c] :
          /\ h \notin table[c]
          /\ Compatible(h, table[c])
          /\ table' = [table EXCEPT ![c] = @ \union {h}]
    /\ UNCHANGED open

Uninstall ==
    /\ open
    /\ \E c \in Classes : \E gone \in SUBSET table[c] :
          /\ \A g, h \in gone : g.method = h.method
          /\ table' = [table EXCEPT ![c] = @ \ gone]
    /\ UNCHANGED open

\* A class runs without hooks again: a shutdown or a user redefines it.
Restore ==
    /\ open
    /\ \E c \in Classes : table' = [table EXCEPT ![c] = {}]
    /\ UNCHANGED open

\* Nothing the session installed outlives it.
Close ==
    /\ open
    /\ \A c \in Classes : table[c] = {}
    /\ open' = FALSE
    /\ UNCHANGED table

Next == Open \/ Install \/ Uninstall \/ Restore \/ Close

Spec == Init /\ [][Next]_vars
=============================================================================
