------------------------------- MODULE NameMap -------------------------------
(***************************************************************************)
(* What the ramfs expects of a name table: a finite map from names to      *)
(* entries, with the number of its entries at hand.                        *)
(***************************************************************************)
EXTENDS Integers

CONSTANTS Names, Values

VARIABLES
    m,        \* the map
    count,    \* what the count function returns
    call,     \* the last call and its arguments
    ret       \* the result of the last call

vars == <<m, count, call, ret>>

Put(k, v) == [x \in DOMAIN m \cup {k} |-> IF x = k THEN v ELSE m[x]]
Without(k) == [x \in DOMAIN m \ {k} |-> m[x]]

Init == m = [x \in {} |-> x] /\ count = 0

Insert(k, v) ==
    \/ /\ m' = Put(k, v)
       /\ count' = IF k \in DOMAIN m THEN count ELSE count + 1
       /\ ret' = "ok"
    \/ k \notin DOMAIN m /\ ret' = "failed" /\ UNCHANGED <<m, count>>

Find(k) ==
    /\ ret' = IF k \in DOMAIN m THEN m[k] ELSE "NULL"
    /\ UNCHANGED <<m, count>>

Delete(k) ==
    /\ m' = Without(k)
    /\ count' = IF k \in DOMAIN m THEN count - 1 ELSE count
    /\ ret' = IF k \in DOMAIN m THEN "ok" ELSE "failed"

Destroy == m' = [x \in {} |-> x] /\ count' = 0 /\ UNCHANGED ret

Next ==
    \/ \E k \in Names, v \in Values : Insert(k, v) /\ call' = <<"insert", k, v>>
    \/ \E k \in Names : Find(k) /\ call' = <<"find", k>>
    \/ \E k \in Names : Delete(k) /\ call' = <<"delete", k>>
    \/ Destroy /\ call' = <<"destroy">>

Spec == Init /\ [][Next]_vars
==============================================================================
