---------------------------- MODULE CacheContract ----------------------------
(* What the execution path may rely on: a lookup answers the value last      *)
(* stored under its key, stored less than Ttl ago and not cleared since, or  *)
(* nothing.  The cache may forget any entry whenever something is stored.    *)
EXTENDS Integers

CONSTANTS Key, Value, Absent, Ttl

VARIABLES store, now, answer

contractVars == <<store, now, answer>>

Fresh(entry) == entry # Absent /\ now - entry.at < Ttl

Init ==
    /\ store = [k \in Key |-> Absent]
    /\ now = 0
    /\ answer = Absent

Tick ==
    /\ now' = now + 1
    /\ UNCHANGED <<store, answer>>

Store(k, v) ==
    /\ store' \in [Key -> {Absent} \union [value : Value, at : Nat]]
    /\ store'[k] = [value |-> v, at |-> now]
    /\ \A j \in Key \ {k} : store'[j] \in {store[j], Absent}
    /\ UNCHANGED <<now, answer>>

Lookup(k) ==
    /\ answer' = IF Fresh(store[k]) THEN store[k].value ELSE Absent
    /\ store' \in {store, [store EXCEPT ![k] = Absent]}
    /\ Fresh(store[k]) => store' = store
    /\ UNCHANGED now

Clear ==
    /\ store' = [k \in Key |-> Absent]
    /\ UNCHANGED <<now, answer>>

Next ==
    \/ Tick \/ Clear
    \/ \E k \in Key : Lookup(k) \/ \E v \in Value : Store(k, v)

Spec == Init /\ [][Next]_contractVars
=============================================================================
