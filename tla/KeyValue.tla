------------------------------ MODULE KeyValue ------------------------------
(* What storage/leveldb.go promises: a map from keys to values that outlives   *)
(* the process, on the plain keys.  A call that was acknowledged has taken     *)
(* effect, exactly.  A call that failed, or that the process died in, leaves   *)
(* its key in doubt: one of the old value, the new one or a torn one, and      *)
(* which of them may be settled only by the next restart.  Any call, the       *)
(* acknowledged ones too, leaves the other keys of its file in doubt.  A key   *)
(* that is not plain may be lost at any Restart.                               *)
CONSTANTS
  Key, Value, Absent, Torn, NoCall,
  kin,    \* kin[k]: the keys kept in the same place as k
  Plain   \* the keys that a restart finds

VARIABLES
  map,    \* what the store holds
  doubt,  \* the keys whose value is not settled
  call    \* the key and value of the call under way, or NoCall

vars == <<map, doubt, call>>

Content == Value \cup {Absent, Torn}

Init ==
  /\ map \in [Key -> Value \cup {Absent}]
  /\ doubt = {}
  /\ call = NoCall

(* The keys of one place may take one of the given contents; the others stay.  *)
Changes(place, to) ==
  /\ map' \in [Key -> Content]
  /\ \A j \in Key : map'[j] # map[j] => j \in place /\ map'[j] \in to

Begin(k, v) ==
  /\ call = NoCall
  /\ call' = <<k, v>>
  /\ doubt' = doubt \cup kin[k]
  /\ Changes({k}, {v})

(* The file is truncated, or the call fails.                                   *)
Tear(k, v) ==
  /\ call = <<k, v>>
  /\ call' \in {call, NoCall}
  /\ doubt' = doubt
  /\ Changes(kin[k], {v, Torn})

Acknowledge(k, v) ==
  /\ call = <<k, v>>
  /\ call' = NoCall
  /\ doubt' = doubt \ {k}
  /\ Changes(kin[k], {v})
  /\ map'[k] \in (IF k \in Plain THEN {v} ELSE {v, Absent})

(* The store is closed, dies or is opened.  A key can come into doubt when its *)
(* file cannot be read; every other settled plain key keeps its value.         *)
Restart ==
  /\ call' = NoCall
  /\ map' \in [Key -> Content]
  /\ doubt' \subseteq Key
  /\ \A k \in Plain \ (doubt \cup doubt') : map'[k] = map[k]

Next ==
  \/ \E k \in Key, v \in Content : Begin(k, v) \/ Tear(k, v) \/ Acknowledge(k, v)
  \/ Restart

Spec == Init /\ [][Next]_vars
=============================================================================
