--------------------------- MODULE RecordRegister ---------------------------
(***************************************************************************)
(* What store.h promises: a record that a save replaces at one instant, or *)
(* not at all when power is lost, and an OK that means it was replaced.    *)
(* "weak" says that the medium has let the store down, a bad sector or a   *)
(* header that could not be read: the promise is only that of store.h for  *)
(* a medium that is not.  Store.tla implements this with two slots.        *)
(***************************************************************************)
CONSTANTS
    Records,    \* what can be saved
    Empty       \* no record

VARIABLES
    value,      \* the record a load returns
    job,        \* the record being saved, Empty if none is
    weak,       \* the medium has failed the store
    result      \* of the last save: "none", "ok", "error" or "cut"

registerVars == <<value, job, weak, result>>

Init ==
    /\ value \in Records \cup {Empty} /\ job = Empty
    /\ weak \in BOOLEAN /\ result = "none"

(* The record changes to the one being saved, and to nothing else.         *)
Settles ==
    \/ value' = value
    \/ job # Empty /\ value' = job
    \/ weak /\ value' \in Records \cup {Empty}

Begin ==
    /\ job = Empty /\ job' \in Records
    /\ UNCHANGED value /\ result' = "none"

Proceed == job # Empty /\ Settles /\ UNCHANGED <<job, result>>

End ==
    /\ job # Empty /\ Settles
    /\ job' = Empty /\ result' \in {"ok", "error", "cut"}
    /\ result' = "ok" => value' = job \/ weak

Next == weak' \in BOOLEAN /\ (Begin \/ Proceed \/ End)

Spec == Init /\ [][Next]_registerVars
=============================================================================
