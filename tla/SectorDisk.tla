----------------------------- MODULE SectorDisk -----------------------------
(***************************************************************************)
(* What a disk driver promises to the file system above it, and what a     *)
(* file system can count on after a power loss:                            *)
(*   - a call changes the words it is about, and no other word;            *)
(*   - a call that returned is durable;                                    *)
(*   - a call that is cut short leaves each word it is about old, erased   *)
(*     or new;                                                             *)
(*   - a start that is cut short may lose everything (the export of the    *)
(*     image truncates it first).                                          *)
(***************************************************************************)
CONSTANTS Units, Words, Blank

VARIABLES
    store,  \* the word each unit holds
    mode,   \* "off", "starting", "on" or "busy"
    target  \* the words the running call asks for

vars == <<store, mode, target>>

Nothing == [u \in {} |-> Blank]
Wiped == [u \in Units |-> Blank]

Init ==
    /\ store = Wiped
    /\ mode = "off"
    /\ target = Nothing

PowerOn ==
    /\ mode = "off" /\ mode' = "starting"
    /\ UNCHANGED <<store, target>>

Started ==
    /\ mode = "starting" /\ mode' = "on"
    /\ UNCHANGED <<store, target>>

\* A write, or a trim: a trim asks for blank words.
Begin ==
    /\ mode = "on" /\ mode' = "busy"
    /\ \E S \in SUBSET Units : target' \in [S -> Words]
    /\ UNCHANGED store

Complete ==
    /\ mode = "busy" /\ mode' = "on"
    /\ store' = [u \in Units |-> IF u \in DOMAIN target THEN target[u] ELSE store[u]]
    /\ target' = Nothing

CutShort ==
    /\ mode = "busy" /\ mode' = "off"
    /\ store' \in [Units -> Words]
    /\ \A u \in Units :
         store'[u] \in IF u \in DOMAIN target THEN {store[u], Blank, target[u]}
                       ELSE {store[u]}
    /\ target' = Nothing

PowerOff ==
    /\ mode \in {"starting", "on"} /\ mode' = "off"
    /\ store' = store \/ (mode = "starting" /\ store' = Wiped)
    /\ UNCHANGED target

Next == PowerOn \/ Started \/ Begin \/ Complete \/ CutShort \/ PowerOff

Spec == Init /\ [][Next]_vars
=============================================================================
