------------------------------ MODULE FileStore ------------------------------
(***************************************************************************)
(* What a volume promises to the program that has files open on it: a file *)
(* is a sequence of bytes, and a call changes the file it is about at the  *)
(* position of the file object, and no other file.  A write may come short *)
(* (the volume is full) and a read too (the driver fails); a seek stays     *)
(* within the file.                                                        *)
(***************************************************************************)
EXTENDS Integers, Sequences

CONSTANTS Names, Handles, Values

VARIABLES
    store,  \* each file: whether it is there, and its bytes
    name,   \* the file each object has open, or "closed"
    pos     \* the position of each object

vars == <<store, name, pos>>

File(b) == [there |-> TRUE, bytes |-> b]
Absent == [there |-> FALSE, bytes |-> <<>>]
Closed == "closed"

Init ==
    /\ store = [n \in Names |-> Absent]
    /\ name = [h \in Handles |-> Closed]
    /\ pos = [h \in Handles |-> 0]

SmallerOf(m, n) == IF m < n THEN m ELSE n

\* s with the bytes d from position p on.
Put(s, p, d) ==
    SubSeq(s, 1, p) \o d \o SubSeq(s, SmallerOf(p + Len(d), Len(s)) + 1, Len(s))

\* A file of that name is there afterwards, as it was or empty; or the call
\* has failed, and an overwritten file may be empty all the same.
Open(h) ==
    /\ name[h] = Closed
    /\ \E n \in Names :
         /\ store' \in {store, [store EXCEPT ![n] = File(<<>>)]}
         /\ name' \in {name, [name EXCEPT ![h] = n]}
         /\ name'[h] = n => /\ \A k \in Handles : name[k] # n
                            /\ store'[n].there
                            /\ pos'[h] \in {0, Len(store'[n].bytes)}
         /\ name' = name => pos' = pos
    /\ \A k \in Handles \ {h} : pos'[k] = pos[k]

\* Bytes of one value, as many as fit.
Write(h) ==
    /\ name[h] # Closed
    /\ \E x \in Values : \E k \in 0 .. pos'[h] - pos[h] :
         /\ pos' = [pos EXCEPT ![h] = @ + k]
         /\ store' = [store EXCEPT ![name[h]].bytes = Put(@, pos[h], [j \in 1 .. k |-> x])]
    /\ UNCHANGED name

Read(h) ==
    /\ name[h] # Closed
    /\ pos' = [pos EXCEPT ![h] = pos'[h]]
    /\ pos'[h] \in pos[h] .. Len(store[name[h]].bytes)
    /\ UNCHANGED <<store, name>>

Seek(h) ==
    /\ name[h] # Closed
    /\ pos' = [pos EXCEPT ![h] = pos'[h]]
    /\ pos'[h] \in 0 .. Len(store[name[h]].bytes)
    /\ UNCHANGED <<store, name>>

Truncate(h) ==
    /\ name[h] # Closed
    /\ store' = [store EXCEPT ![name[h]].bytes = SubSeq(@, 1, pos[h])]
    /\ UNCHANGED <<name, pos>>

Close(h) ==
    /\ name[h] # Closed
    /\ name' = [name EXCEPT ![h] = Closed]
    /\ pos' = [pos EXCEPT ![h] = 0]
    /\ UNCHANGED store

Unlink(n) ==
    /\ \A h \in Handles : name[h] # n
    /\ store' = [store EXCEPT ![n] = Absent]
    /\ UNCHANGED <<name, pos>>

Rename(m, n) ==
    /\ \A h \in Handles : name[h] # m
    /\ ~store[n].there
    /\ store' = [store EXCEPT ![n] = store[m], ![m] = Absent]
    /\ UNCHANGED <<name, pos>>

Next ==
    \/ \E h \in Handles : Open(h) \/ Write(h) \/ Read(h) \/ Seek(h) \/ Truncate(h) \/ Close(h)
    \/ \E n \in Names : Unlink(n)
    \/ \E m, n \in Names : Rename(m, n)

Spec == Init /\ [][Next]_vars
=============================================================================
