---------------------------- MODULE HandleTable ----------------------------
(***************************************************************************)
(* What a program relies on of DOS file handles: opening gives a handle    *)
(* nobody holds, at the start of the file; a read moves only the position  *)
(* of the handle it is made through, by what it returned; a seek moves     *)
(* only its own handle; closing forgets one handle.                        *)
(***************************************************************************)
EXTENDS Naturals

CONSTANTS Handles, Devices, Files, Len(_), Closed, Device
VARIABLES table, got

Entry(f, p) == [file |-> f, pos |-> p]
Left(h) == IF table[h].pos >= Len(table[h].file) THEN 0
           ELSE Len(table[h].file) - table[h].pos

IsFile(h) == table[h] \notin {Closed, Device}

Init == /\ table = [h \in Handles |-> IF h \in Devices THEN Device ELSE Closed]
        /\ got = 0

Open == \E h \in Handles, f \in Files :
  /\ table[h] = Closed
  /\ table' = [table EXCEPT ![h] = Entry(f, 0)]
  /\ got' = h

Close == \E h \in Handles : table' = [table EXCEPT ![h] = Closed] /\ got' = got

Read == \E h \in {x \in Handles : IsFile(x)} : \E n \in 0..Left(h) :
  /\ table' = [table EXCEPT ![h].pos = @ + n]
  /\ got' = n

Seek == \E h \in {x \in Handles : IsFile(x)} :
  /\ got' \in Nat
  /\ table' = [table EXCEPT ![h].pos = got']

Next == Open \/ Close \/ Read \/ Seek
Spec == Init /\ [][Next]_<<table, got>>
=============================================================================
