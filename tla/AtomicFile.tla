------------------------------- MODULE AtomicFile -------------------------------
(* What a state file promises its owner: a save that succeeds is what the  *)
(* next load returns; after one that failed or was cut short a load may    *)
(* return the old content or the new, and once it has, that is settled.    *)
EXTENDS Naturals

CONSTANTS Contents,   (* what the file may hold *)
          Missing     (* no file, and no save   *)

VARIABLES may,      (* the contents a load may return now   *)
          writing,  (* the content being saved, or Missing  *)
          got       (* what the last load returned          *)

vars == <<may, writing, got>>

Init == may = {Missing} /\ writing = Missing /\ got = Missing

Begin(c) ==
  /\ writing = Missing /\ writing' = c
  /\ may' = may \cup {c}
  /\ UNCHANGED got

Succeed ==
  /\ writing # Missing /\ writing' = Missing
  /\ may' = {writing}
  /\ UNCHANGED got

GiveUp == writing # Missing /\ writing' = Missing /\ UNCHANGED <<may, got>>

Load(c) ==
  /\ writing = Missing /\ c \in may
  /\ got' = c /\ may' = {c}
  /\ UNCHANGED writing

Next ==
  \/ \E c \in Contents : Begin(c)
  \/ Succeed \/ GiveUp
  \/ \E c \in may : Load(c)

Spec == Init /\ [][Next]_vars
=============================================================================
