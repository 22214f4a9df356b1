----------------------------- MODULE JoinTable ------------------------------
(***************************************************************************)
(* What a join asks of its build side (the interface IHashTable in          *)
(* hashtable_interface.h): building gives the table a set of (key, row)     *)
(* entries in place of whatever it held, and between builds what a probe    *)
(* can reach is that set, all of it and nothing else.  Reserving space for  *)
(* a table that is not in use may drop its contents, never corrupt them.    *)
(* A build may give up with an exception; nothing can be asked of the table *)
(* then but to be built again.                                              *)
(***************************************************************************)
CONSTANT EntrySet     \* the sets of entries a build may be given

VARIABLES
  building,   \* a build is in progress
  given,      \* the entries of the last build
  content     \* the entries probes can reach

tableVars == <<building, given, content>>

Init ==
  /\ building = FALSE
  /\ given = {}
  /\ content = {}

StartBuild ==
  /\ ~building
  /\ building' = TRUE
  /\ given' \in EntrySet
  /\ content' = {}

FinishBuild ==
  /\ building
  /\ building' = FALSE
  /\ content' = given
  /\ UNCHANGED given

FailBuild ==
  /\ building
  /\ building' = FALSE
  /\ given' = {}
  /\ content' = {}

BuildEmpty ==
  /\ ~building
  /\ given' = {}
  /\ content' = {}
  /\ UNCHANGED building

Discard ==
  /\ ~building
  /\ given' = {}
  /\ content' = {}
  /\ UNCHANGED building

Next == StartBuild \/ FinishBuild \/ FailBuild \/ BuildEmpty \/ Discard

Spec == Init /\ [][Next]_tableVars
=============================================================================
