---------------------------- MODULE MCCallCards ----------------------------
(***************************************************************************)
(* Small instances of the Call Cards and of the contact list, for TLC.     *)
(* The two share no variable, and each property speaks of one of them, so  *)
(* a behaviour of both together shows nothing that the behaviours of each  *)
(* do not: the run takes the one or the other.                             *)
(***************************************************************************)
EXTENDS CallCards, Contacts, TLC

CONSTANTS k1, k2, t1, t2, n1, n2, e1, e2

VARIABLE side   \* the part that moves

MCInit ==
  /\ Init /\ ContactsInit
  /\ side \in {"cards", "contacts"}
  /\ side = "contacts" => /\ env = CHOOSE e \in EnvKeys : TRUE
                          /\ disk = CHOOSE d \in Disks : TRUE

MCNext ==
  /\ side' = side
  /\ \/ side = "cards" /\ Next /\ UNCHANGED contactsVars
     \/ side = "contacts" /\ ContactsNext /\ UNCHANGED vars

MCSpec == MCInit /\ [][MCNext]_<<vars, contactsVars, side>>

MCSymmetry ==
  Permutations(Clicks) \cup Permutations(Tabs) \cup Permutations(Names) \cup Permutations(Cards)
=============================================================================
