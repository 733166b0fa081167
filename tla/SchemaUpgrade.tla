---------------------------- MODULE SchemaUpgrade ----------------------------
(***************************************************************************)
(* What the migration of a database promises to whoever opens it: as if the  *)
(* schema were brought up to date in one indivisible step.  Tables, columns,  *)
(* stamps, kills and the order of statements are out of sight.  Migration     *)
(* implements this.                                                         *)
(***************************************************************************)
CONSTANTS Procs, Ids, NoId
VARIABLES
  db,    \* "older" than the program, of its "present" version, or "newer"
  id,    \* the server id, or NoId
  open   \* the processes that work on the database

Init == /\ db \in {"older", "present", "newer"}
        /\ id \in Ids \cup {NoId}
        /\ open = {}

(* An older database becomes a present one, whole, and never goes back; a      *)
(* newer one is only looked at.                                             *)
Upgraded == db = "older" /\ db' = "present" /\ UNCHANGED <<id, open>>

(* The server gets its id once, and only in a database it understands. *)
Named == db = "present" /\ id = NoId /\ id' \in Ids /\ UNCHANGED <<db, open>>

(* Only a present database with an id is worked on; work may end at any time. *)
Opened(p) == /\ db = "present" /\ id # NoId
             /\ open' = open \cup {p} /\ UNCHANGED <<db, id>>
Ended(p)  == p \in open /\ open' = open \ {p} /\ UNCHANGED <<db, id>>

Next == Upgraded \/ Named \/ \E p \in Procs : Opened(p) \/ Ended(p)

Spec == Init /\ [][Next]_<<db, id, open>>
=============================================================================
