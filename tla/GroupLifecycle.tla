--------------------------- MODULE GroupLifecycle ---------------------------
(***************************************************************************)
(* What the group operations of the /chat namespace promise about          *)
(* membership, whatever is in flight: a group is founded once, with three  *)
(* members or more, loses one member at a time, and is dissolved before    *)
(* it could have fewer than three.  Only a restart of the process loses    *)
(* groups otherwise.                                                       *)
(***************************************************************************)
CONSTANTS User, Conv

VARIABLES
  founded,   \* conversation ids ever given to a group
  live       \* members of each group; empty for one that does not exist

\* a group is more than a pair
IsGroup(us) == \E x, y, z \in us : x # y /\ y # z /\ x # z

Init == founded = {} /\ live = [c \in Conv |-> {}]

Found(c, us) ==
  /\ c \notin founded
  /\ IsGroup(us)
  /\ founded' = founded \cup {c}
  /\ live' = [live EXCEPT ![c] = us]

Depart(c, u) ==
  /\ u \in live[c]
  /\ IsGroup(live[c] \ {u})
  /\ live' = [live EXCEPT ![c] = @ \ {u}]
  /\ UNCHANGED founded

\* by an admin, or because a departure would leave two
Dissolve(c) ==
  /\ live' = [live EXCEPT ![c] = {}]
  /\ UNCHANGED founded

\* a restart of the process
Wipe ==
  /\ live' = [c \in Conv |-> {}]
  /\ UNCHANGED founded

Next ==
  \/ \E c \in Conv : \/ \E us \in SUBSET User : Found(c, us)
                     \/ \E u \in User : Depart(c, u)
                     \/ Dissolve(c)
  \/ Wipe

Spec == Init /\ [][Next]_<<founded, live>>

=============================================================================
