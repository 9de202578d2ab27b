----------------------------- MODULE MessageLife -----------------------------
(***************************************************************************)
(* What the table of messages promises of each: it is sent once, may be    *)
(* edited until it is unsent, and is unsent for good; and it may be lost   *)
(* on its way, or erased with its conversation, which is final.            *)
(***************************************************************************)
CONSTANTS
  Msg,     \* message ids
  Text,    \* contents, none of which is "new", "unsent" or "erased"
  Draft    \* the content messages are sent with

VARIABLE life   \* the content of each, while it has one

Init == life = [m \in Msg |-> "new"]

Send(m) ==
  /\ life[m] = "new"
  /\ life' = [life EXCEPT ![m] = Draft]

Edit(m) ==
  /\ life[m] \in Text
  /\ \E t \in Text : life' = [life EXCEPT ![m] = t]

Unsend(m) ==
  /\ life[m] \in Text
  /\ life' = [life EXCEPT ![m] = "unsent"]

Erase(ms) ==
  life' = [m \in Msg |-> IF m \in ms THEN "erased" ELSE life[m]]

Next ==
  \/ \E m \in Msg : Send(m) \/ Edit(m) \/ Unsend(m)
  \/ \E ms \in SUBSET Msg : Erase(ms)

Spec == Init /\ [][Next]_life

=============================================================================
