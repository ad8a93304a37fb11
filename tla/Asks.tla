-------------------------------- MODULE Asks --------------------------------
(***************************************************************************)
(* What the client promises for each request of an App Server to the user: *)
(* it is open, on a card, only as long as the server has been told         *)
(* nothing, it may be withdrawn with its turn or its connection and opened *)
(* anew when the server asks again, and the server is told one answer,     *)
(* when no card is open for it, and never another one after it.            *)
(***************************************************************************)
CONSTANT Ask      \* the requests

VARIABLES open,   \* the requests on a card
          told    \* the answers the server has been told to each

Init == open = {} /\ told = [a \in Ask |-> {}]

Open(a) ==
  /\ a \notin open /\ told[a] = {}
  /\ open' = open \union {a}
  /\ UNCHANGED told

\* An answer is decided, by the user or by an expiry, or a turn or a connection ends.
Withdraw ==
  /\ open' \in SUBSET open
  /\ UNCHANGED told

Tell(a) ==
  /\ a \notin open /\ told[a] = {}
  /\ \E answer \in {"accept", "cancel", "expired", "refused"} :
       told' = [told EXCEPT ![a] = {answer}]
  /\ UNCHANGED open

Next == Withdraw \/ \E a \in Ask : Open(a) \/ Tell(a)

Spec == Init /\ [][Next]_<<open, told>>

=============================================================================
