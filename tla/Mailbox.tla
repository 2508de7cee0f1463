------------------------------ MODULE Mailbox ------------------------------
(***************************************************************************)
(* What the message path promises to the senders and to the recipient,     *)
(* without sockets, handlers, Redis commands or timers: README.md:57-60    *)
(* with the limits the code has.  Module Delivery implements it.           *)
(***************************************************************************)
CONSTANT Messages

VARIABLES
  alive,   \* the recipient's account
  told,    \* told[m]: what the sender of m has been told: "nothing" (not sent yet),
           \* "busy", "ok", "error", or "lost" (never anything) with the process
  taken,   \* messages a page of the recipient has taken
  stored,  \* messages kept for later
  open,    \* the stored messages are being handed over
  late     \* messages stored during a hand-over

mailVars == <<alive, told, taken, stored, open, late>>

Init ==
  /\ alive = TRUE
  /\ told = [m \in Messages |-> "nothing"]
  /\ taken = {}
  /\ stored = {}
  /\ open = FALSE
  /\ late = {}

\* A message for an account that has ended may be refused at once.
Begin(m) ==
  /\ told[m] = "nothing"
  /\ \E word \in {"busy"} \cup {w \in {"error"} : ~alive} :
       told' = [told EXCEPT ![m] = word]
  /\ UNCHANGED <<alive, taken, stored, open, late>>

\* A page takes messages that have been sent.
Take ==
  /\ taken \subseteq taken'
  /\ \A m \in taken' \ taken : m \in Messages /\ told[m] # "nothing"
  /\ UNCHANGED <<alive, told, stored, open, late>>

\* A message is stored while its sender waits, and not on top of itself.
Store(m) ==
  /\ told[m] = "busy"
  /\ m \notin stored
  /\ stored' = stored \cup {m}
  /\ late' = IF open THEN late \cup {m} ELSE late
  /\ UNCHANGED <<alive, told, taken, open>>

\* Success means that the message is with the recipient, or stored, or may have
\* been missed by a hand-over; nothing is promised for an account that has ended.
Succeed(m) ==
  /\ told[m] = "busy"
  /\ alive => m \in taken \cup stored \cup late
  /\ told' = [told EXCEPT ![m] = "ok"]
  /\ UNCHANGED <<alive, taken, stored, open, late>>

\* What has failed is not stored.
Fail(m) ==
  /\ told[m] = "busy"
  /\ m \notin stored
  /\ told' = [told EXCEPT ![m] = "error"]
  /\ UNCHANGED <<alive, taken, stored, open, late>>

\* Hand-overs begin and end.
Turn ==
  /\ open' \in BOOLEAN
  /\ UNCHANGED <<alive, told, taken, stored, late>>

\* A hand-over removes everything, and nothing but what was taken or came late.
Empty ==
  /\ open
  /\ stored \subseteq taken \cup late
  /\ stored' = {}
  /\ open' \in BOOLEAN
  /\ UNCHANGED <<alive, told, taken, late>>

\* The account ends, and with it, in time, what was stored for it.
AccountEnds ==
  /\ alive' = FALSE
  /\ UNCHANGED <<told, taken, stored, open, late>>

Expire ==
  /\ ~alive
  /\ stored' = {}
  /\ UNCHANGED <<alive, told, taken, open, late>>

\* The process dies: whoever waits is told nothing.  What is stored stays.
Crash ==
  /\ told' = [m \in Messages |-> IF told[m] = "busy" THEN "lost" ELSE told[m]]
  /\ open' = FALSE
  /\ UNCHANGED <<alive, taken, stored, late>>

Next ==
  \/ \E m \in Messages : Begin(m) \/ Store(m) \/ Succeed(m) \/ Fail(m)
  \/ Take
  \/ Turn
  \/ Empty
  \/ AccountEnds
  \/ Expire
  \/ Crash

Spec == Init /\ [][Next]_mailVars
=============================================================================
