----------------------------- MODULE Messaging -----------------------------
(***************************************************************************)
(* What the chat of a circle promises: a message is posted once, waits     *)
(* until it was sent, and those it is for may get it at any time after     *)
(* that, or never.  A post that was confirmed is never taken back.         *)
(***************************************************************************)
CONSTANTS Message, Device,
          Sender,     \* Sender[m]: the device that posts message m
          Audience    \* Audience[m]: the devices message m is for

VARIABLES posted,     \* posted[m]: "no", "open", "confirmed" or "withdrawn"
          waiting,    \* messages that wait to be sent
          sent,       \* messages that were sent
          kept        \* kept[d]: the messages that device d has

Init ==
    /\ posted = [m \in Message |-> "no"]
    /\ waiting = {} /\ sent = {}
    /\ kept = [d \in Device |-> {}]

\* The message waits, and its sender has it.
Post(m) ==
    /\ posted[m] = "no" /\ Sender[m] \in Audience[m]
    /\ posted' = [posted EXCEPT ![m] = "open"]
    /\ waiting' = waiting \cup {m}
    /\ kept' = [kept EXCEPT ![Sender[m]] = @ \cup {m}]
    /\ UNCHANGED sent

\* A message that is withdrawn while it is being sent is sent all the same.
Send(m) ==
    /\ posted[m] # "no"
    /\ sent' = sent \cup {m}
    /\ UNCHANGED <<posted, waiting, kept>>

\* Only what was sent stops waiting.
Settle(m) ==
    /\ m \in sent
    /\ waiting' = waiting \ {m}
    /\ UNCHANGED <<posted, sent, kept>>

\* A message whose post is confirmed waits or was sent, perhaps by an attempt that the post made.
Confirm(m) ==
    /\ posted[m] = "open"
    /\ posted' = [posted EXCEPT ![m] = "confirmed"]
    /\ waiting' \in {waiting, waiting \ {m}} /\ sent' \in {sent, sent \cup {m}}
    /\ m \in waiting' \cup sent'
    /\ UNCHANGED kept

\* The sender is told that the post failed.
Withdraw(m) ==
    /\ posted[m] = "open"
    /\ posted' = [posted EXCEPT ![m] = "withdrawn"]
    /\ waiting' = waiting \ {m}
    /\ kept' = [kept EXCEPT ![Sender[m]] = @ \ {m}]
    /\ UNCHANGED sent

Keep(d, m) ==
    /\ m \in sent /\ d \in Audience[m]
    /\ kept' = [kept EXCEPT ![d] = @ \cup {m}]
    /\ UNCHANGED <<posted, waiting, sent>>

Next ==
    \E m \in Message : \/ Post(m) \/ Send(m) \/ Settle(m) \/ Confirm(m) \/ Withdraw(m)
                       \/ \E d \in Device : Keep(d, m)

Spec == Init /\ [][Next]_<<posted, waiting, sent, kept>>
=============================================================================
