---------------------------- MODULE MessageDelivery ----------------------------
(***************************************************************************)
(* What the message ledger promises (adapters/state_db/task_messages.rs,   *)
(* #242, #257): a conversation is a log with a cursor.  A message is       *)
(* accepted once, at the end of the log.  Agents are given everything past *)
(* the cursor.  A retry moves the cursor back by the batch given last, and *)
(* only if nothing was accepted since.                                     *)
(***************************************************************************)
EXTENDS Naturals, Sequences

CONSTANTS Conversations, Keys

VARIABLES
    log,    \* the messages of a conversation, in the order of arrival
    given,  \* how many of them agents have been given
    undo    \* where a retry puts the cursor back to

vars == <<log, given, undo>>

Init ==
    /\ log = [c \in Conversations |-> <<>>]
    /\ given = [c \in Conversations |-> 0]
    /\ undo = [c \in Conversations |-> 0]

Accept(c, k) ==
    /\ \A i \in DOMAIN log[c] : log[c][i] # k
    /\ log' = [log EXCEPT ![c] = Append(@, k)]
    /\ undo' = [undo EXCEPT ![c] = given[c]]
    /\ UNCHANGED given

Give(c) ==
    /\ given[c] < Len(log[c])
    /\ given' = [given EXCEPT ![c] = Len(log[c])]
    /\ undo' = [undo EXCEPT ![c] = given[c]]
    /\ UNCHANGED log

TakeBack(c) ==
    /\ given[c] = Len(log[c])
    /\ given' = [given EXCEPT ![c] = undo[c]]
    /\ UNCHANGED <<log, undo>>

Next == \E c \in Conversations :
            \/ \E k \in Keys : Accept(c, k)
            \/ Give(c) \/ TakeBack(c)

Spec == Init /\ [][Next]_vars
=============================================================================
