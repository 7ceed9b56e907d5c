---------------------------- MODULE ReplyLedger ----------------------------
(***************************************************************************)
(* What the router promises about the messages table and the customer: a   *)
(* reaction to a customer message (an AI answer, a holding message, a      *)
(* survey acknowledgement, a forward to an agent) is always backed by a    *)
(* stored row of that message, and one row backs at most one reaction.  A  *)
(* message with a platform id is stored at most once in each monthly       *)
(* partition of the table.                                                 *)
(***************************************************************************)
EXTENDS Naturals

CONSTANTS Messages,   \* platform messages the gateway may deliver
          Anonymous   \* those of them without a platform_msg_id

VARIABLES rows,       \* rows[m]: stored rows of message m
          inMonth,    \* messages with a row in the current month's partition
          month,      \* the partition now being written, 1, 2, ...
          replies     \* replies[m]: reactions to m that were published

vars == <<rows, inMonth, month, replies>>

Init == /\ rows = [m \in Messages |-> 0]
        /\ inMonth = {}
        /\ month = 1
        /\ replies = [m \in Messages |-> 0]

Store(m) == /\ m \in Anonymous \/ m \notin inMonth
            /\ rows' = [rows EXCEPT ![m] = @ + 1]
            /\ inMonth' = inMonth \cup {m}
            /\ UNCHANGED <<month, replies>>

Reply(m) == /\ replies[m] < rows[m]
            /\ replies' = [replies EXCEPT ![m] = @ + 1]
            /\ UNCHANGED <<rows, inMonth, month>>

NextMonth == /\ month' = month + 1
             /\ inMonth' = {}
             /\ UNCHANGED <<rows, replies>>

Next == NextMonth \/ \E m \in Messages : Store(m) \/ Reply(m)

Spec == Init /\ [][Next]_vars
=============================================================================
