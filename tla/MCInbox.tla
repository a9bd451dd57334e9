------------------------------- MODULE MCInbox -------------------------------
(* One message, and two messages of one chat.                                 *)
EXTENDS Inbox

CONSTANTS m1, m2, la

OneChat == [m \in {m1, m2} |-> la]
Alone   == [m \in {m1} |-> la]
=============================================================================
