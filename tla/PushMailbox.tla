---------------------------- MODULE PushMailbox ----------------------------
(***************************************************************************)
(* What the push queue promises, without saying how: one mailbox for each  *)
(* connection.  Updates posted to a mailbox are merged in the order they   *)
(* are posted; a connection has at most one push under way; while it has,  *)
(* what is posted waits for the next one; nothing posted before the        *)
(* mailboxes close is dropped.                                             *)
(***************************************************************************)
EXTENDS PushRequest

CONSTANTS
  Conn,     \* the connections
  Incoming  \* the requests that are posted

VARIABLES
  owed,      \* owed[c]: what connection c has yet to be sent, or nil
  underway,  \* underway[c]: the push c is being sent, or nil
  closed     \* the mailboxes accept nothing more

vars == <<owed, underway, closed>>

Init ==
  /\ owed = [c \in Conn |-> nil]
  /\ underway = [c \in Conn |-> nil]
  /\ closed = FALSE

Post(c, r) ==
  /\ ~closed
  /\ owed' = [owed EXCEPT ![c] = Merge(owed[c], r)]
  /\ UNCHANGED <<underway, closed>>

Take(c) ==
  /\ owed[c] # nil
  /\ underway[c] = nil
  /\ owed' = [owed EXCEPT ![c] = nil]
  /\ underway' = [underway EXCEPT ![c] = owed[c]]
  /\ UNCHANGED closed

Finish(c) ==
  /\ underway[c] # nil
  /\ underway' = [underway EXCEPT ![c] = nil]
  /\ UNCHANGED <<owed, closed>>

Close ==
  /\ closed' = TRUE
  /\ UNCHANGED <<owed, underway>>

Next ==
  \/ \E c \in Conn, r \in Incoming : Post(c, r)
  \/ \E c \in Conn : Take(c) \/ Finish(c)
  \/ Close

Spec == Init /\ [][Next]_vars
=============================================================================
