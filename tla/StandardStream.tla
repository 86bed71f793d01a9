--------------------------- MODULE StandardStream ---------------------------
(***************************************************************************)
(* The stream adapter for standard xDS clients                             *)
(* (dubbod/discovery/pkg/xds/standard_ads.go).  The server prefetches the  *)
(* types a client will need; the adapter keeps the latest response of each *)
(* type back until the client subscribes to it.  Recv runs on the stream's *)
(* receiving goroutine, Send on the goroutine of its loop; they share the  *)
(* maps under the state lock and the wire under the writer lock.           *)
(*                                                                         *)
(* A response is its number among the responses of its type; 0 is none.    *)
(***************************************************************************)
EXTENDS Naturals

CONSTANTS
  Type, NoType, \* resource types, and none of them
  MaxResponses  \* bound on the responses of one type

ASSUME StandardStreamAssumption == MaxResponses \in Nat /\ NoType \notin Type

VARIABLES
  watched, named, pending,  \* the maps of standardStream
  writer,    \* holder of the writer lock: "recv", "send" or "free"
  recv,      \* [at, type, held]: where Recv is, and the response it drains
  send,      \* [at, type]: where Send is
  made,      \* per type: responses handed to Send so far
  wire       \* per type: the last response written to the client

vars == <<watched, named, pending, writer, recv, send, made, wire>>

None == 0
At(place, t, held) == [at |-> place, type |-> t, held |-> held]
RecvIdle == At("idle", NoType, None)
SendIdle == [at |-> "idle", type |-> NoType]

Init ==
  /\ watched = [t \in Type |-> FALSE] /\ named = [t \in Type |-> FALSE]
  /\ pending = [t \in Type |-> None]
  /\ writer = "free" /\ recv = RecvIdle /\ send = SendIdle
  /\ made = [t \in Type |-> 0] /\ wire = [t \in Type |-> 0]

-----------------------------------------------------------------------------
(* Recv *)

\* The first critical section.  A request without names is a subscription to
\* everything until names have been used for its type, then an unsubscription.
Recv(t, names) ==
  /\ recv.at = "idle"
  /\ named' = [named EXCEPT ![t] = @ \/ names]
  /\ LET wanted == names \/ ~named[t]
     IN /\ watched' = IF wanted THEN watched ELSE [watched EXCEPT ![t] = FALSE]
        /\ recv' = IF ~wanted \/ watched[t] THEN RecvIdle ELSE At("subscribe", t, None)
  /\ UNCHANGED <<pending, writer, send, made, wire>>

\* Mutant: the pending response is taken without the writer lock.
SubscribeUnlocked ==
  /\ recv.at = "subscribe"
  /\ watched' = [watched EXCEPT ![recv.type] = TRUE]
  /\ recv' = At("drain", recv.type, pending[recv.type])
  /\ pending' = [pending EXCEPT ![recv.type] = None]
  /\ UNCHANGED <<named, writer, send, made, wire>>

\* Mutant: only the watch is published; the pending response is dropped.
SubscribeDrops ==
  /\ recv.at = "subscribe" /\ writer = "free"
  /\ writer' = "recv"
  /\ watched' = [watched EXCEPT ![recv.type] = TRUE]
  /\ recv' = At("drain", recv.type, None)
  /\ pending' = [pending EXCEPT ![recv.type] = None]
  /\ UNCHANGED <<named, send, made, wire>>

\* The watch is published and the pending response taken under both locks.
Subscribe ==
  /\ recv.at = "subscribe" /\ writer = "free"
  /\ writer' = "recv"
  /\ watched' = [watched EXCEPT ![recv.type] = TRUE]
  /\ recv' = At("drain", recv.type, pending[recv.type])
  /\ pending' = [pending EXCEPT ![recv.type] = None]
  /\ UNCHANGED <<named, send, made, wire>>

\* Mutant: the drain does not give its place up.
DrainStays ==
  /\ recv.at = "drain"
  /\ wire' = IF recv.held = None THEN wire ELSE [wire EXCEPT ![recv.type] = recv.held]
  /\ writer' = "free"
  /\ recv' = [recv EXCEPT !.type = NoType]
  /\ UNCHANGED <<watched, named, pending, send, made>>

Drain ==
  /\ recv.at = "drain"
  /\ wire' = IF recv.held = None THEN wire ELSE [wire EXCEPT ![recv.type] = recv.held]
  /\ writer' = "free"
  /\ recv' = RecvIdle
  /\ UNCHANGED <<watched, named, pending, send, made>>

\* The transport fails, or the type has no translation: Recv ends the stream.
RecvFails ==
  /\ recv.at \in {"idle", "drain"}
  /\ writer' = IF recv.at = "drain" THEN "free" ELSE writer
  /\ recv' = At("ended", NoType, None)
  /\ UNCHANGED <<watched, named, pending, send, made, wire>>

-----------------------------------------------------------------------------
(* Send *)

\* The response is translated; one that cannot be ends the stream.
Send(t) ==
  /\ send.at = "idle" /\ made[t] < MaxResponses
  /\ made' = [made EXCEPT ![t] = @ + 1]
  /\ send' = [at |-> "locking", type |-> t]
  /\ UNCHANGED <<watched, named, pending, writer, recv, wire>>

Lock ==
  /\ send.at = "locking" /\ writer = "free"
  /\ writer' = "send"
  /\ send' = [send EXCEPT !.at = "deciding"]
  /\ UNCHANGED <<watched, named, pending, recv, made, wire>>

\* Mutant: the first response kept for a type stays, later ones are dropped.
KeepFirst ==
  /\ send.at = "deciding" /\ ~watched[send.type]
  /\ pending' = [pending EXCEPT ![send.type] = IF @ = None THEN made[send.type] ELSE @]
  /\ writer' = "free" /\ send' = SendIdle
  /\ UNCHANGED <<watched, named, recv, made, wire>>

\* Not watched: the response replaces the one kept for its type.
Keep ==
  /\ send.at = "deciding" /\ ~watched[send.type]
  /\ pending' = [pending EXCEPT ![send.type] = made[send.type]]
  /\ writer' = "free" /\ send' = SendIdle
  /\ UNCHANGED <<watched, named, recv, made, wire>>

\* Mutant: every response is written at once.
DecideAlways ==
  /\ send.at = "deciding"
  /\ send' = [send EXCEPT !.at = "writing"]
  /\ UNCHANGED <<watched, named, pending, writer, recv, made, wire>>

Decide ==
  /\ send.at = "deciding" /\ watched[send.type]
  /\ send' = [send EXCEPT !.at = "writing"]
  /\ UNCHANGED <<watched, named, pending, writer, recv, made, wire>>

Write ==
  /\ send.at = "writing"
  /\ wire' = [wire EXCEPT ![send.type] = made[send.type]]
  /\ writer' = "free" /\ send' = SendIdle
  /\ UNCHANGED <<watched, named, pending, recv, made>>

SendFails ==
  /\ send.at \in {"locking", "writing"}
  /\ writer' = IF send.at = "writing" THEN "free" ELSE writer
  /\ send' = [at |-> "ended", type |-> NoType]
  /\ UNCHANGED <<watched, named, pending, recv, made, wire>>

-----------------------------------------------------------------------------
Next ==
  \/ \E t \in Type : Send(t) \/ \E names \in BOOLEAN : Recv(t, names)
  \/ Subscribe \/ Drain \/ RecvFails \/ Lock \/ Keep \/ Decide \/ Write \/ SendFails

Spec == Init /\ [][Next]_vars

-----------------------------------------------------------------------------
TypeOK ==
  /\ watched \in [Type -> BOOLEAN] /\ named \in [Type -> BOOLEAN]
  /\ pending \in [Type -> Nat] /\ made \in [Type -> Nat] /\ wire \in [Type -> Nat]
  /\ writer \in {"free", "recv", "send"}
  /\ recv \in [at : {"idle", "subscribe", "drain", "ended"}, type : Type \union {NoType}, held : Nat]
  /\ send \in [at : {"idle", "locking", "deciding", "writing", "ended"}, type : Type \union {NoType}]
  /\ recv.at \in {"subscribe", "drain"} => recv.type \in Type
  /\ send.at \in {"locking", "deciding", "writing"} => send.type \in Type
  /\ send.at = "idle" => send.type = NoType

\* "a newer push cannot overtake the older cached response": the responses of
\* a type reach the client in the order the server made them.
InOrder == [][\A t \in Type : wire'[t] >= wire[t]]_vars

\* Recv and Send never write to the client at the same time: the writer lock
\* is held by whoever is draining or writing, and is free otherwise.
WriterHeld ==
  /\ (writer = "recv") <=> (recv.at = "drain")
  /\ (writer = "send") <=> (send.at \in {"deciding", "writing"})

\* What is kept for a type, being drained or on the wire: the newest response
\* is never replaced by an older one and never dropped while the stream lives.
LatestRetained ==
  \A t \in Type :
    send.at # "ended" /\ send.type # t /\ recv.at # "ended"
      => \/ pending[t] = made[t] \/ wire[t] = made[t]
         \/ recv.at = "drain" /\ recv.type = t /\ recv.held = made[t]

\* Between requests, a client has the newest response of every type it watches.
WatchedIsCurrent ==
  \A t \in Type :
    (watched[t] /\ recv.at = "idle" /\ send.at # "ended" /\ send.type # t) => wire[t] = made[t]

\* Nothing is written for a type the client has not subscribed to.
OnlySubscribed == \A t \in Type : wire[t] # None => (named[t] \/ watched[t])
=============================================================================
