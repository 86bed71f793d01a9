---------------------------- MODULE PushRequest ----------------------------
(***************************************************************************)
(* The push request that travels through the control plane                 *)
(* (dubbod/discovery/pkg/model/push_context.go, type PushRequest) and the  *)
(* two ways of combining requests.                                         *)
(*                                                                         *)
(* A request is abstracted to the fields the pipeline decides on: Full,    *)
(* Forced, the push context it carries (its version; 0 is the nil context  *)
(* of a request that has not been through DiscoveryServer.Push) and        *)
(* ConfigsUpdated.  Reason, Start, AddressesUpdated and Delta are left     *)
(* out: Reason and AddressesUpdated are united by Merge exactly as         *)
(* ConfigsUpdated is, Start is a timestamp for metrics, and Delta is       *)
(* empty in every request that is merged.                                  *)
(***************************************************************************)
EXTENDS Naturals

CONSTANTS
  ConfigKey,   \* the configuration objects (model.ConfigKey)
  nil          \* Go's nil request pointer

NoContext == 0

PushRequest ==
  [full : BOOLEAN, forced : BOOLEAN, push : Nat, configs : SUBSET ConfigKey]

ASSUME NilAssumption == nil \notin PushRequest

(***************************************************************************)
(* (pr *PushRequest) Merge(other): either side may be nil; Full and Forced *)
(* are or-ed, the sets united, and the context of the other request wins   *)
(* whenever it has one.                                                    *)
(***************************************************************************)
MergeFields(pr, other) ==
  [full    |-> pr.full \/ other.full,
   forced  |-> pr.forced \/ other.forced,
   push    |-> IF other.push # NoContext THEN other.push ELSE pr.push,
   configs |-> pr.configs \union other.configs]

Merge(pr, other) ==
  IF pr = nil THEN other
  ELSE IF other = nil THEN pr
  ELSE MergeFields(pr, other)

(***************************************************************************)
(* CopyMerge is Merge on a copy of the receiver.  TLA+ values are never    *)
(* aliased, so the two differ only in the code.                            *)
(***************************************************************************)
CopyMerge(pr, other) == Merge(pr, other)
=============================================================================
