------------------------------- MODULE Message -------------------------------
(***************************************************************************)
(* The message predicates of internal/types/domain/message.go.             *)
(*                                                                         *)
(* A message (and the announce made from it) is a record with at least     *)
(* the fields id, mime and hash.  The zero value of domain.Message, which  *)
(* Channel.lastMsg and the monitor's current hold before the first update, *)
(* is the constant NoMsg.  ContentHash is never 0 for a message that left  *)
(* the monitor (Message.Zero is refused there), so the hash tests below    *)
(* need no clause for it.                                                  *)
(***************************************************************************)

CONSTANT NoMsg

\* Message.Duplicate: the same ID, or the same content under the same type.
Duplicate(m, msg) ==
    \/ m.id = msg.id
    \/ m.mime = msg.mime /\ m.hash = msg.hash

\* Message.DuplicateByAnnounce: the type is not compared.
DuplicateByAnnounce(m, ann) == m.id = ann.id \/ m.hash = ann.hash

\* The guard "!lastMsg.Zero() && lastMsg.Duplicate(msg)" of the two senders.
RepeatsLast(last, msg) == last # NoMsg /\ Duplicate(last, msg)
=============================================================================
