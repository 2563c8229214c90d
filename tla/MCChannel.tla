------------------------------ MODULE MCChannel ------------------------------
(***************************************************************************)
(* Instances of Channel for TLC.  Four file messages against a history of  *)
(* two force evictions; t1 and t2 are two copies of one text (two IDs, one *)
(* hash), and v1 carries the hash of f1 under another ID, which is what a  *)
(* second copy of the same file is.                                        *)
(***************************************************************************)
EXTENDS Channel

CONSTANTS f1, f2, f3, t1, t2, v1, h1, h2, h3, h4

Msg(id, mime, hash) == [id |-> id, mime |-> mime, hash |-> hash]

MCMessages == {Msg(f1, "path", h1), Msg(f2, "path", h2), Msg(f3, "path", h3),
               Msg(t1, "text", h4), Msg(t2, "text", h4), Msg(v1, "path", h1)}
=============================================================================
