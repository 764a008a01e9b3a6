---------------------------- MODULE MCRagIngestion ----------------------------
(* Small instances of RagIngestion for TLC.                                *)
EXTENDS RagIngestion, TLC

CONSTANTS u1, u2, u3, u4, p1, p2

(* Three uploads for one process, whose queue is too short for them, and   *)
(* one for another, which is configured with another embedding model.      *)
TwoQueues == [u \in Uploads |-> IF u = u3 THEN p2 ELSE p1]
TwoModels == [p \in Processes |-> IF p = p2 THEN "new" ELSE "old"]

OneOwner == [u \in Uploads |-> "owner"]
(* Uploads of one process clash by name, of different ones by content.     *)
SameName == [u \in Uploads |-> IF u \in {u1, u2} THEN "a" ELSE u]
SameContent == [u \in Uploads |-> IF u \in {u1, u3} THEN "x" ELSE u]
=============================================================================
