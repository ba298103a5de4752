---------------------------- MODULE SharedObjects ----------------------------
(***************************************************************************)
(* What the driver promises about the objects it shares: the video mixer   *)
(* of all surfaces of a geometry, the output surface of all surfaces put   *)
(* on a drawable.  There is one for each key, it is made when the first    *)
(* user asks for the key, found by the others, and gone when the last one  *)
(* has let go of it.  Reference counts, searches and steps that fail are   *)
(* invisible.  Mixers and OutputSurfaces implement this module.            *)
(***************************************************************************)

CONSTANTS
  Holders,    (* who may hold a reference                                  *)
  Ids,        (* IDs of the objects                                        *)
  Keys,       (* what an object is made for                                *)
  NONE        (* the key of an ID that is not in use                       *)

VARIABLES
  uses,       (* the objects each user refers to                           *)
  key         (* what each object was made for                             *)

vars == <<uses, key>>

Init ==
  /\ uses = [u \in Holders |-> {}]
  /\ key = [id \in Ids |-> NONE]

(* The users U ask for the object of k, which exists or is made.           *)
Acquire(U, id, k) ==
  /\ \/ key[id] = k
     \/ key[id] = NONE /\ \A other \in Ids : key[other] # k
  /\ uses' = [u \in Holders |-> IF u \in U THEN uses[u] \cup {id} ELSE uses[u]]
  /\ key' = [key EXCEPT ![id] = k]

(* All references of the users U go to another user.                       *)
Pass(U, v) ==
  /\ v \notin U
  /\ uses' = [w \in Holders |-> IF w \in U THEN {}
                               ELSE IF w = v THEN UNION {uses[u] : u \in U \cup {v}}
                               ELSE uses[w]]
  /\ UNCHANGED key

(* The users U let go of the objects A; what nobody uses any more is gone. *)
Release(U, A) ==
  /\ uses' = [u \in Holders |-> IF u \in U THEN uses[u] \ A ELSE uses[u]]
  /\ key' = [id \in Ids |-> IF \E u \in Holders : id \in uses'[u] THEN key[id] ELSE NONE]

Next ==
  \/ \E U \in (SUBSET Holders) \ {{}}, id \in Ids, k \in Keys : Acquire(U, id, k)
  \/ \E U \in (SUBSET Holders) \ {{}}, v \in Holders : Pass(U, v)
  \/ \E U \in (SUBSET Holders) \ {{}}, A \in SUBSET Ids : Release(U, A)

Spec == Init /\ [][Next]_vars
-----------------------------------------------------------------------------
(* What users can rely on: an object is there exactly as long as somebody  *)
(* uses it, and a key has one object.                                      *)
LivesWhileUsed ==
  /\ \A id \in Ids : key[id] # NONE <=> \E u \in Holders : id \in uses[u]
  /\ \A id, other \in Ids : key[id] # NONE /\ key[id] = key[other] => id = other
=============================================================================
