------------------------------ MODULE MCReviews ------------------------------
(***************************************************************************)
(* Three overlapping calls of ann and bob on a high-risk case (twice ann), *)
(* one call each on a standard case and on a liveness rejection, which     *)
(* both of them escalate.                                                  *)
(***************************************************************************)
EXTENDS Reviews

CONSTANTS high, live, std, ann, bob, a1, a2, a3, b1, b2, x1, x2

MCTargetOf == [c \in Call |-> IF c \in {x1, x2, a2} THEN live
                              ELSE IF c = b2 THEN std ELSE high]
MCReviewerOf == [c \in Call |-> IF c \in {a1, a2, a3, x1} THEN ann ELSE bob]
MCVerdictOf == [c \in Decision |-> IF c = b1 THEN "rejected" ELSE "approved"]
=============================================================================
