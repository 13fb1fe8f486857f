------------------------------ MODULE MCJobLock ------------------------------
(* JobLock with three operations that contend for one form. *)
EXTENDS JobLock, TLC

CONSTANTS o1, o2, o3, t1

Forms == o1 :> t1 @@ o2 :> t1 @@ o3 :> t1
=============================================================================
