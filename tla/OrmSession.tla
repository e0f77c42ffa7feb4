----------------------------- MODULE OrmSession -----------------------------
(***************************************************************************)
(* How an object of a database session becomes an UPDATE.  The session     *)
(* (db/session.py) compares each attribute with the value it loaded and    *)
(* sets only the columns that differ; the row under the UPDATE may have    *)
(* been written by someone else since it was loaded.                       *)
(***************************************************************************)

\* The row after the UPDATE: loaded as old, assigned new, written over base.
Flushed(old, new, base) ==
    [col \in DOMAIN base |-> IF new[col] # old[col] THEN new[col]
                                                    ELSE base[col]]
=============================================================================
