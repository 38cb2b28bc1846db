------------------------------- MODULE PinnedView ------------------------------
(* What a recording file system promises the parser that reads through it       *)
(* (class comment of CppAuditFileSystem, CppAuditFileSystem.h:33-36).  The view *)
(* is a set of answers that only grows.  An answer, once given, is never        *)
(* revised.  Until the view breaks, a single frozen file can stand behind       *)
(* everything it said about a path.  Closing it admits no new answer.  A broken *)
(* view stays broken and silent.                                                *)
EXTENDS Integers

CONSTANTS Kinds, Paths, Answers, NoPhysical, NoMetadata

VARIABLES view, broken, closed
vars == <<view, broken, closed>>

(* A listing's ENOTDIR may come from an existing regular file, and locality is  *)
(* answered by the volume; neither says whether the path exists.                *)
SaysAbsent(k, a) == a.err = "ENOENT" \/ (a.err = "ENOTDIR" /\ k # "Directory")
Says(v, p) == {k \in Kinds \ {"Locality"} : <<k, p>> \in DOMAIN v}

(* One file, or its absence, explains all answers about p. *)
Explained(v, p) ==
    \A j, k \in Says(v, p) :
        LET a == v[<<j, p>>]
            b == v[<<k, p>>]
        IN  /\ a.err = "ok" => ~SaysAbsent(k, b)
            /\ SaysAbsent(j, a) /\ SaysAbsent(k, b) => a.err = b.err
            /\ a.err = "ok" /\ b.err = "ok" =>
                  /\ NoMetadata \notin {a.status, b.status} => a.status = b.status
                  /\ NoPhysical \notin {a.phys, b.phys} => a.phys = b.phys

Extends(k) ==
    /\ k \notin DOMAIN view
    /\ DOMAIN view' = DOMAIN view \cup {k}
    /\ view'[k] \in Answers
    /\ \A x \in DOMAIN view : view'[x] = view[x]

Init == view = [x \in {} |-> NoPhysical] /\ ~broken /\ ~closed

Reply == \E k \in Kinds \X Paths :
    /\ ~broken /\ ~closed
    /\ Extends(k)
    /\ Explained(view', k[2])
    /\ UNCHANGED <<broken, closed>>

(* The view may break while it answers, but never while closed. *)
Break ==
    /\ ~broken /\ broken' = TRUE
    /\ \/ UNCHANGED view
       \/ ~closed /\ \E k \in Kinds \X Paths : Extends(k)
    /\ UNCHANGED closed

Close == closed' = TRUE /\ UNCHANGED <<view, broken>>

Next == Reply \/ Break \/ Close

Spec == Init /\ [][Next]_vars
================================================================================
