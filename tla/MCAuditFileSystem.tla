--------------------------- MODULE MCAuditFileSystem ---------------------------
(* A small instance of AuditFileSystem for TLC, with two families of behaviours. *)
EXTENDS AuditFileSystem, TLC

CONSTANTS c1, c2, c3, d1

(* c1 and c2 have the same length, so a rewrite that also restores the stamp is *)
(* visible only in the bytes; c3 is longer.                                     *)
MCSize == [c \in Contents |-> IF c = c3 THEN 2 ELSE 1]

(* "One path": the other path is absent and never asked about, and no file is c2; *)
(* every query in every order, MaxMoves moves.  "Two paths": both exist at first, *)
(* and may be the same file; three answers, one move, no file is c3.              *)
First == CHOOSE p \in Paths : TRUE
Others == Paths \ {First}
Unasked == \A p \in Others : pending.path # p /\ \A k \in Kinds : ~Recorded(k, p)
OnePath == Unasked /\ \A p \in Others : target[p] = "ENOENT"
WithinOnePath == OnePath /\ \A n \in Nodes : data[n] # c2
WithinTwoPaths == ~OnePath /\ \A n \in Nodes : data[n] # c3

(* The disk starts with every stamp and every content alike.                      *)
MCInit ==
    /\ Init
    /\ \A n \in Nodes : stamp[n] = CHOOSE s \in Stamps : TRUE
    /\ \A n \in Nodes : data[n] = c1
    /\ OnePath \/ \A p \in Paths : Resolves(p)

MCNext ==
    \/ OnePath /\ Query(First)
    \/ ~OnePath /\ Cardinality(DOMAIN obs) < 3 /\ \E p \in Paths : Query(p)
    \/ StatusResolve \/ StatusRecheck
    \/ RefuseArgument \/ seal
    \/ WithinOnePath /\ DiskMoves /\ WithinOnePath'
    \/ WithinTwoPaths /\ moves = 0 /\ DiskMoves /\ WithinTwoPaths'
MCSpec == MCInit /\ [][MCNext]_vars
================================================================================
