---------------------------- MODULE MCNativeFileRead ---------------------------
(* A small instance of NativeFileRead for TLC: bytes and names are 1 and 2. *)
EXTENDS NativeFileRead, TLC

CONSTANT f3      \* a file that reports a negative size; other pseudo files report 0

MCTexts == {<<1>>, <<1, 2>>, <<2, 1>>, <<1, 1, 2>>}
MCListings == {<<1>>, <<1, 2>>, <<1, 2, 3>>}
MCReports == [i \in Pseudo |-> IF i = f3 THEN -1 ELSE 0]

(* Every object starts with the first content of its type. *)
MCInit ==
    /\ Init
    /\ \A i \in Inodes : data[i] = IF i \in Directories THEN <<1>> ELSE <<1, 2>>
    /\ link # None

MCSpec == MCInit /\ [][Next]_vars
================================================================================
