--------------------------------- MODULE Requests ---------------------------------
(* The functions of this repository that keep no state are modelled as operators, *)
(* each in the module of its component.  What is asked of them is a request, and  *)
(* one step answers it.                                                           *)
VARIABLES
    request,     \* a record; its field "kind" names the function
    reply        \* <<>>, or the sequence of answers

Answer(kinds, answer) ==
    /\ reply = <<>> /\ request.kind \in kinds
    /\ reply' = answer
    /\ UNCHANGED request
Answered(kind) == reply # <<>> /\ request.kind = kind
================================================================================
