------------------------------- MODULE MCGuest ------------------------------
(* Two callers, and every pair of operations that share more than the sandbox's *)
(* life; start with a file transfer shares no more than start with exec does.   *)
EXTENDS Guest

CONSTANTS c1, c2

Pairs ==
  {<<"exec", "start">>, <<"start", "start">>, <<"exec", "write">>, <<"exec", "read">>,
   <<"write", "write">>, <<"write", "read">>, <<"read", "read">>}

PairPlans == {[c \in Callers |-> IF c = c1 THEN p[1] ELSE p[2]] : p \in Pairs}

StartPlan == {[c \in Callers |-> "start"]}
=============================================================================
