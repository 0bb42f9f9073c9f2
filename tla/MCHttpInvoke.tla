---------------------------- MODULE MCHttpInvoke ----------------------------
(* Model-checking instance of HttpInvoke. *)
EXTENDS HttpInvoke, TLC

Op(id, refs, secretInput, method, secret, before, after) ==
  [id |-> id, refs |-> refs, secretInput |-> secretInput, method |-> method,
   secret |-> secret, before |-> before, after |-> after]

Read1 == Op("s1", {}, FALSE, "GET", FALSE, <<>>, <<"exec">>)
Write1 == Op("s1", {}, FALSE, "POST", TRUE, <<"exec", "headers">>, <<>>)
Sign2 == Op("s2", {"s1"}, FALSE, "GET", FALSE, <<"secret_headers">>, <<"transform">>)
Send2 == Op("s2", {}, TRUE, "PUT", FALSE, <<>>, <<>>)
Loop2 == Op("s2", {"s2"}, FALSE, "GET", TRUE, <<>>, <<>>)

(* Operations, workflows, and sources that Parse refuses. *)
Sources ==
  {[kind |-> "operation", steps |-> <<o>>] : o \in {Read1, Write1}}
    \cup {[kind |-> "workflow", steps |-> <<o, p>>] :
            o \in {Read1, Write1}, p \in {Sign2, Send2, Loop2, Write1}}

Symmetric == Permutations(Run) \cup Permutations(Writer) \cup Permutations(Value)
=============================================================================
