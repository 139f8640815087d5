------------------------------ MODULE SyncRpc ------------------------------
(***************************************************************************)
(* What the codec bridge promises to the code above rpc(): a caller issues *)
(* numbered requests one after the other; a request that returns has been  *)
(* served; and as long as no request has failed, no request is served more *)
(* than once.  After a failure the promise is weaker: a request may be     *)
(* served late or again, but still only a served request returns.          *)
(***************************************************************************)
EXTENDS Naturals

VARIABLES
    current,    \* number of the request last issued
    pending,    \* the caller is waiting for it
    served,     \* how often each request was served: not, once, more
    failed      \* some request has failed

rpcVars == <<current, pending, served, failed>>

Init ==
    /\ current = 0
    /\ pending = FALSE
    /\ served = [n \in {} |-> 0]
    /\ failed = FALSE

Issue ==
    /\ ~pending
    /\ current' = current + 1
    /\ pending' = TRUE
    /\ served' = [n \in 1..(current + 1) |->
                    IF n \in DOMAIN served THEN served[n] ELSE 0]
    /\ UNCHANGED failed

(* The server works on the current request, or, after a failure, on any    *)
(* request issued so far.                                                  *)
Serve(n) ==
    /\ n \in 1..current
    /\ ~failed => /\ pending
                  /\ n = current
                  /\ served[n] = 0
    /\ served' = [served EXCEPT ![n] = IF @ < 2 THEN @ + 1 ELSE @]
    /\ UNCHANGED <<current, pending, failed>>

Return ==
    /\ pending
    /\ served[current] # 0
    /\ pending' = FALSE
    /\ UNCHANGED <<current, served, failed>>

Fail ==
    /\ failed' = TRUE
    /\ pending' = FALSE
    /\ UNCHANGED <<current, served>>

Next == Issue \/ (\E n \in 1..current : Serve(n)) \/ Return \/ Fail

Spec == Init /\ [][Next]_rpcVars
=============================================================================
