------------------------------ MODULE MCSockets ------------------------------
(***************************************************************************)
(* Two instances of Sockets that together have its interesting cases: a    *)
(* server and a client whose calls come from one goroutine, and a client   *)
(* whose calls come from several while the server does not get to run.     *)
(***************************************************************************)
EXTENDS Sockets

CONSTANT Alone   \* the caller that the server is checked with

VARIABLE several   \* whether several goroutines call

BoundedInit ==
    /\ SocketInit
    /\ several \in BOOLEAN
    /\ several => ~polite

BoundedNext ==
    /\ SocketNext
    /\ several => UNCHANGED <<srv, acc, reader, closer, sent>>
    /\ ~several => \A g \in Callers \ {Alone} : cpc'[g] = "idle"
    /\ UNCHANGED several

BoundedSpec ==
    BoundedInit /\ [][BoundedNext]_<<socketVars, several>> /\ ServerFairness
=============================================================================
