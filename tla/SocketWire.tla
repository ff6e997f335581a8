----------------------------- MODULE SocketWire -----------------------------
(***************************************************************************)
(* What a socket client and a socket server share: the client's end of the *)
(* connections between them.  Each dial makes a connection of its own.     *)
(***************************************************************************)
CONSTANT Conns   \* connections of tcp peers, or udp peers

VARIABLES
    kind,   \* which pair this is: tcp or udp
    fd      \* the client's descriptor of each connection

wireVars == <<kind, fd>>

WireTypeOK ==
    /\ kind \in {"tcp", "udp"}
    /\ fd \in [Conns -> {"none", "open", "closed"}]

WireInit ==
    /\ kind \in {"tcp", "udp"}
    /\ fd = [c \in Conns |-> "none"]
=============================================================================
