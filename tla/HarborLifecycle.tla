--------------------------- MODULE HarborLifecycle ---------------------------
(***************************************************************************)
(* What the adapter promises about its upstream client (spec 3 and 4.2):  *)
(* there is at most one usable client at a time; start() tears down the    *)
(* previous one before it makes a new one and stop() tears it down; every  *)
(* request that reaches Harbor is sent through the client usable at that   *)
(* moment.  A client is named by the number of clients made before it.     *)
(***************************************************************************)
EXTENDS Naturals

CONSTANT Requests

VARIABLES
    client,  \* the usable client, 0 when there is none (Stopped)
    made,    \* how many clients have been made
    sentOn   \* sentOn[r]: the client request r was sent through, 0 if none

avars == <<client, made, sentOn>>

Init ==
    /\ client = 0
    /\ made = 0
    /\ sentOn = [r \in Requests |-> 0]

\* Stopped -> Started: a fresh client becomes the usable one.
Open ==
    /\ client = 0
    /\ made' = made + 1
    /\ client' = made + 1
    /\ UNCHANGED sentOn

\* Started -> Stopped: the usable client is closed.
Close ==
    /\ client # 0
    /\ client' = 0
    /\ UNCHANGED <<made, sentOn>>

\* Request r goes to Harbor through the usable client.
Send(r) ==
    /\ sentOn[r] = 0
    /\ client # 0
    /\ sentOn' = [sentOn EXCEPT ![r] = client]
    /\ UNCHANGED <<client, made>>

Next == Open \/ Close \/ \E r \in Requests : Send(r)

Spec == Init /\ [][Next]_avars
=============================================================================
