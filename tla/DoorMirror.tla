----------------------------- MODULE DoorMirror -----------------------------
(***************************************************************************)
(* What the terminals promise the table of credentials.  An order carries  *)
(* what the table wants of a credential when the order is taken; whatever  *)
(* is wanted afterwards, terminals only ever come to hold what an order    *)
(* under way carries, and an order is obeyed once.  By hand, where that    *)
(* happens, a PIN may be taken away or given another validity, never       *)
(* another door.                                                           *)
(***************************************************************************)
CONSTANTS
    Credentials, Workers, Doors,
    Absent,         \* a door that does not hold the PIN
    Tampering       \* terminals are edited by hand

VARIABLES
    wanted,     \* for each credential, what each door should hold
    orders,     \* for each worker, its order under way, if any
    door        \* for each credential, what each door holds

OrderFor(c, want) == [cred |-> c, want |-> want]

Shut == [d \in Doors |-> Absent]

Init ==
    /\ wanted = [c \in Credentials |-> Shut]
    /\ orders = [k \in Workers |-> {}]
    /\ door = [c \in Credentials |-> Shut]

\* What is wanted of c changes, and the worker may take an order for it.
Want(k, c) ==
    /\ orders[k] = {}
    /\ \A e \in Credentials \ {c} : wanted'[e] = wanted[e]
    /\ \E taken \in {{}, {OrderFor(c, wanted'[c])}} : orders' = [orders EXCEPT ![k] = taken]
    /\ UNCHANGED door

Take(k, c) ==
    /\ orders[k] = {}
    /\ orders' = [orders EXCEPT ![k] = {OrderFor(c, wanted[c])}]
    /\ UNCHANGED <<wanted, door>>

Obey(k, c) ==
    /\ \E order \in orders[k], reached \in SUBSET Doors :
         /\ order.cred = c
         /\ door' = [door EXCEPT ![c] =
              [d \in Doors |-> IF d \in reached THEN order.want[d] ELSE door[c][d]]]
    /\ orders' = [orders EXCEPT ![k] = {}]
    /\ UNCHANGED wanted

\* Orders end without a terminal that obeys: a conflict, a crash.
Forget(who) ==
    /\ orders' = [k \in Workers |-> IF k \in who THEN {} ELSE orders[k]]
    /\ UNCHANGED <<wanted, door>>

Edit(c, d) ==
    /\ Tampering
    /\ \A e \in Credentials \ {c} : door'[e] = door[e]
    /\ \A e \in Doors \ {d} : door'[c][e] = door[c][e]
    /\ door'[c][d] = Absent \/ door'[c][d].pin = door[c][d].pin
    /\ UNCHANGED <<wanted, orders>>

Next ==
    \/ \E k \in Workers, c \in Credentials : Want(k, c) \/ Take(k, c) \/ Obey(k, c)
    \/ \E who \in SUBSET Workers : Forget(who)
    \/ \E c \in Credentials, d \in Doors : Edit(c, d)

Spec == Init /\ [][Next]_<<wanted, orders, door>>

=============================================================================
