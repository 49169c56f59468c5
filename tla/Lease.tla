------------------------------- MODULE Lease -------------------------------
(***************************************************************************)
(* What a lease promises to its clients: the abstract specification that   *)
(* LeaseLocks implements.  There is one holder at a time; a client is let  *)
(* in only while it is the holder and its term runs; and a holder that is  *)
(* in loses the lease by its term's end alone, never by what another       *)
(* client does.  The operator's force_release is no part of the promise.   *)
(***************************************************************************)
EXTENDS Naturals

CONSTANTS Clients, Term, None

VARIABLES
    clock,   \* the time
    holder,  \* the client the lease is granted to, or None
    ends,    \* the end of its term
    client   \* each client: "out", "asking", "in", "leaving"

vars == <<clock, holder, ends, client>>

Init ==
    /\ clock = 1
    /\ holder = None
    /\ ends = 0
    /\ client = [c \in Clients |-> "out"]

Move(c, to) == client' = [client EXCEPT ![c] = to]

Ask(c) ==
    /\ client[c] = "out"
    /\ Move(c, "asking")
    /\ UNCHANGED <<clock, holder, ends>>

(* A request that its client has meanwhile given up may still be granted.  *)
Grant(c) ==
    /\ client[c] \in {"asking", "leaving"}
    /\ holder = None \/ ends < clock
    /\ holder' = c
    /\ ends' \in 1 .. clock + Term
    /\ UNCHANGED <<clock, client>>

GoIn(c) ==
    /\ client[c] = "asking"
    /\ holder = c /\ clock < ends
    /\ Move(c, "in")
    /\ UNCHANGED <<clock, holder, ends>>

Extend(c) ==
    /\ client[c] = "in"
    /\ holder = c
    /\ ends' \in ends .. clock + Term
    /\ UNCHANGED <<clock, holder, client>>

Leave(c) ==
    /\ client[c] \in {"asking", "in"}
    /\ Move(c, "leaving")
    /\ UNCHANGED <<clock, holder, ends>>

GiveBack(c) ==
    /\ client[c] = "leaving"
    /\ holder = c
    /\ holder' = None /\ ends' = 0
    /\ UNCHANGED <<clock, client>>

Lapse ==
    /\ holder # None /\ ends < clock
    /\ holder' = None /\ ends' = 0
    /\ UNCHANGED <<clock, client>>

(* The clients' process dies; what was granted stays granted. *)
Crash ==
    /\ client' = [c \in Clients |->
                    IF client[c] = "out" THEN "out" ELSE "leaving"]
    /\ UNCHANGED <<clock, holder, ends>>

Tick ==
    /\ clock' = clock + 1
    /\ UNCHANGED <<holder, ends, client>>

Next ==
    \/ \E c \in Clients :
          \/ Ask(c) \/ Grant(c) \/ GoIn(c) \/ Extend(c)
          \/ Leave(c) \/ GiveBack(c)
    \/ Lapse \/ Crash \/ Tick

Spec == Init /\ [][Next]_vars
=============================================================================
