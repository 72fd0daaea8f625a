--------------------------- MODULE ThreadProtocol ---------------------------
(***************************************************************************)
(* What the request queue promises to the clients of one thread, without   *)
(* transactions, locks, jobs, lost messages or pauses: a line served in    *)
(* order of arrival by a single server, one urgent request that goes       *)
(* first, and continuations that occupy the server outside the line.       *)
(***************************************************************************)
EXTENDS Naturals

CONSTANTS
    Request,     \* requests that may wait in the line
    Resume       \* continuations of an interrupted run

VARIABLES
    known,       \* requests that were ever admitted or refused
    tickets,     \* the last ticket drawn
    line,        \* the tickets of the requests that wait in the line
    steer,       \* the urgent request that waits
    occupant     \* who holds the thread

vars == <<known, tickets, line, steer, occupant>>

Init ==
    /\ known = {}
    /\ tickets = 0
    /\ line = [q \in {} |-> 0]
    /\ steer = {}
    /\ occupant = {}

-----------------------------------------------------------------------------
\* Who is next: the urgent request, or else the oldest ticket.
Head(l, s) == IF s # {} THEN s ELSE {h \in DOMAIN l : \A o \in DOMAIN l : l[h] <= l[o]}

Without(l, q) == [o \in DOMAIN l \ {q} |-> l[o]]

\* The head of line l and steer s takes the free thread.
Serve(l, s) ==
    /\ occupant = {}
    /\ \E h \in Head(l, s) :
        /\ occupant' = {h}
        /\ line' = Without(l, h)
        /\ steer' = s \ {h}

Draw ==
    /\ tickets' = tickets + 1
    /\ UNCHANGED <<known, line, steer, occupant>>

\* A new request goes to the end of the line, or before it when it is urgent; the
\* head may be served in the same step.
Arrive(q, urgent) ==
    LET l == IF urgent THEN line
             ELSE [o \in DOMAIN line \cup {q} |-> IF o = q THEN tickets ELSE line[o]]
        s == IF urgent THEN steer \cup {q} ELSE steer
    IN
    /\ q \notin known
    /\ known' = known \cup {q}
    /\ urgent => steer = {}
    /\ \A o \in DOMAIN line : line[o] < tickets
    /\ \/ Serve(l, s)
       \/ line' = l /\ steer' = s /\ UNCHANGED occupant
    /\ UNCHANGED tickets

Refuse(q) ==
    /\ q \notin known
    /\ known' = known \cup {q}
    /\ UNCHANGED <<tickets, line, steer, occupant>>

\* A waiting request becomes the urgent one.
Promote(q) ==
    /\ q \in DOMAIN line
    /\ steer = {}
    /\ steer' = {q}
    /\ line' = Without(line, q)
    /\ UNCHANGED <<known, tickets, occupant>>

Withdraw(q) ==
    /\ q \in DOMAIN line \cup steer
    /\ line' = Without(line, q)
    /\ steer' = steer \ {q}
    /\ UNCHANGED <<known, tickets, occupant>>

ServeHead == Serve(line, steer) /\ UNCHANGED <<known, tickets>>

Continue(m) ==
    /\ occupant = {}
    /\ occupant' = {m}
    /\ UNCHANGED <<known, tickets, line, steer>>

Free ==
    /\ occupant # {}
    /\ occupant' = {}
    /\ UNCHANGED <<known, tickets, line, steer>>

Next ==
    \/ Draw
    \/ \E q \in Request, urgent \in BOOLEAN : Arrive(q, urgent)
    \/ \E q \in Request : Refuse(q) \/ Promote(q) \/ Withdraw(q)
    \/ ServeHead
    \/ \E m \in Resume : Continue(m)
    \/ Free

Spec == Init /\ [][Next]_vars
=============================================================================
