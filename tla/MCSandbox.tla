----------------------------- MODULE MCSandbox ------------------------------
(* Model values for Sandbox, and a bound on what a second client does.     *)
EXTENDS Sandbox

CONSTANTS c1, c2, p1, p2, reaper, quiesce

OneClient  == {c1}
TwoClients == {c1, c2}
OneProxy   == {p1}
TwoProxies == {p1, p2}

InUse(c)   == pc[c] # "idle" \/ cache[c] # 0 \/ cleaning[c] \/ del[c] # "none"
Starts(c)  == pc[c] = "idle" /\ pc'[c] # "idle"
Arrives(p) == proxy[p] = "none" /\ proxy'[p] # "none"

\* c1 meets everything.  The second client brings the stale caches of another process:
\* it starts calls while nothing has failed, no request is proxied and nobody migrates,
\* and while it is in use nothing of that begins.  A call starts while the other client is
\* idle or waits for its delete.  Only steps that nothing forces are left out: the retry
\* of an owed cleanup starts whenever it can.
Alone == \A c \in Client \ {c1} : ~InUse(c)

Bounded ==
    /\ \A p \in Proxy : Arrives(p) => Alone /\ gate = "open"
    /\ faults' # faults => Alone
    /\ gate' # gate => Alone /\ \A p \in Proxy : proxy[p] = "none"
    /\ \A c \in Client : Starts(c) /\ ~cleaning[c] =>
          /\ \/ c = c1
             \/ faults = 0 /\ gate = "open" /\ \A p \in Proxy : proxy[p] = "none"
          /\ \A d \in Client \ {c} : pc[d] \in {"idle", "deleting"}

BoundedSpec == Init /\ [][Next /\ Bounded]_vars /\ Fairness
=============================================================================
