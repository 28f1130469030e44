--------------------------- MODULE ClientInvariant ---------------------------
(***************************************************************************)
(* The inductive invariant of Client, in named parts.  The properties a    *)
(* caller relies on speak of endings and charges; what makes them          *)
(* inductive is how the requests on the wire relate to the two flags and   *)
(* to the one answer a call is awaiting.                                   *)
(***************************************************************************)
EXTENDS Client

Unpaid == {"idle", "fetching", "parsing", "tracing"}   \* nothing sent yet
Paying == {"authority", "sent", "observing", "body"}   \* below wrapFetch
Cleared == Paying \cup {"uncertain"}

WireOf(c) == {q \in wire : q.call = c}

\* A call past its envelope holds a binding, and what it sent or was charged
\* for was sent after that: it names the call's own key and binding.
Bound ==
  /\ \A c \in Calls : pc[c] \in Cleared \cup {"tracing"} => binding[c] \in Revisions
  /\ \A m \in wire \cup charges :
       /\ pc[m.call] \notin Unpaid
       /\ m.key = key[m.call]
       /\ m.revision = binding[m.call]

\* Whatever was signed was challenged within the cap.
Priced == /\ \A q \in wire : q.signed => q.amount \in Amounts /\ q.amount <= Cap
          /\ \A ch \in charges : ch.amount <= Cap

\* The observer of a call holds its identity before anything is sent.
Traced == \A c \in Calls : c \in Observed /\ (pc[c] \in Cleared \/ WireOf(c) # {}
                                               \/ ChargedBy(c))
                             => Identity(c) \in shown

\* An outcome is set exactly when a call is done; a call that is not paying
\* has no locals, and no answer waits for one that is not listening.
Settled == \A c \in Calls : /\ pc[c] = "done" <=> outcome[c] # "none"
                            /\ pc[c] \notin Cleared => frame[c] = NoFrame
                            /\ pc[c] # "sent" => reply[c] = NoReply

\* Requests of a call are numbered in the order it sent them, and the awaited
\* one is off the wire once it has been answered.
Numbered ==
  /\ \A q, r \in wire : q.call = r.call /\ q.n = r.n => q = r
  /\ \A q \in wire : pc[q.call] \in Paying => q.n <= frame[q.call].sends
  /\ \A q \in wire : Awaited(q) => reply[q.call] = NoReply

\* The flags: as long as neither is set, everything the call sent has been
\* answered, but for the request it is awaiting, and it has been charged
\* nothing it is not about to be told of.
Flagged ==
  \A c \in Calls :
    /\ pc[c] \in Paying /\ ~frame[c].transportFailed =>
         \A q \in WireOf(c) : Awaited(q)
    /\ /\ pc[c] \in Paying
       /\ ~frame[c].transportFailed
       /\ ~frame[c].responseMayHaveExecuted
       /\ ChargedBy(c)
       => pc[c] = "sent" /\ reply[c].status \in {200, 500}

Clean == \A c \in Calls : outcome[c] = "error" => WireOf(c) = {} /\ ~ChargedBy(c)

Admitted(c) == \E ch \in charges : ch.key = key[c] /\ ch.revision = binding[c]

\* A 200 is the answer to an admission, wherever it is on its way.
Granted == \A c \in Calls :
             \/ pc[c] = "sent" /\ reply[c].status = 200
             \/ pc[c] \in Paying \ {"sent"} /\ frame[c].last = 200
             \/ outcome[c] = "success"
             => Admitted(c)

IInv == /\ TypeOK /\ Bound /\ Priced /\ Traced /\ Settled /\ Numbered
        /\ Flagged /\ Clean /\ Granted
=============================================================================
