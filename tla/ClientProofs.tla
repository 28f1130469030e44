---------------------------- MODULE ClientProofs ----------------------------
(***************************************************************************)
(* IInv is an invariant of Client for every set of calls, keys, amounts    *)
(* and payment authorities, and with it the three safety properties.  One  *)
(* lemma per named part says that every action preserves it; the lemmas    *)
(* before them say what the operators shared by several actions do.        *)
(***************************************************************************)
EXTENDS ClientTyping

(***************************************************************************)
(* What a step leaves of the control state, call by call.                  *)
(***************************************************************************)
LEMMA EndShape ==
  ASSUME TypeOK, NEW c \in Calls, NEW o, End(c, o)
  PROVE  /\ pc'[c] = "done" /\ outcome'[c] = o /\ frame'[c] = NoFrame
         /\ \A d \in Fetchers : d # c => pc'[d] = pc[d]
         /\ \A d \in Calls : d # c => frame'[d] = frame[d] /\ outcome'[d] = outcome[d]
  BY DEF TypeOK, End, Fetchers

LEMMA GotoShape ==
  ASSUME TypeOK, NEW c \in Calls, NEW phase, NEW f, Goto(c, phase, f)
  PROVE  /\ pc'[c] = phase /\ frame'[c] = f /\ outcome' = outcome
         /\ \A d \in Fetchers : d # c => pc'[d] = pc[d]
         /\ \A d \in Calls : d # c => frame'[d] = frame[d]
  BY DEF TypeOK, Goto, Fetchers

LEMMA CaughtShape ==
  ASSUME TypeOK, NEW c \in Calls, Caught(c)
  PROVE  /\ \A d \in Calls : d # c => pc'[d] = pc[d] /\ frame'[d] = frame[d]
         /\ pc'[c] \in {"done", "uncertain"}
         /\ \A d \in Calls : outcome'[d] # outcome[d] => outcome'[d] = "error"
  BY EndShape, GotoShape DEF Caught, Fetchers

LEMMA BodyReadShape ==
  ASSUME TypeOK, NEW c \in Calls, BodyRead(c)
  PROVE  /\ \A d \in Calls : d # c => pc'[d] = pc[d] /\ frame'[d] = frame[d]
         /\ pc'[c] \in {"done", "uncertain"}
         /\ \A d \in Calls : d # c => outcome'[d] = outcome[d]
         /\ outcome'[c] = "success" => frame[c].last = 200 \/ outcome[c] = "success"
  BY EndShape, GotoShape DEF BodyRead, Fetchers, ok

(***************************************************************************)
(* The three ways an authority sends are one for everything but types.     *)
(***************************************************************************)
Sends(c) == /\ pc[c] = "authority"
            /\ \E revision, signed, amount : BaseFetch(c, revision, signed, amount)
            /\ UNCHANGED <<client, catalog, service, binding, reply, shown>>

LEMMA SendsShape ==
  ASSUME NEW c \in Calls,
         AuthorityProbes(c) \/ AuthoritySigns(c) \/ AuthorityResends(c)
  PROVE  Sends(c)
<1>1. CASE AuthorityProbes(c)
  BY <1>1, Zenon DEF AuthorityProbes, Sends
<1>2. CASE AuthoritySigns(c)
  <2>1. PICK r \in BytesOf(c) : BaseFetch(c, r, TRUE, frame[c].quote)
    BY <1>2 DEF AuthoritySigns
  <2>2. \E revision, signed, amount : BaseFetch(c, revision, signed, amount)
    BY <2>1, Zenon
  <2>3. QED
    BY <1>2, <2>2 DEF AuthoritySigns, Sends
<1>3. CASE AuthorityResends(c)
  <2>1. \/ BaseFetch(c, binding[c], TRUE, frame[c].quote)
        \/ BaseFetch(c, binding[c], FALSE, Null)
    BY <1>3 DEF AuthorityResends
  <2>2. \E revision, signed, amount : BaseFetch(c, revision, signed, amount)
    BY <2>1, Zenon
  <2>3. QED
    BY <1>3, <2>2 DEF AuthorityResends, Sends
<1>4. QED
  BY <1>1, <1>2, <1>3

(***************************************************************************)
(* What the service does to the one answer a call is awaiting.             *)
(***************************************************************************)
LEMMA ServeShape ==
  ASSUME TypeOK, NEW q \in wire, Serve(q)
  PROVE  /\ wire' = wire \ {q}
         /\ UNCHANGED <<pc, frame, outcome, binding, key, shown>>
         /\ charges \subseteq charges'
         /\ \/ ~Awaited(q) /\ reply' = reply
            \/ /\ Awaited(q)
               /\ \A c \in Calls : c # q.call => reply'[c] = reply[c]
               /\ reply'[q.call].status \in Statuses
               /\ Admit(q) => reply'[q.call].status \in {200, 500}
         /\ charges' # charges => Admit(q)
<1> q.call \in Calls
  BY DEF TypeOK, Requests
<1>1. ASSUME NEW status \in Statuses, NEW a, Answer(q, status, a)
      PROVE  \/ ~Awaited(q) /\ reply' = reply
             \/ /\ Awaited(q)
                /\ \A c \in Calls : c # q.call => reply'[c] = reply[c]
                /\ reply'[q.call].status = status
  BY <1>1 DEF Answer, TypeOK
<1>2. ASSUME Admit(q)
      PROVE  \/ ~Awaited(q) /\ reply' = reply
             \/ /\ Awaited(q)
                /\ \A c \in Calls : c # q.call => reply'[c] = reply[c]
                /\ reply'[q.call].status \in {200, 500}
  BY <1>1, <1>2 DEF Admit, Statuses
<1>3. ASSUME Replay(q) \/ Challenge(q) \/ Refuse(q)
      PROVE  \/ ~Awaited(q) /\ reply' = reply
             \/ /\ Awaited(q)
                /\ \A c \in Calls : c # q.call => reply'[c] = reply[c]
                /\ reply'[q.call].status \in Statuses
  BY <1>1, <1>3 DEF Replay, Challenge, Refuse, Statuses
<1>4. (Replay(q) \/ Challenge(q) \/ Refuse(q)) => charges' = charges
  BY DEF Replay, Challenge, Refuse
<1>5. Admit(q) => charges \subseteq charges'
  BY DEF Admit
<1>6. QED
  BY <1>2, <1>3, <1>4, <1>5 DEF Serve, client, Statuses

(***************************************************************************)
(* Bound, Priced and Traced relate what was sent to what was shown.        *)
(***************************************************************************)
LEMMA BoundStep == TypeOK /\ Bound /\ [Next]_vars => Bound'
<1> SUFFICES ASSUME TypeOK /\ Bound, [Next]_vars PROVE Bound'
  OBVIOUS
<1>1. ASSUME NEW c \in Calls, Invoke(c) PROVE Bound'
  BY <1>1
     DEF Invoke, Bind, Goto, End, client, service, TypeOK, Bound, Unpaid,
         Cleared, Paying, Fetchers, Requests, Charges
<1>2. ASSUME NEW c \in Calls, RequestTraced(c) PROVE Bound'
  BY <1>2 DEF RequestTraced, Goto, client, service, Bound, Unpaid
<1>3. ASSUME NEW c \in Calls, ObserverRefuses(c) PROVE Bound'
  BY <1>3 DEF ObserverRefuses, End, client, service, Bound, Unpaid
<1>4. ASSUME NEW c \in Calls, AuthorityProbes(c) PROVE Bound'
  BY <1>4
     DEF AuthorityProbes, BaseFetch, Caught, Goto, End, client, service,
         TypeOK, Bound, Unpaid, Cleared, Paying, Fetchers, Requests, Charges
<1>5. ASSUME NEW c \in Calls, AuthoritySigns(c) PROVE Bound'
  BY <1>5
     DEF AuthoritySigns, BaseFetch, Caught, Goto, End, client, service, TypeOK,
         Bound, Unpaid, Cleared, Paying, Fetchers, Requests, Charges
<1>6. ASSUME NEW c \in Calls, AuthorityResends(c) PROVE Bound'
  BY <1>6
     DEF AuthorityResends, BaseFetch, Goto, client, service, TypeOK, Bound,
         Unpaid, Cleared, Paying, Fetchers, Requests, Charges
<1>7. ASSUME NEW c \in Calls, AuthorityThrows(c) PROVE Bound'
  BY <1>7
     DEF AuthorityThrows, Caught, Goto, End, client, service, TypeOK, Bound,
         Unpaid, Cleared, Paying, Fetchers, Requests, Charges
<1>8. ASSUME NEW c \in Calls, AuthorityReturns(c) PROVE Bound'
  BY <1>8
     DEF AuthorityReturns, Goto, client, service, Bound, Unpaid, Cleared,
         Paying
<1>9. ASSUME NEW c \in Calls, TransportFails(c) PROVE Bound'
  BY <1>9
     DEF TransportFails, Goto, client, service, Bound, Unpaid, Cleared, Paying
<1>10. ASSUME NEW c \in Calls, ResponseArrives(c) PROVE Bound'
  BY <1>10
     DEF ResponseArrives, Goto, client, service, Bound, Unpaid, Cleared, Paying
<1>11. ASSUME NEW c \in Calls, ResponseTraced(c) PROVE Bound'
  BY <1>11
     DEF ResponseTraced, Goto, client, service, Bound, Unpaid, Cleared, Paying
<1>12. ASSUME NEW c \in Calls, BodyLost(c) PROVE Bound'
  BY <1>12
     DEF BodyLost, Caught, Goto, End, client, service, TypeOK, Bound, Unpaid,
         Cleared, Paying, Fetchers, Requests, Charges
<1>13. ASSUME NEW c \in Calls, BodyRead(c) PROVE Bound'
  BY <1>13
     DEF BodyRead, Goto, End, client, service, TypeOK, Bound, Unpaid, Cleared,
         Paying, Fetchers, Requests, Charges
<1>14. ASSUME NEW c \in Calls, UncertainTraced(c) PROVE Bound'
  BY <1>14 DEF UncertainTraced, End, client, service, Bound, Unpaid, Cleared
<1>15. ASSUME NEW r \in Refreshers, Refresh(r) PROVE Bound'
  BY <1>15 DEF Refresh, client, service, Bound, Unpaid, Cleared, Paying
<1>16. ASSUME NEW f \in Fetchers, ServeCatalog(f) PROVE Bound'
  BY <1>16 DEF ServeCatalog, client, service, Bound, Unpaid, Cleared, Paying
<1>17. ASSUME NEW f \in Fetchers, CatalogArrives(f) PROVE Bound'
  BY <1>17
     DEF CatalogArrives, Bind, Goto, End, client, service, TypeOK, Bound,
         Unpaid, Cleared, Paying, Fetchers, Requests, Charges
<1>18. ASSUME NEW q \in wire, Serve(q) PROVE Bound'
  BY <1>18 DEF Serve, Replay, Challenge, Admit, Refuse, client, Bound
<1>19. ASSUME Republish PROVE Bound'
  BY <1>19 DEF Republish, client, Bound
<1>20. ASSUME Crash PROVE Bound'
  BY <1>20
     DEF Crash, service, TypeOK, Bound, Unpaid, Cleared, Paying, Fetchers,
         Requests, Charges
<1>21. ASSUME UNCHANGED vars PROVE Bound'
  BY <1>21 DEF vars, client, service, Bound
<1>22. QED
  BY <1>1, <1>2, <1>3, <1>4, <1>5, <1>6, <1>7, <1>8, <1>9, <1>10, <1>11,
     <1>12, <1>13, <1>14, <1>15, <1>16, <1>17, <1>18, <1>19, <1>20, <1>21
     DEF Next, CallStep, FetchStep, Rest

LEMMA PricedStep == TypeOK /\ Priced /\ [Next]_vars => Priced'
<1> SUFFICES ASSUME TypeOK /\ Priced, [Next]_vars PROVE Priced'
  OBVIOUS
<1>1. ASSUME NEW c \in Calls, Invoke(c) PROVE Priced'
  BY <1>1 DEF Invoke, service, Priced
<1>2. ASSUME NEW c \in Calls, RequestTraced(c) PROVE Priced'
  BY <1>2 DEF RequestTraced, service, Priced
<1>3. ASSUME NEW c \in Calls, ObserverRefuses(c) PROVE Priced'
  BY <1>3 DEF ObserverRefuses, service, Priced
<1>4. ASSUME NEW c \in Calls, AuthorityProbes(c) PROVE Priced'
  BY <1>4 DEF AuthorityProbes, BaseFetch, service, Priced
<1>5. ASSUME NEW c \in Calls, AuthoritySigns(c) PROVE Priced'
  BY <1>5
     DEF AuthoritySigns, WithinCap, BaseFetch, service, TypeOK, Priced, Frames
<1>6. ASSUME NEW c \in Calls, AuthorityResends(c) PROVE Priced'
  BY <1>6
     DEF AuthorityResends, WithinCap, BaseFetch, service, TypeOK, Priced,
         Frames
<1>7. ASSUME NEW c \in Calls, AuthorityThrows(c) PROVE Priced'
  BY <1>7 DEF AuthorityThrows, service, Priced
<1>8. ASSUME NEW c \in Calls, AuthorityReturns(c) PROVE Priced'
  BY <1>8 DEF AuthorityReturns, service, Priced
<1>9. ASSUME NEW c \in Calls, TransportFails(c) PROVE Priced'
  BY <1>9 DEF TransportFails, service, Priced
<1>10. ASSUME NEW c \in Calls, ResponseArrives(c) PROVE Priced'
  BY <1>10 DEF ResponseArrives, service, Priced
<1>11. ASSUME NEW c \in Calls, ResponseTraced(c) PROVE Priced'
  BY <1>11 DEF ResponseTraced, service, Priced
<1>12. ASSUME NEW c \in Calls, BodyLost(c) PROVE Priced'
  BY <1>12 DEF BodyLost, service, Priced
<1>13. ASSUME NEW c \in Calls, BodyRead(c) PROVE Priced'
  BY <1>13 DEF BodyRead, service, Priced
<1>14. ASSUME NEW c \in Calls, UncertainTraced(c) PROVE Priced'
  BY <1>14 DEF UncertainTraced, service, Priced
<1>15. ASSUME NEW r \in Refreshers, Refresh(r) PROVE Priced'
  BY <1>15 DEF Refresh, service, Priced
<1>16. ASSUME NEW f \in Fetchers, ServeCatalog(f) PROVE Priced'
  BY <1>16 DEF ServeCatalog, service, Priced
<1>17. ASSUME NEW f \in Fetchers, CatalogArrives(f) PROVE Priced'
  BY <1>17 DEF CatalogArrives, service, Priced
<1>18. ASSUME NEW q \in wire, Serve(q) PROVE Priced'
  BY <1>18 DEF Serve, Replay, Challenge, Admit, Refuse, Priced
<1>19. ASSUME Republish PROVE Priced'
  BY <1>19 DEF Republish, Priced
<1>20. ASSUME Crash PROVE Priced'
  BY <1>20 DEF Crash, service, Priced
<1>21. ASSUME UNCHANGED vars PROVE Priced'
  BY <1>21 DEF vars, client, catalog, service, TypeOK, Priced, Frames, Null
<1>22. QED
  BY <1>1, <1>2, <1>3, <1>4, <1>5, <1>6, <1>7, <1>8, <1>9, <1>10, <1>11,
     <1>12, <1>13, <1>14, <1>15, <1>16, <1>17, <1>18, <1>19, <1>20, <1>21
     DEF Next, CallStep, FetchStep, Rest

LEMMA TracedStep == TypeOK /\ Bound /\ Traced /\ [Next]_vars => Traced'
<1> SUFFICES ASSUME TypeOK /\ Bound /\ Traced, [Next]_vars PROVE Traced'
  OBVIOUS
<1>1. ASSUME NEW c \in Calls, Invoke(c) PROVE Traced'
  BY <1>1
     DEF Invoke, Bind, Goto, End, client, service, TypeOK, Bound, Traced,
         WireOf, ChargedBy, Identity, Fetchers, Unpaid, Cleared, Paying
<1>2. ASSUME NEW c \in Calls, RequestTraced(c) PROVE Traced'
  BY <1>2
     DEF RequestTraced, Goto, client, service, Traced, WireOf, ChargedBy,
         Identity
<1>3. ASSUME NEW c \in Calls, ObserverRefuses(c) PROVE Traced'
  BY <1>3
     DEF ObserverRefuses, End, client, service, Traced, WireOf, ChargedBy,
         Identity, Cleared, Paying
<1>4. ASSUME NEW c \in Calls, AuthorityProbes(c) PROVE Traced'
  BY <1>4
     DEF AuthorityProbes, BaseFetch, Caught, Goto, End, client, service,
         TypeOK, Traced, WireOf, ChargedBy, Identity, Fetchers, Cleared, Paying
<1>5. ASSUME NEW c \in Calls, AuthoritySigns(c) PROVE Traced'
  BY <1>5
     DEF AuthoritySigns, BaseFetch, Caught, Goto, End, client, service, TypeOK,
         Traced, WireOf, ChargedBy, Identity, Fetchers, Cleared, Paying
<1>6. ASSUME NEW c \in Calls, AuthorityResends(c) PROVE Traced'
  BY <1>6
     DEF AuthorityResends, BaseFetch, Goto, client, service, TypeOK, Traced,
         WireOf, ChargedBy, Identity, Fetchers, Cleared, Paying
<1>7. ASSUME NEW c \in Calls, AuthorityThrows(c) PROVE Traced'
  BY <1>7
     DEF AuthorityThrows, Caught, Goto, End, client, service, TypeOK, Traced,
         WireOf, ChargedBy, Identity, Fetchers, Cleared, Paying
<1>8. ASSUME NEW c \in Calls, AuthorityReturns(c) PROVE Traced'
  BY <1>8
     DEF AuthorityReturns, Goto, client, service, Traced, WireOf, ChargedBy,
         Identity, Cleared, Paying
<1>9. ASSUME NEW c \in Calls, TransportFails(c) PROVE Traced'
  BY <1>9
     DEF TransportFails, Goto, client, service, Traced, WireOf, ChargedBy,
         Identity, Cleared, Paying
<1>10. ASSUME NEW c \in Calls, ResponseArrives(c) PROVE Traced'
  BY <1>10
     DEF ResponseArrives, Goto, client, service, Traced, WireOf, ChargedBy,
         Identity, Cleared, Paying
<1>11. ASSUME NEW c \in Calls, ResponseTraced(c) PROVE Traced'
  BY <1>11
     DEF ResponseTraced, Goto, client, service, Traced, WireOf, ChargedBy,
         Identity, Cleared, Paying
<1>12. ASSUME NEW c \in Calls, BodyLost(c) PROVE Traced'
  BY <1>12
     DEF BodyLost, Caught, Goto, End, client, service, TypeOK, Traced, WireOf,
         ChargedBy, Identity, Fetchers, Cleared, Paying
<1>13. ASSUME NEW c \in Calls, BodyRead(c) PROVE Traced'
  BY <1>13
     DEF BodyRead, Goto, End, client, service, TypeOK, Traced, WireOf,
         ChargedBy, Identity, Fetchers, Cleared, Paying
<1>14. ASSUME NEW c \in Calls, UncertainTraced(c) PROVE Traced'
  BY <1>14
     DEF UncertainTraced, End, client, service, Traced, WireOf, ChargedBy,
         Identity, Cleared
<1>15. ASSUME NEW r \in Refreshers, Refresh(r) PROVE Traced'
  BY <1>15
     DEF Refresh, client, service, Traced, WireOf, ChargedBy, Identity,
         Cleared, Paying
<1>16. ASSUME NEW f \in Fetchers, ServeCatalog(f) PROVE Traced'
  BY <1>16
     DEF ServeCatalog, client, service, Traced, WireOf, ChargedBy, Identity,
         Cleared, Paying
<1>17. ASSUME NEW f \in Fetchers, CatalogArrives(f) PROVE Traced'
  BY <1>17
     DEF CatalogArrives, Bind, Goto, End, client, service, TypeOK, Bound,
         Traced, WireOf, ChargedBy, Identity, Fetchers, Unpaid, Cleared, Paying
<1>18. ASSUME NEW q \in wire, Serve(q) PROVE Traced'
  BY <1>18
     DEF Serve, Replay, Challenge, Admit, Refuse, client, Traced, WireOf,
         ChargedBy, Identity
<1>19. ASSUME Republish PROVE Traced'
  BY <1>19 DEF Republish, client, Traced, WireOf, ChargedBy, Identity
<1>20. ASSUME Crash PROVE Traced'
  BY <1>20
     DEF Crash, service, Traced, WireOf, ChargedBy, Identity, Fetchers,
         Cleared, Paying
<1>21. ASSUME UNCHANGED vars PROVE Traced'
  BY <1>21 DEF vars, client, service, Traced, WireOf, ChargedBy, Identity
<1>22. QED
  BY <1>1, <1>2, <1>3, <1>4, <1>5, <1>6, <1>7, <1>8, <1>9, <1>10, <1>11,
     <1>12, <1>13, <1>14, <1>15, <1>16, <1>17, <1>18, <1>19, <1>20, <1>21
     DEF Next, CallStep, FetchStep, Rest

(***************************************************************************)
(* Settled: outcomes, locals and pending answers.                          *)
(***************************************************************************)
LEMMA EndSettles ==
  ASSUME TypeOK, Settled, NEW c \in Calls, pc[c] # "sent", UNCHANGED reply,
         NEW o, o # "none", End(c, o)
  PROVE  Settled'
  BY EndShape DEF Settled, Fetchers, Cleared, Paying

LEMMA GotoSettles ==
  ASSUME TypeOK, Settled, NEW c \in Calls, pc[c] \notin {"sent", "done"},
         UNCHANGED reply, NEW phase, phase # "done", NEW f,
         phase \in Cleared \/ f = NoFrame, Goto(c, phase, f)
  PROVE  Settled'
  BY GotoShape DEF Settled, Fetchers

LEMMA CaughtSettles ==
  ASSUME TypeOK, Settled, NEW c \in Calls, pc[c] \notin {"sent", "done"},
         UNCHANGED reply, Caught(c)
  PROVE  Settled'
  BY EndSettles, GotoSettles DEF Caught, Cleared

LEMMA BindSettles ==
  ASSUME TypeOK, Settled, NEW c \in Calls, pc[c] \notin {"sent", "done"},
         UNCHANGED reply, NEW revision, Bind(c, revision)
  PROVE  Settled'
  BY EndSettles, GotoSettles DEF Bind

LEMMA SendsSettles ==
  ASSUME TypeOK, Settled, NEW c \in Calls, Sends(c)
  PROVE  Settled'
<1>1. PICK revision, signed, amount : BaseFetch(c, revision, signed, amount)
  BY DEF Sends
<1>2. QED
  BY <1>1, CaughtSettles, GotoSettles DEF Sends, BaseFetch, Cleared, Paying

LEMMA InvokeSettles ==
  ASSUME TypeOK, Settled, NEW c \in Calls, Invoke(c)
  PROVE  Settled'
  BY BindSettles, GotoSettles DEF Invoke

LEMMA ArrivesSettles ==
  ASSUME TypeOK, Settled, NEW f \in Fetchers, CatalogArrives(f)
  PROVE  Settled'
<1>1. CASE f \in Refreshers /\ pc' = [pc EXCEPT ![f] = "done"]
           /\ UNCHANGED <<binding, frame, outcome>>
  BY <1>1, ClientAssumption DEF CatalogArrives, Settled, TypeOK
<1>2. CASE f \in Calls
  BY <1>2, ClientAssumption, BindSettles, EndSettles DEF CatalogArrives
<1>3. QED
  BY <1>1, <1>2 DEF CatalogArrives, Fetchers

LEMMA BodyReadSettles ==
  ASSUME TypeOK, Settled, NEW c \in Calls, BodyRead(c)
  PROVE  Settled'
  BY EndSettles, GotoSettles DEF BodyRead, Cleared

LEMMA ServeSettles ==
  ASSUME TypeOK, Settled, NEW q \in wire, Serve(q)
  PROVE  Settled'
  BY ServeShape DEF Settled, Awaited

LEMMA SettledStep == TypeOK /\ Settled /\ [Next]_vars => Settled'
<1> SUFFICES ASSUME TypeOK /\ Settled, [Next]_vars PROVE Settled'
  OBVIOUS
<1>1. ASSUME NEW c \in Calls, Invoke(c) PROVE Settled'
  BY <1>1, InvokeSettles
<1>2. ASSUME NEW c \in Calls, RequestTraced(c) PROVE Settled'
  BY <1>2 DEF RequestTraced, Goto, TypeOK, Settled, Fetchers, Cleared, Paying
<1>3. ASSUME NEW c \in Calls, ObserverRefuses(c) PROVE Settled'
  BY <1>3 DEF ObserverRefuses, End, TypeOK, Settled, Fetchers
<1>4. ASSUME NEW c \in Calls, AuthorityProbes(c) PROVE Settled'
  BY <1>4, SendsShape, SendsSettles
<1>5. ASSUME NEW c \in Calls, AuthoritySigns(c) PROVE Settled'
  BY <1>5, SendsShape, SendsSettles
<1>6. ASSUME NEW c \in Calls, AuthorityResends(c) PROVE Settled'
  BY <1>6, SendsShape, SendsSettles
<1>7. ASSUME NEW c \in Calls, AuthorityThrows(c) PROVE Settled'
  BY <1>7, CaughtSettles DEF AuthorityThrows
<1>8. ASSUME NEW c \in Calls, AuthorityReturns(c) PROVE Settled'
  BY <1>8
     DEF AuthorityReturns, Goto, TypeOK, Settled, Fetchers, Cleared, Paying
<1>9. ASSUME NEW c \in Calls, TransportFails(c) PROVE Settled'
  BY <1>9 DEF TransportFails, Goto, TypeOK, Settled, Fetchers, Cleared, Paying
<1>10. ASSUME NEW c \in Calls, ResponseArrives(c) PROVE Settled'
  BY <1>10
     DEF ResponseArrives, Goto, TypeOK, Settled, Fetchers, Cleared, Paying
<1>11. ASSUME NEW c \in Calls, ResponseTraced(c) PROVE Settled'
  BY <1>11 DEF ResponseTraced, Goto, TypeOK, Settled, Fetchers, Cleared, Paying
<1>12. ASSUME NEW c \in Calls, BodyLost(c) PROVE Settled'
  BY <1>12, CaughtSettles DEF BodyLost
<1>13. ASSUME NEW c \in Calls, BodyRead(c) PROVE Settled'
  BY <1>13, BodyReadSettles
<1>14. ASSUME NEW c \in Calls, UncertainTraced(c) PROVE Settled'
  BY <1>14 DEF UncertainTraced, End, TypeOK, Settled, Fetchers
<1>15. ASSUME NEW r \in Refreshers, Refresh(r) PROVE Settled'
  BY <1>15 DEF Refresh, TypeOK, Settled, Cleared, Paying
<1>16. ASSUME NEW f \in Fetchers, ServeCatalog(f) PROVE Settled'
  BY <1>16 DEF ServeCatalog, TypeOK, Settled, Cleared, Paying
<1>17. ASSUME NEW f \in Fetchers, CatalogArrives(f) PROVE Settled'
  BY <1>17, ArrivesSettles
<1>18. ASSUME NEW q \in wire, Serve(q) PROVE Settled'
  BY <1>18, ServeSettles
<1>19. ASSUME Republish PROVE Settled'
  BY <1>19 DEF Republish, Settled
<1>20. ASSUME Crash PROVE Settled'
  BY <1>20 DEF Crash, Settled, Fetchers
<1>21. ASSUME UNCHANGED vars PROVE Settled'
  BY <1>21 DEF vars, Settled
<1>22. QED
  BY <1>1, <1>2, <1>3, <1>4, <1>5, <1>6, <1>7, <1>8, <1>9, <1>10, <1>11,
     <1>12, <1>13, <1>14, <1>15, <1>16, <1>17, <1>18, <1>19, <1>20, <1>21
     DEF Next, CallStep, FetchStep, Rest

(***************************************************************************)
(* Numbered: the awaited request is the last one sent.                     *)
(***************************************************************************)
LEMMA BaseFetchNumbered ==
  ASSUME TypeOK, Bound, Settled, Numbered, NEW c \in Calls,
         NEW revision, NEW signed, NEW amount,
         pc[c] = "authority", BaseFetch(c, revision, signed, amount),
         UNCHANGED reply
  PROVE  Numbered'
<1>0. \A q \in wire : q.call \in Calls /\ q.n \in Nat
  BY DEF TypeOK, Requests
<1>1. CASE revision # binding[c]
  <2>1. Caught(c) /\ wire' = wire
    BY <1>1 DEF BaseFetch
  <2>2. QED
    BY <1>0, <2>1, CaughtShape DEF Numbered, Awaited, Paying
<1>2. CASE revision = binding[c]
  <2> DEFINE new == [call |-> c, n |-> frame[c].sends + 1, key |-> key[c],
                     revision |-> revision, signed |-> signed, amount |-> amount]
  <2>1. /\ wire' = wire \cup {new}
        /\ pc' = [pc EXCEPT ![c] = "sent"]
        /\ frame'[c].sends = frame[c].sends + 1
        /\ \A d \in Calls : d # c => frame'[d] = frame[d]
        /\ frame[c].sends \in Nat
    BY <1>2, ClientAssumption DEF BaseFetch, Goto, TypeOK, Frames
  <2>2. reply'[c] = NoReply
    BY DEF Settled
  <2>3. \A q \in wire : q.call = c => q.n <= frame[c].sends
    BY DEF Numbered, Paying
  <2>4. new.call = c /\ new.n = frame[c].sends + 1
    OBVIOUS
  <2> HIDE DEF new
  <2>5. \A q, r \in wire' : q.call = r.call /\ q.n = r.n => q = r
    BY <1>0, <2>1, <2>3, <2>4 DEF Numbered
  <2>6. \A q \in wire' : pc'[q.call] \in Paying => q.n <= frame'[q.call].sends
    BY <1>0, <2>1, <2>3, <2>4 DEF Numbered, Paying, TypeOK, Fetchers
  <2>7. \A q \in wire' : Awaited(q)' => reply'[q.call] = NoReply
    BY <1>0, <2>1, <2>2, <2>3, <2>4 DEF Numbered, Awaited, TypeOK, Fetchers
  <2>8. QED
    BY <2>5, <2>6, <2>7 DEF Numbered
<1>3. QED
  BY <1>1, <1>2

LEMMA SendsNumbered ==
  ASSUME TypeOK, Bound, Settled, Numbered, NEW c \in Calls, Sends(c)
  PROVE  Numbered'
<1>1. PICK revision, signed, amount : BaseFetch(c, revision, signed, amount)
  BY DEF Sends
<1>2. QED
  BY <1>1, BaseFetchNumbered DEF Sends

LEMMA LeavesNumbered ==
  ASSUME TypeOK, Numbered, NEW c \in Calls, UNCHANGED <<wire, reply>>,
         pc'[c] \in {"done", "uncertain"},
         \A d \in Calls : d # c => pc'[d] = pc[d] /\ frame'[d] = frame[d]
  PROVE  Numbered'
<1>1. \A r \in wire : r.call \in Calls
  BY DEF TypeOK, Requests
<1>2. QED
  BY <1>1 DEF Numbered, Awaited, Paying

LEMMA InvokeNumbered ==
  ASSUME TypeOK, Bound, Numbered, NEW c \in Calls, Invoke(c)
  PROVE  Numbered'
  <1>1. \A r \in wire : r.call \in Calls /\ r.call # c
    BY DEF TypeOK, Requests, Invoke, Bound, Unpaid
  <1>2. \A d \in Calls : d # c => pc'[d] = pc[d] /\ frame'[d] = frame[d]
    BY DEF Invoke, Bind, Goto, End, TypeOK, Fetchers
  <1>3. QED
    BY <1>1, <1>2 DEF Numbered, Awaited, Invoke

LEMMA ServeNumbered ==
  ASSUME TypeOK, Numbered, NEW q \in wire, Serve(q)
  PROVE  Numbered'
  <1>1. \A r \in wire : r.call \in Calls
    BY DEF TypeOK, Requests
  <1>2. \A r \in wire' : Awaited(r)' => reply'[r.call] = NoReply
    BY <1>1, ServeShape DEF Numbered, Awaited
  <1>3. QED
    BY <1>2, ServeShape DEF Numbered

LEMMA NumberedStep ==
  TypeOK /\ Bound /\ Settled /\ Numbered /\ [Next]_vars => Numbered'
<1> SUFFICES ASSUME TypeOK /\ Bound /\ Settled /\ Numbered, [Next]_vars
             PROVE  Numbered'
  OBVIOUS
<1>1. ASSUME NEW c \in Calls, Invoke(c) PROVE Numbered'
  BY <1>1, InvokeNumbered
<1>2. ASSUME NEW c \in Calls, RequestTraced(c) PROVE Numbered'
  BY <1>2 DEF RequestTraced, Goto, Bound, Numbered, Awaited, Unpaid
<1>3. ASSUME NEW c \in Calls, ObserverRefuses(c) PROVE Numbered'
  BY <1>3 DEF ObserverRefuses, End, Numbered, Awaited, Paying
<1>4. ASSUME NEW c \in Calls, AuthorityProbes(c) PROVE Numbered'
  BY <1>4, SendsShape, SendsNumbered
<1>5. ASSUME NEW c \in Calls, AuthoritySigns(c) PROVE Numbered'
  BY <1>5, SendsShape, SendsNumbered
<1>6. ASSUME NEW c \in Calls, AuthorityResends(c) PROVE Numbered'
  BY <1>6, SendsShape, SendsNumbered
<1>7. ASSUME NEW c \in Calls, AuthorityThrows(c) PROVE Numbered'
  BY <1>7, CaughtShape, LeavesNumbered DEF AuthorityThrows
<1>8. ASSUME NEW c \in Calls, AuthorityReturns(c) PROVE Numbered'
  BY <1>8 DEF AuthorityReturns, Goto, Numbered, Awaited, Paying
<1>9. ASSUME NEW c \in Calls, TransportFails(c) PROVE Numbered'
  BY <1>9 DEF TransportFails, Goto, Numbered, Awaited, Paying
<1>10. ASSUME NEW c \in Calls, ResponseArrives(c) PROVE Numbered'
  BY <1>10 DEF ResponseArrives, Goto, Numbered, Awaited, Paying
<1>11. ASSUME NEW c \in Calls, ResponseTraced(c) PROVE Numbered'
  BY <1>11 DEF ResponseTraced, Goto, Numbered, Awaited, Paying
<1>12. ASSUME NEW c \in Calls, BodyLost(c) PROVE Numbered'
  BY <1>12, CaughtShape, LeavesNumbered DEF BodyLost
<1>13. ASSUME NEW c \in Calls, BodyRead(c) PROVE Numbered'
  BY <1>13, BodyReadShape, LeavesNumbered DEF BodyRead
<1>14. ASSUME NEW c \in Calls, UncertainTraced(c) PROVE Numbered'
  BY <1>14 DEF UncertainTraced, End, Numbered, Awaited, Paying
<1>15. ASSUME NEW r \in Refreshers, Refresh(r) PROVE Numbered'
  BY <1>15 DEF Refresh, Numbered, Awaited, Paying
<1>16. ASSUME NEW f \in Fetchers, ServeCatalog(f) PROVE Numbered'
  BY <1>16 DEF ServeCatalog, Numbered, Awaited, Paying
<1>17. ASSUME NEW f \in Fetchers, CatalogArrives(f) PROVE Numbered'
  BY <1>17
     DEF CatalogArrives, Bind, Goto, End, TypeOK, Numbered, Awaited, Fetchers,
         Requests, Paying
<1>18. ASSUME NEW q \in wire, Serve(q) PROVE Numbered'
  BY <1>18, ServeNumbered
<1>19. ASSUME Republish PROVE Numbered'
  BY <1>19 DEF Republish, Numbered, Awaited
<1>20. ASSUME Crash PROVE Numbered'
  BY <1>20 DEF Crash, TypeOK, Numbered, Fetchers, Requests, Paying
<1>21. ASSUME UNCHANGED vars PROVE Numbered'
  BY <1>21 DEF vars, Numbered, Awaited
<1>22. QED
  BY <1>1, <1>2, <1>3, <1>4, <1>5, <1>6, <1>7, <1>8, <1>9, <1>10, <1>11,
     <1>12, <1>13, <1>14, <1>15, <1>16, <1>17, <1>18, <1>19, <1>20, <1>21
     DEF Next, CallStep, FetchStep, Rest

(***************************************************************************)
(* Flagged: the two flags of invoke cover everything that may execute.     *)
(***************************************************************************)
LEMMA BaseFetchFlagged ==
  ASSUME TypeOK, Bound, Settled, Numbered, Flagged, NEW c \in Calls,
         NEW revision, NEW signed, NEW amount,
         pc[c] = "authority", BaseFetch(c, revision, signed, amount),
         UNCHANGED <<reply, charges>>
  PROVE  Flagged'
<1>0. \A q \in wire : q.call \in Calls /\ q.n \in Nat
  BY DEF TypeOK, Requests
<1>1. CASE revision # binding[c]
  <2>1. Caught(c) /\ wire' = wire
    BY <1>1 DEF BaseFetch
  <2>2. QED
    BY <1>0, <2>1, CaughtShape DEF Flagged, Awaited, WireOf, ChargedBy, Paying
<1>2. CASE revision = binding[c]
  <2> DEFINE new == [call |-> c, n |-> frame[c].sends + 1, key |-> key[c],
                     revision |-> revision, signed |-> signed, amount |-> amount]
  <2>1. /\ wire' = wire \cup {new}
        /\ pc' = [pc EXCEPT ![c] = "sent"]
        /\ frame'[c].sends = frame[c].sends + 1
        /\ frame'[c].transportFailed = frame[c].transportFailed
        /\ frame'[c].responseMayHaveExecuted = frame[c].responseMayHaveExecuted
        /\ \A d \in Calls : d # c => frame'[d] = frame[d]
    BY <1>2 DEF BaseFetch, Goto, TypeOK, Frames
  <2>2. new.call = c /\ new.n = frame[c].sends + 1
    OBVIOUS
  <2> HIDE DEF new
  <2>3. ~frame[c].transportFailed => WireOf(c) = {}
    BY DEF Flagged, Awaited, WireOf, Paying
  <2>4. ~frame[c].transportFailed /\ ~frame[c].responseMayHaveExecuted => ~ChargedBy(c)
    BY DEF Flagged, Paying
  <2>5. pc'[c] = "sent" /\ \A d \in Calls : d # c => pc'[d] = pc[d]
    BY <2>1 DEF TypeOK, Fetchers
  <2>6. ASSUME NEW d \in Calls, pc'[d] \in Paying, ~frame'[d].transportFailed
        PROVE  \A q \in WireOf(d)' : Awaited(q)'
    BY <1>0, <2>1, <2>2, <2>3, <2>5, <2>6 DEF Flagged, Awaited, WireOf
  <2>7. ASSUME NEW d \in Calls, pc'[d] \in Paying, ~frame'[d].transportFailed,
               ~frame'[d].responseMayHaveExecuted, ChargedBy(d)'
        PROVE  pc'[d] = "sent" /\ reply'[d].status \in {200, 500}
    BY <2>1, <2>4, <2>5, <2>7 DEF Flagged, ChargedBy
  <2>8. QED
    BY <2>6, <2>7 DEF Flagged
<1>3. QED
  BY <1>1, <1>2

LEMMA SendsFlagged ==
  ASSUME TypeOK, Bound, Settled, Numbered, Flagged, NEW c \in Calls, Sends(c)
  PROVE  Flagged'
<1>1. PICK revision, signed, amount : BaseFetch(c, revision, signed, amount)
  BY DEF Sends
<1>2. QED
  BY <1>1, BaseFetchFlagged DEF Sends, service

LEMMA LeavesFlagged ==
  ASSUME TypeOK, Flagged, NEW c \in Calls, UNCHANGED <<wire, reply, charges>>,
         pc'[c] \in {"done", "uncertain"},
         \A d \in Calls : d # c => pc'[d] = pc[d] /\ frame'[d] = frame[d]
  PROVE  Flagged'
<1>1. \A r \in wire : r.call \in Calls
  BY DEF TypeOK, Requests
<1>2. QED
  BY <1>1 DEF Flagged, Awaited, Paying, WireOf, ChargedBy

LEMMA ArrivesFlagged ==
  ASSUME TypeOK, Bound, Settled, Numbered, Flagged, NEW c \in Calls,
         ResponseArrives(c)
  PROVE  Flagged'
  <1> DEFINE executed == \/ frame[c].responseMayHaveExecuted
                         \/ ok(reply[c].status) \/ reply[c].status >= 500
             quoted == IF reply[c].amount = Null THEN frame[c].quote
                       ELSE reply[c].amount
  <1>a. /\ frame[c].responseMayHaveExecuted => executed
        /\ reply[c].status \in {200, 500} => executed
    BY DEF ok
  <1> HIDE DEF executed, quoted
  <1>b. /\ frame' = [frame EXCEPT ![c] = [frame[c] EXCEPT
                        !.responseMayHaveExecuted = executed,
                        !.last = reply[c].status, !.quote = quoted]]
        /\ pc' = [pc EXCEPT ![c] = "observing"]
        /\ reply' = [reply EXCEPT ![c] = NoReply]
    BY DEF ResponseArrives, Goto, executed, quoted
  <1>d. /\ frame'[c].transportFailed = frame[c].transportFailed
        /\ frame'[c].responseMayHaveExecuted = executed
    BY <1>b DEF TypeOK, Frames
  <1>e. /\ pc'[c] = "observing"
        /\ \A d \in Calls : d # c => /\ frame'[d] = frame[d] /\ pc'[d] = pc[d]
                                     /\ reply'[d] = reply[d]
    BY <1>b DEF TypeOK, Fetchers
  <1>1. /\ frame'[c].transportFailed = frame[c].transportFailed
        /\ reply[c].status \in {200, 500} => frame'[c].responseMayHaveExecuted
        /\ frame[c].responseMayHaveExecuted => frame'[c].responseMayHaveExecuted
        /\ pc'[c] = "observing"
        /\ \A d \in Calls : d # c => /\ frame'[d] = frame[d] /\ pc'[d] = pc[d]
                                     /\ reply'[d] = reply[d]
    BY <1>a, <1>d, <1>e
  <1>2. UNCHANGED <<wire, charges>>
    BY DEF ResponseArrives, service
  <1>3. pc[c] = "sent" /\ reply[c] # NoReply
    BY DEF ResponseArrives, NoReply
  <1>4. ~frame[c].transportFailed => WireOf(c) = {}
    BY <1>3 DEF Flagged, Numbered, WireOf, Paying
  <1>5. \A q \in wire : q.call \in Calls
    BY DEF TypeOK, Requests
  <1>6. ASSUME NEW d \in Calls, d # c PROVE
        /\ pc'[d] \in Paying /\ ~frame'[d].transportFailed =>
         \A q \in WireOf(d)' : Awaited(q)'
    BY <1>1, <1>2, <1>6 DEF Flagged, WireOf, Awaited
  <1>7. QED
   BY <1>1, <1>2, <1>3, <1>4, <1>5, <1>6
      DEF Flagged, WireOf, Awaited, ChargedBy, Paying

LEMMA ServeFlagged ==
  ASSUME TypeOK, Bound, Numbered, Flagged, NEW q \in wire, Serve(q)
  PROVE  Flagged'
  <1>1. \A r \in wire : r.call \in Calls
    BY DEF TypeOK, Requests
  <1>2. ASSUME NEW c \in Calls, pc'[c] \in Paying, ~frame'[c].transportFailed
        PROVE  \A r \in WireOf(c)' : Awaited(r)'
    BY <1>1, <1>2, ServeShape DEF Flagged, WireOf, Awaited
  <1>3. ASSUME NEW c \in Calls, pc'[c] \in Paying, ~frame'[c].transportFailed,
               ~frame'[c].responseMayHaveExecuted, ChargedBy(c)'
        PROVE  pc'[c] = "sent" /\ reply'[c].status \in {200, 500}
    <2>1. CASE ChargedBy(c)
      <3>1. pc[c] = "sent" /\ reply[c].status \in {200, 500}
        BY <1>3, <2>1, ServeShape DEF Flagged
      <3>2. ~(Awaited(q) /\ q.call = c)
        BY <3>1 DEF Numbered, NoReply, Null
      <3>3. QED
        BY <3>1, <3>2, ServeShape
    <2>2. CASE ~ChargedBy(c)
      <3>1. Admit(q) /\ q.call = c
        BY <1>3, <2>2, ServeShape DEF ChargedBy, Admit
      <3>2. Awaited(q)
        BY <1>3, <3>1, ServeShape DEF Flagged, WireOf
      <3>3. QED
        BY <3>1, <3>2, ServeShape DEF Awaited
    <2>3. QED
      BY <2>1, <2>2
  <1>4. QED
    BY <1>2, <1>3 DEF Flagged

LEMMA FlaggedStep ==
  TypeOK /\ Bound /\ Settled /\ Numbered /\ Flagged /\ [Next]_vars => Flagged'
<1> SUFFICES ASSUME TypeOK /\ Bound /\ Settled /\ Numbered /\ Flagged, [Next]_vars
             PROVE  Flagged'
  OBVIOUS
<1>1. ASSUME NEW c \in Calls, Invoke(c) PROVE Flagged'
  BY <1>1, ClientAssumption
     DEF Invoke, Bind, Goto, End, client, service, TypeOK, Flagged, Awaited,
         WireOf, ChargedBy, Fetchers, Paying
<1>2. ASSUME NEW c \in Calls, RequestTraced(c) PROVE Flagged'
  BY <1>2
     DEF RequestTraced, Goto, service, Bound, Flagged, Awaited, WireOf,
         ChargedBy, Unpaid
<1>3. ASSUME NEW c \in Calls, ObserverRefuses(c) PROVE Flagged'
  BY <1>3
     DEF ObserverRefuses, End, service, Flagged, Awaited, WireOf, ChargedBy,
         Paying
<1>4. ASSUME NEW c \in Calls, AuthorityProbes(c) PROVE Flagged'
  BY <1>4, SendsShape, SendsFlagged
<1>5. ASSUME NEW c \in Calls, AuthoritySigns(c) PROVE Flagged'
  BY <1>5, SendsShape, SendsFlagged
<1>6. ASSUME NEW c \in Calls, AuthorityResends(c) PROVE Flagged'
  BY <1>6, SendsShape, SendsFlagged
<1>7. ASSUME NEW c \in Calls, AuthorityThrows(c) PROVE Flagged'
  BY <1>7, CaughtShape, LeavesFlagged DEF AuthorityThrows, service
<1>8. ASSUME NEW c \in Calls, AuthorityReturns(c) PROVE Flagged'
  BY <1>8
     DEF AuthorityReturns, Goto, service, Flagged, Awaited, WireOf, ChargedBy,
         Paying
<1>9. ASSUME NEW c \in Calls, TransportFails(c) PROVE Flagged'
  BY <1>9
     DEF TransportFails, Goto, service, TypeOK, Flagged, Awaited, WireOf,
         ChargedBy
<1>10. ASSUME NEW c \in Calls, ResponseArrives(c) PROVE Flagged'
  BY <1>10, ArrivesFlagged
<1>11. ASSUME NEW c \in Calls, ResponseTraced(c) PROVE Flagged'
  BY <1>11
     DEF ResponseTraced, Goto, service, Flagged, Awaited, WireOf, ChargedBy,
         Paying
<1>12. ASSUME NEW c \in Calls, BodyLost(c) PROVE Flagged'
  BY <1>12, CaughtShape, LeavesFlagged DEF BodyLost, service
<1>13. ASSUME NEW c \in Calls, BodyRead(c) PROVE Flagged'
  BY <1>13, BodyReadShape, LeavesFlagged DEF BodyRead, service
<1>14. ASSUME NEW c \in Calls, UncertainTraced(c) PROVE Flagged'
  BY <1>14
     DEF UncertainTraced, End, service, Flagged, Awaited, WireOf, ChargedBy,
         Paying
<1>15. ASSUME NEW r \in Refreshers, Refresh(r) PROVE Flagged'
  BY <1>15 DEF Refresh, service, Flagged, Awaited, WireOf, ChargedBy, Paying
<1>16. ASSUME NEW f \in Fetchers, ServeCatalog(f) PROVE Flagged'
  BY <1>16
     DEF ServeCatalog, service, Flagged, Awaited, WireOf, ChargedBy, Paying
<1>17. ASSUME NEW f \in Fetchers, CatalogArrives(f) PROVE Flagged'
  BY <1>17
     DEF CatalogArrives, Bind, Goto, End, service, TypeOK, Flagged, Awaited,
         WireOf, ChargedBy, Fetchers, Paying
<1>18. ASSUME NEW q \in wire, Serve(q) PROVE Flagged'
  BY <1>18, ServeFlagged
<1>19. ASSUME Republish PROVE Flagged'
  BY <1>19 DEF Republish, Flagged, Awaited, WireOf, ChargedBy
<1>20. ASSUME Crash PROVE Flagged'
  BY <1>20 DEF Crash, Flagged, Fetchers, Paying
<1>21. ASSUME UNCHANGED vars PROVE Flagged'
  BY <1>21 DEF vars, service, Flagged, Awaited, WireOf, ChargedBy
<1>22. QED
  BY <1>1, <1>2, <1>3, <1>4, <1>5, <1>6, <1>7, <1>8, <1>9, <1>10, <1>11,
     <1>12, <1>13, <1>14, <1>15, <1>16, <1>17, <1>18, <1>19, <1>20, <1>21
     DEF Next, CallStep, FetchStep, Rest

(***************************************************************************)
(* Clean: what ends in a bare error has left nothing behind.               *)
(***************************************************************************)
LEMMA CleanStep ==
  TypeOK /\ Bound /\ Settled /\ Flagged /\ Clean /\ [Next]_vars => Clean'
<1> SUFFICES ASSUME TypeOK /\ Bound /\ Settled /\ Flagged /\ Clean, [Next]_vars
             PROVE  Clean'
  OBVIOUS
<1>1. ASSUME NEW c \in Calls, Invoke(c) PROVE Clean'
  BY <1>1
     DEF Invoke, Bind, Goto, End, service, TypeOK, Bound, Clean, WireOf,
         ChargedBy, Unpaid
<1>2. ASSUME NEW c \in Calls, RequestTraced(c) PROVE Clean'
  BY <1>2 DEF RequestTraced, Goto, service, Clean, WireOf, ChargedBy
<1>3. ASSUME NEW c \in Calls, ObserverRefuses(c) PROVE Clean'
  BY <1>3
     DEF ObserverRefuses, End, service, Bound, Clean, WireOf, ChargedBy, Unpaid
<1>4. ASSUME NEW c \in Calls, AuthorityProbes(c) PROVE Clean'
  BY <1>4
     DEF AuthorityProbes, BaseFetch, Caught, Goto, End, service, TypeOK,
         Settled, Flagged, Clean, Awaited, WireOf, ChargedBy, Paying
<1>5. ASSUME NEW c \in Calls, AuthoritySigns(c) PROVE Clean'
  BY <1>5
     DEF AuthoritySigns, BaseFetch, Caught, Goto, End, service, TypeOK,
         Settled, Flagged, Clean, Awaited, WireOf, ChargedBy, Paying
<1>6. ASSUME NEW c \in Calls, AuthorityResends(c) PROVE Clean'
  BY <1>6
     DEF AuthorityResends, WithinCap, BaseFetch, Caught, Goto, End, client,
         catalog, service, Settled, Clean, WireOf, ChargedBy
<1>7. ASSUME NEW c \in Calls, AuthorityThrows(c) PROVE Clean'
  BY <1>7
     DEF AuthorityThrows, Caught, Goto, End, service, TypeOK, Flagged, Clean,
         Awaited, WireOf, ChargedBy, Paying
<1>8. ASSUME NEW c \in Calls, AuthorityReturns(c) PROVE Clean'
  BY <1>8 DEF AuthorityReturns, Goto, service, Clean, WireOf, ChargedBy
<1>9. ASSUME NEW c \in Calls, TransportFails(c) PROVE Clean'
  BY <1>9 DEF TransportFails, Goto, service, Clean, WireOf, ChargedBy
<1>10. ASSUME NEW c \in Calls, ResponseArrives(c) PROVE Clean'
  BY <1>10 DEF ResponseArrives, Goto, service, Clean, WireOf, ChargedBy
<1>11. ASSUME NEW c \in Calls, ResponseTraced(c) PROVE Clean'
  BY <1>11 DEF ResponseTraced, Goto, service, Clean, WireOf, ChargedBy
<1>12. ASSUME NEW c \in Calls, BodyLost(c) PROVE Clean'
  BY <1>12
     DEF BodyLost, Caught, Goto, End, service, TypeOK, Flagged, Clean, Awaited,
         WireOf, ChargedBy, Paying
<1>13. ASSUME NEW c \in Calls, BodyRead(c) PROVE Clean'
  BY <1>13 DEF BodyRead, Goto, End, service, TypeOK, Clean, WireOf, ChargedBy
<1>14. ASSUME NEW c \in Calls, UncertainTraced(c) PROVE Clean'
  BY <1>14 DEF UncertainTraced, End, service, Clean, WireOf, ChargedBy
<1>15. ASSUME NEW r \in Refreshers, Refresh(r) PROVE Clean'
  BY <1>15 DEF Refresh, service, Clean, WireOf, ChargedBy
<1>16. ASSUME NEW f \in Fetchers, ServeCatalog(f) PROVE Clean'
  BY <1>16 DEF ServeCatalog, service, Clean, WireOf, ChargedBy
<1>17. ASSUME NEW f \in Fetchers, CatalogArrives(f) PROVE Clean'
  BY <1>17
     DEF CatalogArrives, Bind, Goto, End, service, TypeOK, Bound, Clean,
         WireOf, ChargedBy, Unpaid
<1>18. ASSUME NEW q \in wire, Serve(q) PROVE Clean'
  BY <1>18
     DEF Serve, Replay, Challenge, Admit, Refuse, Clean, WireOf, ChargedBy
<1>19. ASSUME Republish PROVE Clean'
  BY <1>19 DEF Republish, Clean, WireOf, ChargedBy
<1>20. ASSUME Crash PROVE Clean'
  BY <1>20 DEF Crash, service, Clean, WireOf, ChargedBy
<1>21. ASSUME UNCHANGED vars PROVE Clean'
  BY <1>21 DEF vars, service, Clean, WireOf, ChargedBy
<1>22. QED
  BY <1>1, <1>2, <1>3, <1>4, <1>5, <1>6, <1>7, <1>8, <1>9, <1>10, <1>11,
     <1>12, <1>13, <1>14, <1>15, <1>16, <1>17, <1>18, <1>19, <1>20, <1>21
     DEF Next, CallStep, FetchStep, Rest

(***************************************************************************)
(* Granted: a 200 answers an admission.                                    *)
(***************************************************************************)
LEMMA LeavesGranted ==
  ASSUME TypeOK, Granted, NEW c \in Calls, pc[c] \in Paying \ {"sent"},
         UNCHANGED <<key, binding, reply, charges>>,
         pc'[c] \in {"done", "uncertain"},
         outcome'[c] = "success" => frame[c].last = 200 \/ outcome[c] = "success",
         \A d \in Calls : d # c =>
           /\ pc'[d] = pc[d] /\ frame'[d] = frame[d]
           /\ outcome'[d] = "success" => outcome[d] = "success"
  PROVE  Granted'
  BY DEF Granted, Admitted, Paying

LEMMA SendsGranted ==
  ASSUME TypeOK, Granted, NEW c \in Calls, Sends(c), reply[c] = NoReply
  PROVE  Granted'
<1>1. PICK revision, signed, amount : BaseFetch(c, revision, signed, amount)
  BY DEF Sends
<1>2. UNCHANGED <<key, binding, reply, charges>> /\ pc[c] = "authority"
  BY DEF Sends, client, service
<1>3. CASE revision # binding[c]
  <2>1. Caught(c)
    BY <1>1, <1>3 DEF BaseFetch
  <2>2. QED
    BY <1>2, <2>1, CaughtShape, LeavesGranted DEF Paying
<1>4. CASE revision = binding[c]
  <2>1. Goto(c, "sent", [frame[c] EXCEPT !.sends = @ + 1])
    BY <1>1, <1>4 DEF BaseFetch
  <2>2. QED
    BY <1>2, <2>1, GotoShape DEF Granted, Admitted, Fetchers, NoReply, Null
<1>5. QED
  BY <1>3, <1>4

LEMMA ServeGranted ==
  ASSUME TypeOK, Bound, Granted, NEW q \in wire, Serve(q)
  PROVE  Granted'
  <1>1. q.call \in Calls /\ q.key = key[q.call] /\ q.revision = binding[q.call]
    BY DEF TypeOK, Requests, Bound
  <1>2. \A c \in Calls : Admitted(c) => Admitted(c)'
    BY ServeShape DEF Admitted
  <1>3. reply'[q.call].status = 200 /\ Awaited(q) => Admitted(q.call)'
    <2>1. CASE Replay(q)
      BY <1>1, <2>1
         DEF Replay, Admitted, ChargesOf, Answer, Serve, client, TypeOK
    <2>2. CASE Admit(q)
      <3> DEFINE ch == [call |-> q.call, key |-> q.key,
                        revision |-> q.revision, amount |-> q.amount]
      <3>1. ch \in charges' /\ ch.key = key'[q.call] /\ ch.revision = binding'[q.call]
        <4>1. charges' = charges \cup {ch}
          BY <2>2 DEF Admit
        <4>2. key' = key /\ binding' = binding
          BY ServeShape
        <4>3. QED
          BY <1>1, <4>1, <4>2
      <3>2. QED
        BY <3>1 DEF Admitted
    <2>3. CASE Challenge(q)
      BY <1>1, <2>3 DEF Challenge, Answer, TypeOK
    <2>4. CASE Refuse(q)
      BY <1>1, <2>4 DEF Refuse, Answer, TypeOK
    <2>5. QED
      BY <2>1, <2>2, <2>3, <2>4 DEF Serve
  <1>4. QED
    BY <1>2, <1>3, ServeShape DEF Granted

LEMMA TracedGranted ==
  ASSUME TypeOK, Bound, Settled, Granted, NEW c \in Calls, RequestTraced(c)
  PROVE  Granted'
  <1>1. frame[c].last # 200
    BY DEF RequestTraced, Settled, NoFrame, Cleared, Paying, Null
  <1>2. QED
   BY <1>1
      DEF RequestTraced, Goto, Granted, Admitted, TypeOK, Fetchers, client,
          service, Paying

LEMMA FailsGranted ==
  ASSUME TypeOK, Bound, Settled, Granted, NEW c \in Calls, TransportFails(c)
  PROVE  Granted'
  <1>1. /\ frame'[c].last = Lost /\ pc'[c] = "authority"
        /\ \A d \in Calls : d # c =>
             frame'[d] = frame[d] /\ pc'[d] = pc[d] /\ reply'[d] = reply[d]
    BY DEF TransportFails, Goto, Lost, TypeOK, Frames, Fetchers
  <1>2. UNCHANGED <<outcome, charges, key, binding>>
    BY DEF TransportFails, Goto, client, service
  <1>3. QED
   BY <1>1, <1>2 DEF Granted, Admitted, Paying, Lost

LEMMA GrantedStep ==
  TypeOK /\ Bound /\ Settled /\ Granted /\ [Next]_vars => Granted'
<1> SUFFICES ASSUME TypeOK /\ Bound /\ Settled /\ Granted, [Next]_vars
             PROVE  Granted'
  OBVIOUS
<1>1. ASSUME NEW c \in Calls, Invoke(c) PROVE Granted'
  BY <1>1
     DEF Invoke, Bind, Goto, End, client, catalog, service, TypeOK, Settled,
         Granted, Admitted, Fetchers, Paying
<1>2. ASSUME NEW c \in Calls, RequestTraced(c) PROVE Granted'
  BY <1>2, TracedGranted
<1>3. ASSUME NEW c \in Calls, ObserverRefuses(c) PROVE Granted'
  BY <1>3 DEF ObserverRefuses, End, client, service, Granted, Admitted, Paying
<1>4. ASSUME NEW c \in Calls, AuthorityProbes(c) PROVE Granted'
  BY <1>4, SendsShape, SendsGranted DEF Settled, Sends
<1>5. ASSUME NEW c \in Calls, AuthoritySigns(c) PROVE Granted'
  BY <1>5, SendsShape, SendsGranted DEF Settled, Sends
<1>6. ASSUME NEW c \in Calls, AuthorityResends(c) PROVE Granted'
  BY <1>6, SendsShape, SendsGranted DEF Settled, Sends
<1>7. ASSUME NEW c \in Calls, AuthorityThrows(c) PROVE Granted'
  BY <1>7, CaughtShape, LeavesGranted
     DEF AuthorityThrows, Paying, client, service
<1>8. ASSUME NEW c \in Calls, AuthorityReturns(c) PROVE Granted'
  BY <1>8
     DEF AuthorityReturns, Goto, client, service, Granted, Admitted, Paying
<1>9. ASSUME NEW c \in Calls, TransportFails(c) PROVE Granted'
  BY <1>9, FailsGranted
<1>10. ASSUME NEW c \in Calls, ResponseArrives(c) PROVE Granted'
  BY <1>10
     DEF ResponseArrives, Goto, client, service, TypeOK, Granted, Admitted,
         NoReply, Null
<1>11. ASSUME NEW c \in Calls, ResponseTraced(c) PROVE Granted'
  BY <1>11 DEF ResponseTraced, Goto, client, service, Granted, Admitted, Paying
<1>12. ASSUME NEW c \in Calls, BodyLost(c) PROVE Granted'
  BY <1>12, CaughtShape, LeavesGranted DEF BodyLost, Paying, client, service
<1>13. ASSUME NEW c \in Calls, BodyRead(c) PROVE Granted'
  BY <1>13, BodyReadShape, LeavesGranted DEF BodyRead, Paying, client, service
<1>14. ASSUME NEW c \in Calls, UncertainTraced(c) PROVE Granted'
  BY <1>14 DEF UncertainTraced, End, client, service, Granted, Admitted, Paying
<1>15. ASSUME NEW r \in Refreshers, Refresh(r) PROVE Granted'
  BY <1>15 DEF Refresh, client, service, Granted, Admitted, Paying
<1>16. ASSUME NEW f \in Fetchers, ServeCatalog(f) PROVE Granted'
  BY <1>16 DEF ServeCatalog, client, service, Granted, Admitted, Paying
<1>17. ASSUME NEW f \in Fetchers, CatalogArrives(f) PROVE Granted'
  BY <1>17
     DEF CatalogArrives, Bind, Goto, End, client, service, TypeOK, Settled,
         Granted, Admitted, Fetchers, Paying
<1>18. ASSUME NEW q \in wire, Serve(q) PROVE Granted'
  BY <1>18, ServeGranted
<1>19. ASSUME Republish PROVE Granted'
  BY <1>19 DEF Republish, client, Granted, Admitted
<1>20. ASSUME Crash PROVE Granted'
  BY <1>20 DEF Crash, service, Granted, Admitted, NoReply, NoFrame, Null
<1>21. ASSUME UNCHANGED vars PROVE Granted'
  BY <1>21 DEF vars, client, service, Granted, Admitted
<1>22. QED
  BY <1>1, <1>2, <1>3, <1>4, <1>5, <1>6, <1>7, <1>8, <1>9, <1>10, <1>11,
     <1>12, <1>13, <1>14, <1>15, <1>16, <1>17, <1>18, <1>19, <1>20, <1>21
     DEF Next, CallStep, FetchStep, Rest

(***************************************************************************)
(* The theorems.                                                           *)
(***************************************************************************)
LEMMA InvInit == Init => IInv
<1> SUFFICES ASSUME Init PROVE IInv
  OBVIOUS
<1>1. TypeOK
  BY NoFrameTyped, ClientAssumption
     DEF Init, TypeOK, Revisions, Phases, Outcomes, Replies, NoReply
<1>2. Bound /\ Priced /\ Traced
  BY DEF Init, Bound, Priced, Traced, WireOf, ChargedBy, Unpaid, Cleared,
         Paying, Fetchers
<1>3. Settled /\ Numbered /\ Flagged
  BY DEF Init, Settled, Numbered, Flagged, WireOf, ChargedBy, Paying, Fetchers
<1>4. Clean /\ Granted
  BY
     DEF Init, Clean, Granted, WireOf, ChargedBy, NoReply, Null, Paying,
         Fetchers
<1>5. QED
  BY <1>1, <1>2, <1>3, <1>4 DEF IInv

LEMMA InvStep == IInv /\ [Next]_vars => IInv'
  BY TypeStep, BoundStep, PricedStep, TracedStep, SettledStep, NumberedStep,
     FlaggedStep, CleanStep, GrantedStep DEF IInv

\* Whatever the calls, the authorities, the losses and the crashes, IInv holds.
THEOREM Invariant == Spec => []IInv
  BY InvInit, InvStep, PTL DEF Spec

\* The state of client, service and network keeps its types: no handler of
\* client.ts leaves a call without the locals its next step reads.
THEOREM TypeCorrect == Spec => []TypeOK
<1>1. IInv => TypeOK
  BY DEF IInv
<1>2. QED
  BY <1>1, Invariant, PTL

\* Every charge and every signed request was accepted by the observer of its
\* own call and is within the cap (client.ts:273-289, payment.ts:58-74).
THEOREM SignedAsShown == Spec => []SignedOnlyAsShown
<1>1. IInv => SignedOnlyAsShown
  <2> SUFFICES ASSUME IInv,
                      NEW m \in charges \cup {q \in wire : q.signed}
               PROVE  /\ m.call \in Observed =>
                           [call |-> m.call, key |-> m.key,
                            revision |-> m.revision] \in shown
                      /\ m.amount <= Cap
    BY DEF SignedOnlyAsShown
  <2>1. m.call \in Calls /\ m \in wire \cup charges
    BY DEF IInv, TypeOK, Requests, Charges
  <2>2. m.amount <= Cap
    BY DEF IInv, Priced
  <2>3. m.key = key[m.call] /\ m.revision = binding[m.call]
    BY <2>1 DEF IInv, Bound
  <2>4. m.call \in Observed => Identity(m.call) \in shown
    BY <2>1 DEF IInv, Traced, WireOf, ChargedBy
  <2>5. QED
    BY <2>2, <2>3, <2>4 DEF Identity
<1>2. QED
  BY <1>1, Invariant, PTL

\* A call that rethrew a bare error was charged nothing, and nothing of it is
\* still on its way (the flags of client.ts:282-283, read at 311).
THEOREM NoMoneyLost == Spec => []NoMoneyBehindAnError
<1>1. IInv => NoMoneyBehindAnError
  BY DEF IInv, Clean, NoMoneyBehindAnError, SignedInFlight, WireOf
<1>2. QED
  BY <1>1, Invariant, PTL

\* A result is the result of an admission under the call's own key and binding.
THEOREM Success == Spec => []SuccessIsAdmitted
<1>1. IInv => SuccessIsAdmitted
  BY DEF IInv, Granted, Admitted, SuccessIsAdmitted
<1>2. QED
  BY <1>1, Invariant, PTL

\* Only the last step of catalog() assigns the cache, and only with a document.
LEMMA CatalogStep ==
  ASSUME TypeOK, [Next]_vars, catalogDocument # Null, crashes' = crashes
  PROVE  catalogDocument' # Null
<1>1. ASSUME NEW c \in Calls, CallStep(c) PROVE catalogDocument' # Null
  BY <1>1 DEF CallStep, Invoke, RequestTraced, ObserverRefuses,
     AuthorityProbes, AuthoritySigns, AuthorityResends, AuthorityThrows,
     AuthorityReturns, TransportFails, ResponseArrives, ResponseTraced,
     BodyLost, BodyRead, UncertainTraced, catalog
<1>2. ASSUME NEW r \in Refreshers, Refresh(r) PROVE catalogDocument' # Null
  BY <1>2 DEF Refresh, catalog
<1>3. ASSUME NEW f \in Fetchers, FetchStep(f) PROVE catalogDocument' # Null
  BY <1>3 DEF FetchStep, ServeCatalog, CatalogArrives
<1>4. ASSUME NEW q \in wire, Serve(q) PROVE catalogDocument' # Null
  BY <1>4 DEF Serve, catalog
<1>5. CASE Republish
  BY <1>5 DEF Republish, catalog
<1>6. CASE Crash
  <2>1. crashes' = crashes + 1 /\ crashes \in Nat
    BY <1>6, ClientAssumption DEF Crash, TypeOK
  <2>2. QED
    BY <2>1
<1>7. CASE UNCHANGED vars
  BY <1>7 DEF vars, catalog
<1>8. QED
  BY <1>1, <1>2, <1>3, <1>4, <1>5, <1>6, <1>7 DEF Next, Rest

\* A running client never loses the catalog it has (client.ts:171-185).
THEOREM CatalogNeverLost == Spec => CatalogKept
<1>1. TypeOK /\ [Next]_vars
        => [catalogDocument # Null /\ crashes' = crashes
              => catalogDocument' # Null]_vars
  BY CatalogStep
<1>2. QED
  BY <1>1, TypeCorrect, PTL DEF Spec, CatalogKept
=============================================================================
