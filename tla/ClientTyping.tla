---------------------------- MODULE ClientTyping ----------------------------
EXTENDS ClientInvariant, TLAPS

(***************************************************************************)
(* The locals of a call stay well typed under each update invoke makes.    *)
(***************************************************************************)
LEMMA NoFrameTyped == NoFrame \in Frames
  BY ClientAssumption DEF NoFrame, Frames, Null

LEMMA SentFrameTyped ==
  ASSUME NEW f \in Frames, f.sends < MaxSends
  PROVE  [f EXCEPT !.sends = @ + 1] \in Frames
  BY ClientAssumption DEF Frames

LEMMA LostFrameTyped ==
  ASSUME NEW f \in Frames
  PROVE  [f EXCEPT !.transportFailed = TRUE, !.last = Lost] \in Frames
  BY DEF Frames

LEMMA AnsweredFrameTyped ==
  ASSUME NEW f \in Frames, NEW b \in BOOLEAN, NEW status \in Statuses,
         NEW a \in Amounts \cup {Null}
  PROVE  [f EXCEPT !.responseMayHaveExecuted = b, !.last = status, !.quote = a]
           \in Frames
  BY DEF Frames

(***************************************************************************)
(* What the four ways a step of invoke can end do to the control state.    *)
(***************************************************************************)
ControlOK == /\ pc \in [Fetchers -> Phases]
             /\ frame \in [Calls -> Frames]
             /\ outcome \in [Calls -> Outcomes]

LEMMA EndTyped ==
  ASSUME TypeOK, NEW c \in Calls, NEW o \in Outcomes, End(c, o)
  PROVE  ControlOK'
<1>1. pc' \in [Fetchers -> Phases]
  BY DEF TypeOK, End, Phases
<1>2. frame' \in [Calls -> Frames]
  BY NoFrameTyped DEF TypeOK, End
<1>3. outcome' \in [Calls -> Outcomes]
  BY DEF TypeOK, End
<1>4. QED
  BY <1>1, <1>2, <1>3 DEF ControlOK

LEMMA GotoTyped ==
  ASSUME TypeOK, NEW c \in Calls, NEW phase \in Phases, NEW f \in Frames,
         Goto(c, phase, f)
  PROVE  ControlOK'
  BY DEF TypeOK, ControlOK, Goto

LEMMA CaughtTyped ==
  ASSUME TypeOK, NEW c \in Calls, Caught(c)
  PROVE  ControlOK'
<1>1. "error" \in Outcomes /\ "uncertain" \in Phases /\ frame[c] \in Frames
  BY DEF TypeOK, Outcomes, Phases
<1>2. QED
  BY <1>1, EndTyped, GotoTyped DEF Caught

LEMMA BindTyped ==
  ASSUME TypeOK, NEW c \in Calls, NEW revision \in Revisions, Bind(c, revision)
  PROVE  ControlOK' /\ binding' \in [Calls -> Revisions \cup {Null}]
<1>1. "error" \in Outcomes /\ "tracing" \in Phases
  BY DEF Outcomes, Phases
<1>2. ControlOK'
  BY <1>1, NoFrameTyped, EndTyped, GotoTyped DEF Bind
<1>3. binding' \in [Calls -> Revisions \cup {Null}]
  BY DEF Bind, TypeOK
<1>4. QED
  BY <1>2, <1>3

LEMMA BaseFetchTyped ==
  ASSUME TypeOK, NEW c \in Calls, NEW revision \in Revisions,
         NEW signed \in BOOLEAN, NEW amount \in Amounts \cup {Null},
         frame[c].sends < MaxSends,
         BaseFetch(c, revision, signed, amount)
  PROVE  ControlOK' /\ wire' \subseteq Requests
<1> DEFINE q == [call |-> c, n |-> frame[c].sends + 1, key |-> key[c],
                 revision |-> revision, signed |-> signed, amount |-> amount]
<1>1. frame[c] \in Frames /\ "sent" \in Phases
  BY DEF TypeOK, Phases
<1>2. frame[c].sends + 1 \in 1..MaxSends
  BY <1>1, ClientAssumption DEF Frames
<1>3. q \in Requests
  BY <1>2 DEF TypeOK, Requests
<1>4. CASE revision # binding[c]
  BY <1>4, CaughtTyped DEF BaseFetch, TypeOK
<1>5. CASE revision = binding[c]
  BY <1>1, <1>3, <1>5, GotoTyped, SentFrameTyped DEF BaseFetch, TypeOK
<1>6. QED
  BY <1>4, <1>5

(***************************************************************************)
(* Type correctness is preserved. It needs Bound (a call below its         *)
(* envelope holds a revision) and Priced (what is admitted was quoted).    *)
(***************************************************************************)
LEMMA TypeStep == TypeOK /\ Bound /\ Priced /\ [Next]_vars => TypeOK'
<1> SUFFICES ASSUME TypeOK, Bound, Priced, [Next]_vars PROVE TypeOK'
  OBVIOUS
<1> DEFINE ElseOK == /\ rail \in Rails /\ key \in [Calls -> Keys]
                     /\ crashes \in 0..MaxCrashes /\ live \in Revisions
                     /\ charges \subseteq Charges
<1>a. \A phase \in {"fetching", "parsing", "tracing", "authority", "sent",
                    "observing", "body", "uncertain", "done"} : phase \in Phases
  BY DEF Phases
<1>b. \A o \in {"success", "refusal", "uncertain", "error"} : o \in Outcomes
  BY DEF Outcomes, Kept
<1>c. \A c \in Calls : frame[c] \in Frames
  BY DEF TypeOK
<1>d. \A c \in Calls : pc[c] = "authority" => binding[c] \in Revisions
  BY DEF Bound, Cleared, Paying
<1>1. ASSUME NEW c \in Calls, Invoke(c) PROVE TypeOK'
  <2>1. ControlOK' /\ binding' \in [Calls -> Revisions \cup {Null}]
    BY <1>1, <1>a, NoFrameTyped, GotoTyped, BindTyped DEF Invoke, TypeOK
  <2>2. QED
    BY <1>1, <2>1 DEF Invoke, TypeOK, ControlOK, client, catalog, service
<1>2. ASSUME NEW c \in Calls, RequestTraced(c) PROVE TypeOK'
  <2>1. ControlOK'
    BY <1>2, <1>a, <1>c, GotoTyped DEF RequestTraced
  <2>2. Identity(c) \in [call : Calls, key : Keys, revision : Revisions]
    BY <1>2 DEF RequestTraced, Identity, TypeOK, Bound
  <2>3. shown' \subseteq [call : Calls, key : Keys, revision : Revisions]
    BY <1>2, <2>2 DEF RequestTraced, TypeOK
  <2>4. QED
    BY <1>2, <2>1, <2>3 DEF RequestTraced, TypeOK, ControlOK, client, catalog, service
<1>3. ASSUME NEW c \in Calls, ObserverRefuses(c) PROVE TypeOK'
  <2>1. ControlOK'
    BY <1>3, <1>b, EndTyped DEF ObserverRefuses
  <2>2. QED
    BY <1>3, <2>1 DEF ObserverRefuses, TypeOK, ControlOK, client, catalog, service
<1>4. ASSUME NEW c \in Calls, AuthorityProbes(c) PROVE TypeOK'
  <2>1. BytesOf(c) \subseteq Revisions
    BY <1>4, <1>d DEF AuthorityProbes, BytesOf
  <2>2. ControlOK' /\ wire' \subseteq Requests
    BY <1>4, <2>1, BaseFetchTyped DEF AuthorityProbes
  <2>3. QED
    BY <1>4, <2>2 DEF AuthorityProbes, TypeOK, ControlOK, client, catalog, service
<1>5. ASSUME NEW c \in Calls, AuthoritySigns(c) PROVE TypeOK'
  <2>1. BytesOf(c) \subseteq Revisions
    BY <1>5, <1>d DEF AuthoritySigns, BytesOf
  <2>2. frame[c].quote \in Amounts \cup {Null}
    BY <1>c DEF Frames
  <2>3. ControlOK' /\ wire' \subseteq Requests
    <3>1. frame[c].sends < MaxSends
      BY <1>5 DEF AuthoritySigns
    <3>2. PICK revision \in Revisions : BaseFetch(c, revision, TRUE, frame[c].quote)
      BY <1>5, <2>1 DEF AuthoritySigns
    <3>3. QED
      BY <2>2, <3>1, <3>2, BaseFetchTyped
  <2>4. QED
    BY <1>5, <2>3 DEF AuthoritySigns, TypeOK, ControlOK, client, catalog, service
<1>6. ASSUME NEW c \in Calls, AuthorityResends(c) PROVE TypeOK'
  <2>1. binding[c] \in Revisions
    BY <1>6, <1>d DEF AuthorityResends
  <2>2. frame[c].quote \in Amounts \cup {Null}
    BY <1>c DEF Frames
  <2>3. ControlOK' /\ wire' \subseteq Requests
    <3>1. frame[c].sends < MaxSends
      BY <1>6 DEF AuthorityResends
    <3>2. CASE BaseFetch(c, binding[c], TRUE, frame[c].quote)
      BY <2>1, <2>2, <3>1, <3>2, BaseFetchTyped
    <3>3. CASE BaseFetch(c, binding[c], FALSE, Null)
      BY <2>1, <3>1, <3>3, BaseFetchTyped
    <3>4. QED
      BY <1>6, <3>2, <3>3 DEF AuthorityResends
  <2>4. QED
    BY <1>6, <2>3 DEF AuthorityResends, TypeOK, ControlOK, client, catalog, service
<1>7. ASSUME NEW c \in Calls, AuthorityThrows(c) PROVE TypeOK'
  <2>1. ControlOK'
    BY <1>7, CaughtTyped DEF AuthorityThrows
  <2>2. QED
    BY <1>7, <2>1 DEF AuthorityThrows, TypeOK, ControlOK, client, catalog, service
<1>8. ASSUME NEW c \in Calls, AuthorityReturns(c) PROVE TypeOK'
  <2>1. ControlOK'
    BY <1>8, <1>a, <1>c, GotoTyped DEF AuthorityReturns
  <2>2. QED
    BY <1>8, <2>1 DEF AuthorityReturns, TypeOK, ControlOK, client, catalog, service
<1>9. ASSUME NEW c \in Calls, TransportFails(c) PROVE TypeOK'
  <2>1. ControlOK'
    BY <1>9, <1>a, <1>c, GotoTyped, LostFrameTyped DEF TransportFails
  <2>2. reply' \in [Calls -> Replies]
    BY <1>9 DEF TransportFails, TypeOK, Replies, NoReply
  <2>3. QED
    BY <1>9, <2>1, <2>2 DEF TransportFails, TypeOK, ControlOK, client, catalog, service
<1>10. ASSUME NEW c \in Calls, ResponseArrives(c) PROVE TypeOK'
  <2> DEFINE status == reply[c].status
             quoted == IF reply[c].amount = Null THEN frame[c].quote
                       ELSE reply[c].amount
             executed == \/ frame[c].responseMayHaveExecuted
                         \/ ok(status) \/ status >= 500
  <2>1. status \in Statuses /\ reply[c].amount \in Amounts \cup {Null}
    BY <1>10 DEF ResponseArrives, TypeOK, Replies
  <2>2. quoted \in Amounts \cup {Null} /\ executed \in BOOLEAN
    BY <1>c, <2>1 DEF Frames, Statuses, ok
  <2>3. ControlOK'
    <3> HIDE DEF quoted, executed
    <3>1. Goto(c, "observing", [frame[c] EXCEPT
                                  !.responseMayHaveExecuted = executed,
                                  !.last = status, !.quote = quoted])
      BY <1>10 DEF ResponseArrives, quoted, executed
    <3>2. QED
      BY <1>a, <1>c, <2>1, <2>2, <3>1, GotoTyped, AnsweredFrameTyped
  <2>4. reply' \in [Calls -> Replies]
    BY <1>10 DEF ResponseArrives, TypeOK, Replies, NoReply
  <2>5. QED
    BY <1>10, <2>3, <2>4 DEF ResponseArrives, TypeOK, ControlOK, client, catalog, service
<1>11. ASSUME NEW c \in Calls, ResponseTraced(c) PROVE TypeOK'
  <2>1. ControlOK'
    BY <1>11, <1>a, <1>c, GotoTyped DEF ResponseTraced
  <2>2. QED
    BY <1>11, <2>1 DEF ResponseTraced, TypeOK, ControlOK, client, catalog, service
<1>12. ASSUME NEW c \in Calls, BodyLost(c) PROVE TypeOK'
  <2>1. ControlOK'
    BY <1>12, CaughtTyped DEF BodyLost
  <2>2. QED
    BY <1>12, <2>1 DEF BodyLost, TypeOK, ControlOK, client, catalog, service
<1>13. ASSUME NEW c \in Calls, BodyRead(c) PROVE TypeOK'
  <2>1. ControlOK'
    BY <1>13, <1>a, <1>b, <1>c, EndTyped, GotoTyped DEF BodyRead
  <2>2. QED
    BY <1>13, <2>1 DEF BodyRead, TypeOK, ControlOK, client, catalog, service
<1>14. ASSUME NEW c \in Calls, UncertainTraced(c) PROVE TypeOK'
  <2>1. ControlOK'
    BY <1>14, <1>b, EndTyped DEF UncertainTraced
  <2>2. QED
    BY <1>14, <2>1 DEF UncertainTraced, TypeOK, ControlOK, client, catalog, service
<1>15. ASSUME NEW r \in Refreshers, Refresh(r) PROVE TypeOK'
  <2>1. pc' \in [Fetchers -> Phases]
    BY <1>15, <1>a DEF Refresh, TypeOK
  <2>2. QED
    BY <1>15, <2>1 DEF Refresh, TypeOK, client, catalog, service
<1>16. ASSUME NEW f \in Fetchers, ServeCatalog(f) PROVE TypeOK'
  <2>1. pc' \in [Fetchers -> Phases]
    BY <1>16, <1>a DEF ServeCatalog, TypeOK
  <2>2. document' \in [Fetchers -> Revisions \cup {Null}]
    BY <1>16 DEF ServeCatalog, TypeOK
  <2>3. QED
    BY <1>16, <2>1, <2>2 DEF ServeCatalog, TypeOK, client, catalog, service
<1>17. ASSUME NEW f \in Fetchers, CatalogArrives(f) PROVE TypeOK'
  <2>1. /\ catalogDocument' \in Revisions \cup {Null}
        /\ document' \in [Fetchers -> Revisions \cup {Null}]
    BY <1>17 DEF CatalogArrives, TypeOK
  <2>2. ControlOK' /\ binding' \in [Calls -> Revisions \cup {Null}]
    <3>1. CASE f \in Refreshers /\ pc' = [pc EXCEPT ![f] = "done"]
               /\ UNCHANGED <<binding, frame, outcome>>
      BY <1>a, <3>1 DEF TypeOK, ControlOK
    <3>2. CASE f \in Calls /\ End(f, "error") /\ UNCHANGED binding
      BY <1>b, <3>2, EndTyped DEF TypeOK
    <3>3. CASE f \in Calls /\ document[f] # Null /\ Bind(f, document[f])
      BY <3>3, BindTyped DEF TypeOK
    <3>4. QED
      BY <1>17, <3>1, <3>2, <3>3 DEF CatalogArrives
  <2>3. QED
    BY <1>17, <2>1, <2>2 DEF CatalogArrives, TypeOK, ControlOK, client, service
<1>18. ASSUME NEW q \in wire, Serve(q) PROVE TypeOK'
  <2>1. ASSUME NEW status \in Statuses, NEW a \in Amounts \cup {Null},
               Answer(q, status, a)
        PROVE  reply' \in [Calls -> Replies]
    BY <2>1 DEF Answer, TypeOK, Replies
  <2>2. reply' \in [Calls -> Replies]
    BY <1>18, <2>1 DEF Serve, Replay, Challenge, Admit, Refuse, Statuses
  <2>3. charges' \subseteq Charges
    BY <1>18 DEF Serve, Replay, Challenge, Admit, Refuse, Requests, Charges,
                 Priced, TypeOK
  <2>4. QED
    BY <1>18, <2>2, <2>3 DEF Serve, TypeOK, client, catalog
<1>19. ASSUME Republish PROVE TypeOK'
  <2>1. live' \in Revisions
    BY <1>19, ClientAssumption DEF Republish, TypeOK, Revisions
  <2>2. QED
    BY <1>19, <2>1 DEF Republish, TypeOK, client, catalog
<1>20. ASSUME Crash PROVE TypeOK'
  <2>1. pc' \in [Fetchers -> Phases]
    BY <1>20 DEF Crash, TypeOK, Phases
  <2>2. frame' \in [Calls -> Frames] /\ reply' \in [Calls -> Replies]
    BY <1>20, NoFrameTyped DEF Crash, Replies, NoReply
  <2>3. crashes' \in 0..MaxCrashes
    BY <1>20, ClientAssumption DEF Crash, TypeOK
  <2>4. QED
    BY <1>20, <2>1, <2>2, <2>3 DEF Crash, TypeOK, service
<1>21. ASSUME UNCHANGED vars PROVE TypeOK'
  BY <1>21 DEF vars, TypeOK, client, catalog, service
<1>22. QED
  BY <1>1, <1>2, <1>3, <1>4, <1>5, <1>6, <1>7, <1>8, <1>9, <1>10, <1>11, <1>12,
     <1>13, <1>14, <1>15, <1>16, <1>17, <1>18, <1>19, <1>20, <1>21
     DEF Next, CallStep, FetchStep, Rest
=============================================================================
