-------------------------- MODULE FrontDoorProofs --------------------------
(***************************************************************************)
(* What the front door promises, proved for every catalog and projection,  *)
(* any number of calls, and command lines of any length: what is paid is   *)
(* what was listed or typed, once for a key, and under a cap.              *)
(***************************************************************************)
EXTENDS FrontDoor, WellFoundedInduction, TLAPS

\* The tools are the catalog's, at the revision the client has cached, from the
\* moment they are derived; nothing is paid by a server without a cap.
Derived ==
  /\ front = "cli" => server = "down"
  /\ server \in {"fetching", "deriving", "serving"} => env # "uncapped"
  /\ server \in {"down", "fetching"} => tools = <<>>
  /\ server \in {"deriving", "serving"} => cached # 0
  /\ server = "serving" => Len(tools) = Len(CatalogOrder)
  /\ \A i \in 1..Len(tools) :
       tools[i] = [name |-> projection[CatalogOrder[i]],
                   offer |-> CatalogOrder[i], revision |-> cached]

Typed(r, ch) ==
  LET rest == 2..Len(r.argv)
  IN \E i \in rest :
       /\ r.argv[i] = Flag /\ i + 1 \in rest /\ r.argv[i + 1] = ch.key
       /\ \A j \in rest \ {i, i + 1} : r.argv[j] # Flag /\ r.input = r.argv[j]
       /\ rest = {i, i + 1} => r.input = None
       /\ ch.offer = r.argv[1]

\* What a caller asked for, on the wire as in the books: with a key of the
\* caller's own, under a cap, as listed or as typed.
Asked(ch) ==
  LET r == request[ch.call]
  IN /\ pc[ch.call] # "idle" /\ env = "capped"
     /\ r.key # None /\ ch.key = r.key
     /\ front = "mcp" => FirstListed([name |-> r.target, offer |-> ch.offer,
                                      revision |-> ch.revision])
     /\ front = "cli" => Typed(r, ch)

Bought == /\ \A ch \in wire : Asked(ch)
          /\ \A ch \in charges : Asked(ch)
          /\ \A a, b \in charges : a.key = b.key => a = b

IInv == TypeOK /\ Derived /\ Bought

\* Tools are only appended: what was listed keeps its place.
Lengthened == /\ DOMAIN tools \subseteq DOMAIN tools'
              /\ \A i \in DOMAIN tools : tools'[i] = tools[i]

\* Of the arguments up to p, all but the skipped ones are the input, if any.
InputIs(argv, p, skipped, input) ==
  /\ \A j \in (2..p) \ skipped : argv[j] # Flag /\ argv[j] = input
  /\ (2..p) \ skipped = {} => input = None

ParseStates == [ok : BOOLEAN, valueDue : BOOLEAN,
                key : Strings \cup {None}, input : Strings \cup {None}]

\* What the parser has made of the arguments up to p, none of them thrown: no
\* flag yet; the flag and no value yet; the flag and its value.
Scanned(argv, p, s) ==
  \/ s.key = None /\ ~s.valueDue /\ InputIs(argv, p, {}, s.input)
  \/ s.key = None /\ s.valueDue /\ p >= 2 /\ argv[p] = Flag
     /\ InputIs(argv, p, {p}, s.input)
  \/ /\ s.key # None /\ ~s.valueDue
     /\ \E i \in 2..p : /\ i + 1 \in 2..p /\ argv[i] = Flag /\ argv[i + 1] = s.key
                        /\ InputIs(argv, p, {i, i + 1}, s.input)
-----------------------------------------------------------------------------
(***************************************************************************)
(* Induction over the arguments, by the least of a set of positions.       *)
(***************************************************************************)
LEMMA LeastNumber ==
  ASSUME NEW T, T \subseteq Nat, T # {}
  PROVE  \E x \in T : \A y \in T : x <= y
<1> DEFINE R == OpToRel(<, Nat)
<1>1. IsWellFoundedOn(R, Nat)
  BY NatLessThanWellFounded
<1>2. \A x, y \in Nat : y < x => <<y, x>> \in R
  BY DEF OpToRel
<1> HIDE DEF R
<1>3. PICK x \in T : \A y \in T : <<y, x>> \notin R
  BY <1>1, WFMin
<1>4. \A y \in T : ~(y < x)
  BY <1>2, <1>3
<1>5. QED
  BY <1>4

ParsedAt(f, argv, i) == IF i = 1 THEN NothingParsed
                        ELSE IF f[i - 1].ok THEN Argument(f[i - 1], argv[i])
                        ELSE f[i - 1]

\* The parser's states are there for a command line of any length.
LEMMA ParserRuns ==
  ASSUME NEW argv, NEW n \in Nat
  PROVE  \E f : f = [i \in 1..n |-> ParsedAt(f, argv, i)]
<1> DEFINE Runs(k) == \E f : f = [i \in 1..k |-> ParsedAt(f, argv, i)]
           T == {k \in Nat : ~Runs(k)}
<1>1. Runs(0)
  <2>1. [i \in 1..0 |-> NothingParsed] = [i \in 1..0 |->
           ParsedAt([j \in 1..0 |-> NothingParsed], argv, i)]
    OBVIOUS
  <2>2. QED
    BY <2>1
<1>2. ASSUME NEW k \in Nat, Runs(k) PROVE Runs(k + 1)
  <2>1. PICK f : f = [i \in 1..k |-> ParsedAt(f, argv, i)]
    BY <1>2
  <2> DEFINE g == [i \in 1..(k + 1) |-> IF i <= k THEN f[i] ELSE ParsedAt(f, argv, i)]
  <2>2. ASSUME NEW i \in 1..(k + 1) PROVE ParsedAt(g, argv, i) = ParsedAt(f, argv, i)
    <3>1. i # 1 => i - 1 \in 1..(k + 1) /\ i - 1 <= k
      OBVIOUS
    <3>2. i # 1 => g[i - 1] = f[i - 1]
      BY <3>1
    <3> HIDE DEF g
    <3>3. QED
      BY <3>2 DEF ParsedAt
  <2>3. \A i \in 1..(k + 1) : g[i] = ParsedAt(f, argv, i)
    <3>1. \A i \in 1..k : f[i] = ParsedAt(f, argv, i)
      BY <2>1
    <3>2. QED
      BY <3>1
  <2>4. g = [i \in 1..(k + 1) |-> g[i]]
    OBVIOUS
  <2> HIDE DEF g
  <2>5. g = [i \in 1..(k + 1) |-> ParsedAt(g, argv, i)]
    BY <2>2, <2>3, <2>4
  <2>6. QED
    BY <2>5
<1> HIDE DEF Runs
<1>3. T = {}
  <2> SUFFICES ASSUME T # {} PROVE FALSE
    OBVIOUS
  <2>1. PICK x \in T : \A y \in T : x <= y
    BY LeastNumber
  <2>2. x \in Nat /\ x # 0 /\ ~Runs(x)
    BY <1>1
  <2>3. x - 1 \in Nat /\ x - 1 \notin T /\ (x - 1) + 1 = x
    BY <2>1, <2>2
  <2>4. Runs(x - 1)
    BY <2>3
  <2>5. QED
    BY <1>2, <2>2, <2>3, <2>4
<1>4. QED
  BY <1>3 DEF Runs

LEMMA ParserStates ==
  ASSUME NEW argv \in Seq(Strings)
  PROVE  \E f : /\ f = [i \in 1..Len(argv) |-> ParsedAt(f, argv, i)]
                /\ invocationArguments(argv) = f[Len(argv)]
<1>1. DOMAIN argv = 1..Len(argv) /\ Len(argv) \in Nat
  OBVIOUS
<1>2. PICK g : g = [i \in 1..Len(argv) |-> ParsedAt(g, argv, i)]
  BY <1>1, ParserRuns
<1>3. g = [i \in DOMAIN argv |-> ParsedAt(g, argv, i)]
  BY <1>1, <1>2
<1>4. \E f : /\ f = [i \in DOMAIN argv |-> ParsedAt(f, argv, i)]
             /\ invocationArguments(argv) = f[Len(argv)]
  BY <1>3 DEF invocationArguments, ParsedAt
<1>5. QED
  BY <1>1, <1>4

\* One more argument is read.
LEMMA ArgumentScanned ==
  ASSUME NEW argv \in Seq(Strings), NEW p \in Nat, p >= 1, p + 1 <= Len(argv),
         NEW s \in ParseStates, s.ok, Scanned(argv, p, s),
         Argument(s, argv[p + 1]).ok
  PROVE  Scanned(argv, p + 1, Argument(s, argv[p + 1]))
<1> DEFINE t == argv[p + 1]
           u == Argument(s, t)
<1>1. t \in Strings /\ \A j \in 2..p : argv[j] \in Strings
  OBVIOUS
<1>2. None \notin Strings
  BY FrontDoorAssumption DEF Strings
<1>3. 2..(p + 1) = (2..p) \cup {p + 1} /\ p + 1 \notin 2..p
  OBVIOUS
<1>4. CASE s.valueDue
  <2>1. u.key = t /\ ~u.valueDue /\ u.input = s.input
    BY <1>4 DEF Argument, ParseStates
  <2>2. p \in 2..p /\ argv[p] = Flag /\ InputIs(argv, p, {p}, s.input)
    BY <1>4 DEF Scanned
  <2>3. InputIs(argv, p + 1, {p, p + 1}, s.input)
    BY <1>3, <2>2 DEF InputIs
  <2>4. p \in 2..(p + 1) /\ p + 1 \in 2..(p + 1) /\ u.key # None
    BY <1>1, <1>2, <2>1, <2>2
  <2>5. QED
    BY <2>1, <2>2, <2>3, <2>4 DEF Scanned
<1>5. CASE ~s.valueDue /\ t = Flag
  <2>1. s.key = None /\ u.key = None /\ u.valueDue /\ u.input = s.input
    BY <1>5 DEF Argument, ParseStates
  <2>2. InputIs(argv, p, {}, s.input)
    BY <1>5, <2>1 DEF Scanned
  <2>3. InputIs(argv, p + 1, {p + 1}, s.input)
    BY <1>3, <2>2 DEF InputIs
  <2>4. QED
    BY <1>5, <2>1, <2>3 DEF Scanned
<1>6. CASE ~s.valueDue /\ t # Flag
  <2>1. s.input = None /\ u.input = t /\ u.key = s.key /\ ~u.valueDue
    BY <1>6 DEF Argument, ParseStates
  <2>2. ASSUME NEW skipped, skipped \subseteq 2..p, InputIs(argv, p, skipped, s.input)
        PROVE  InputIs(argv, p + 1, skipped, t)
    <3>1. (2..p) \ skipped = {}
      BY <1>1, <1>2, <2>1, <2>2 DEF InputIs
    <3>2. (2..(p + 1)) \ skipped = {p + 1}
      BY <1>3, <2>2, <3>1
    <3>3. QED
      BY <1>6, <3>2 DEF InputIs
  <2>3. CASE s.key = None
    BY <1>6, <2>1, <2>2, <2>3 DEF Scanned
  <2>4. CASE s.key # None
    <3>1. PICK i \in 2..p : /\ i + 1 \in 2..p /\ argv[i] = Flag /\ argv[i + 1] = s.key
                            /\ InputIs(argv, p, {i, i + 1}, s.input)
      BY <2>4 DEF Scanned
    <3>2. InputIs(argv, p + 1, {i, i + 1}, t)
      BY <2>2, <3>1
    <3>3. i \in 2..(p + 1) /\ i + 1 \in 2..(p + 1)
      BY <3>1
    <3>4. QED
      BY <2>1, <2>4, <3>1, <3>2, <3>3 DEF Scanned
  <2>5. QED
    BY <2>3, <2>4
<1>7. QED
  BY <1>4, <1>5, <1>6

\* What comes out of the parser, for a command line of any length.
LEMMA ParserReads ==
  ASSUME NEW argv \in Seq(Strings), argv # <<>>
  PROVE  LET parsed == invocationArguments(argv)
         IN /\ parsed \in ParseStates
            /\ parsed.ok => Scanned(argv, Len(argv), parsed)
<1> DEFINE n == Len(argv)
<1>1. n \in Nat /\ n >= 1
  OBVIOUS
<1>2. PICK f : f = [i \in 1..n |-> ParsedAt(f, argv, i)]
               /\ invocationArguments(argv) = f[n]
  BY ParserStates
<1> DEFINE Good(i) == f[i] \in ParseStates /\ (f[i].ok => Scanned(argv, i, f[i]))
           T == {i \in 1..n : ~Good(i)}
<1>3. Good(1)
  <2>1. f[1] = NothingParsed
    BY <1>1, <1>2 DEF ParsedAt
  <2>2. InputIs(argv, 1, {}, None)
    BY DEF InputIs
  <2>3. QED
    BY <2>1, <2>2 DEF NothingParsed, ParseStates, Scanned
<1>4. ASSUME NEW i \in 1..n, i + 1 \in 1..n, Good(i) PROVE Good(i + 1)
  <2>1. f[i + 1] = IF f[i].ok THEN Argument(f[i], argv[i + 1]) ELSE f[i]
    BY <1>2, <1>4 DEF ParsedAt
  <2>2. argv[i + 1] \in Strings
    BY <1>4
  <2>3. CASE f[i].ok
    <3>1. Argument(f[i], argv[i + 1]) \in ParseStates
      BY <1>4, <2>2 DEF Argument, ParseStates
    <3>2. QED
      BY <1>4, <2>1, <2>3, <3>1, ArgumentScanned
  <2>4. CASE ~f[i].ok
    BY <1>4, <2>1, <2>4
  <2>5. QED
    BY <2>3, <2>4
<1> HIDE DEF Good
<1>5. T = {}
  <2> SUFFICES ASSUME T # {} PROVE FALSE
    OBVIOUS
  <2>1. T \subseteq Nat
    OBVIOUS
  <2>2. PICK x \in T : \A y \in T : x <= y
    BY <2>1, LeastNumber
  <2>3. x \in 1..n /\ x # 1 /\ ~Good(x)
    BY <1>3
  <2>4. x - 1 \in 1..n /\ x - 1 \notin T /\ (x - 1) + 1 = x
    BY <2>2, <2>3
  <2>5. Good(x - 1)
    BY <2>4
  <2>6. QED
    BY <1>4, <2>3, <2>4, <2>5
<1>6. Good(n)
  BY <1>1, <1>5
<1>7. QED
  BY <1>2, <1>6 DEF Good
-----------------------------------------------------------------------------
(***************************************************************************)
(* What a step does.                                                       *)
(***************************************************************************)
LEMMA Steps ==
  ASSUME [Next]_vars
  PROVE  \/ Startup
         \/ \E c \in Calls : Step(c)
         \/ \E q \in wire : ServeRequest(q)
         \/ Republish
         \/ Dies
         \/ UNCHANGED vars
  BY DEF Next, Rest

\* The tool that is found under a name is listed under it, and the first one.
LEMMA FoundIsListed ==
  ASSUME TypeOK, NEW name, Listed(name) # {}
  PROVE  /\ FirstListed(Found(name)) /\ Found(name) \in Tools
         /\ Found(name).name = name
         /\ \E i \in 1..Len(tools) : Found(name) = tools[i]
<1>1. DOMAIN tools = 1..Len(tools) /\ Len(tools) \in Nat
      /\ \A i \in 1..Len(tools) : tools[i] \in Tools
  BY DEF TypeOK
<1>2. Listed(name) \subseteq Nat
  BY <1>1 DEF Listed
<1>3. \E i \in Listed(name) : \A j \in Listed(name) : i <= j
  BY <1>2, LeastNumber
<1>4. PICK i \in Listed(name) : /\ Found(name) = tools[i]
                                /\ \A j \in Listed(name) : i <= j
  BY <1>3 DEF Found
<1>5. i \in 1..Len(tools) /\ tools[i].name = name
  BY <1>1 DEF Listed
<1>6. ASSUME NEW j \in 1..(i - 1) PROVE tools[j].name # name
  BY <1>1, <1>2, <1>4, <1>5, <1>6 DEF Listed
<1>7. QED
  BY <1>1, <1>4, <1>5, <1>6 DEF FirstListed

\* The paid request of a call that has none yet.
NewRequest(c, r, o, revision) ==
  [call |-> c, key |-> EnvelopeKey(c, r), offer |-> o, revision |-> revision]

\* What is asked for by a call whose client sends.
LEMMA Sends ==
  ASSUME IInv, NEW c \in Calls, PaidTool(c) \/ InvokeVerb(c)
  PROVE  /\ pc[c] = "idle" /\ env = "capped"
         /\ UNCHANGED <<config, live, mcp, outcome, charges>>
         /\ \E r \in Requests, o \in Offers, revision \in 1..MaxRevision :
              /\ Invoke(c, r, o, revision) /\ r.key # None
              /\ front = "mcp" => FirstListed([name |-> r.target, offer |-> o,
                                               revision |-> revision])
              /\ front = "cli" => Typed(r, [key |-> r.key, offer |-> o])
<1> USE DEF IInv
<1>none. None \notin Strings /\ Keys \subseteq Strings
  BY FrontDoorAssumption DEF Strings
<1>1. CASE PaidTool(c)
  <2>1. pc[c] = "idle" /\ server = "serving" /\ env = "capped" /\ front = "mcp"
        /\ UNCHANGED <<config, live, mcp, outcome, charges>>
    BY <1>1 DEF PaidTool, Called, paymentFromEnvironment, TypeOK, Derived, Invoke
  <2>2. PICK name \in Names \ Builtins, k \in Keys :
          /\ Listed(name) # {}
          /\ Invoke(c, [NoRequest EXCEPT !.target = name, !.key = k],
                    Found(name).offer, cached)
    BY <1>1 DEF PaidTool
  <2> DEFINE r == [NoRequest EXCEPT !.target = name, !.key = k]
  <2>3. r \in Requests
    <3>1. NoRequest \in Requests
      BY DEF NoRequest, Requests
    <3>2. name \in Names \cup Builtins \cup Strings \cup {None}
          /\ k \in Strings \cup {None}
      BY <1>none
    <3>3. QED
      BY <3>1, <3>2 DEF Requests
  <2>4. r.key = k /\ r.target = name /\ k # None
    BY <1>none DEF NoRequest
  <2>5. FirstListed(Found(name)) /\ Found(name).name = name
        /\ Found(name).offer \in Offers /\ Found(name).revision = cached
        /\ cached \in 1..MaxRevision
        /\ Found(name) = [name |-> Found(name).name, offer |-> Found(name).offer,
                          revision |-> Found(name).revision]
    <3>1. PICK i \in 1..Len(tools) : Found(name) = tools[i]
      BY <2>2, FoundIsListed
    <3>2. tools[i] = [name |-> projection[CatalogOrder[i]],
                      offer |-> CatalogOrder[i], revision |-> cached]
      BY Zenon DEF Derived
    <3>5. tools[i].revision = cached
      BY <3>2
    <3>3. cached \in 1..MaxRevision
      BY <2>1 DEF Derived, TypeOK
    <3>4. QED
      BY <2>2, <3>1, <3>5, <3>3, FoundIsListed DEF Tools
  <2> HIDE DEF r
  <2>6. FirstListed([name |-> r.target, offer |-> Found(name).offer,
                     revision |-> cached])
    BY <2>4, <2>5
  <2>7. Invoke(c, r, Found(name).offer, cached)
    BY <2>2 DEF r
  <2>8. QED
    BY <2>1, <2>3, <2>4, <2>5, <2>6, <2>7
<1>2. CASE InvokeVerb(c)
  <2>1. pc[c] = "idle" /\ front = "cli" /\ env = "capped"
        /\ UNCHANGED <<config, live, mcp, outcome, charges>>
    BY <1>2 DEF InvokeVerb, clientFromEnvironment, paymentFromEnvironment, Invoke, TypeOK
  <2>2. PICK argv \in SeqOf(Strings, MaxArguments) :
          /\ argv # <<>> /\ argv[1] \in Offers
          /\ LET parsed == invocationArguments(argv)
             IN /\ parsed.ok /\ ~parsed.valueDue
                /\ parsed.key # None /\ resolveInput(parsed.input)
                /\ Invoke(c, [target |-> argv[1], key |-> parsed.key,
                              input |-> parsed.input, argv |-> argv], argv[1], live)
    BY <1>2 DEF InvokeVerb
  <2>3. argv \in Seq(Strings)
    BY FrontDoorAssumption DEF SeqOf
  <2> DEFINE parsed == invocationArguments(argv)
             r == [target |-> argv[1], key |-> parsed.key, input |-> parsed.input,
                   argv |-> argv]
  <2>4. parsed \in ParseStates /\ Scanned(argv, Len(argv), parsed)
    BY <2>2, <2>3, ParserReads
  <2>5. parsed.key \in Strings \cup {None} /\ parsed.input \in Strings \cup {None}
        /\ parsed.key # None /\ ~parsed.valueDue
    BY <2>2, <2>4 DEF ParseStates
  <2>6. Invoke(c, r, argv[1], live)
    BY <2>2
  <2> HIDE DEF parsed
  <2>7. r \in Requests
    BY <2>2, <2>3, <2>5 DEF Requests, Strings
  <2>8. Typed(r, [key |-> r.key, offer |-> argv[1]])
    BY <2>4, <2>5 DEF Scanned, Typed, InputIs
  <2>9. live \in 1..MaxRevision /\ argv[1] \in Offers /\ r.key # None
    BY <2>2, <2>5 DEF TypeOK
  <2> HIDE DEF r
  <2>10. QED
    BY <2>1, <2>6, <2>7, <2>8, <2>9
<1>3. QED
  BY <1>1, <1>2

\* The other steps of a call pay nothing.
LEMMA Answered ==
  ASSUME TypeOK, NEW c \in Calls, Step(c), ~PaidTool(c), ~InvokeVerb(c)
  PROVE  /\ UNCHANGED <<config, live, mcp, request, binding, wire, charges>>
         /\ pc' = [pc EXCEPT ![c] = "done"]
         /\ \E o \in {"result", "error"} : outcome' = [outcome EXCEPT ![c] = o]
<1>1. CASE CatalogTool(c) \/ ReadVerb(c)
  BY <1>1 DEF CatalogTool, ReadVerb, Answers
<1>2. CASE ToolRefused(c) \/ VerbRefused(c)
  BY <1>2 DEF ToolRefused, VerbRefused, Answers
<1>3. CASE InvokeReturns(c) \/ InvokeThrows(c)
  BY <1>3 DEF InvokeReturns, InvokeThrows, Answers
<1>4. QED
  BY <1>1, <1>2, <1>3 DEF Step

\* One more tool is listed, the next of the catalog's.
LEMMA Lists ==
  ASSUME IInv, server = "deriving", Len(tools) < Len(CatalogOrder),
         ListTool(DerivedOffer)
  PROVE  /\ tools' \in Seq(Tools) /\ Len(tools') = Len(tools) + 1
         /\ Len(tools') <= Len(CatalogOrder)
         /\ \A i \in 1..Len(tools') :
              tools'[i] = [name |-> projection[CatalogOrder[i]],
                           offer |-> CatalogOrder[i], revision |-> cached]
         /\ Lengthened
<1> DEFINE o == CatalogOrder[Len(tools) + 1]
           t == [name |-> projection[o], offer |-> o, revision |-> cached]
<1>1. tools \in Seq(Tools) /\ Len(tools) \in Nat /\ Len(CatalogOrder) \in Nat
  BY FrontDoorAssumption DEF IInv, TypeOK
<1>2. o \in Offers
  BY <1>1, FrontDoorAssumption
<1>3. cached \in 1..MaxRevision /\ projection[o] \in Names
  BY <1>2, FrontDoorAssumption DEF IInv, TypeOK, Derived
<1> HIDE DEF o
<1>4. t \in Tools
  BY <1>2, <1>3 DEF Tools
<1>5. tools' = Append(tools, t)
  BY DEF ListTool, DerivedOffer, o
<1> HIDE DEF t
<1>6. /\ tools' \in Seq(Tools) /\ Len(tools') = Len(tools) + 1
      /\ \A i \in 1..Len(tools) : tools'[i] = tools[i]
      /\ tools'[Len(tools) + 1] = t
  BY <1>1, <1>4, <1>5
<1>7. \A i \in 1..Len(tools) :
        tools[i] = [name |-> projection[CatalogOrder[i]],
                    offer |-> CatalogOrder[i], revision |-> cached]
  BY DEF IInv, Derived
<1>8. 1..Len(tools') = (1..Len(tools)) \cup {Len(tools) + 1}
  BY <1>1, <1>6
<1>9. Lengthened
  <2>1. DOMAIN tools = 1..Len(tools) /\ DOMAIN tools' = 1..Len(tools')
    BY <1>1, <1>6
  <2>2. QED
    BY <1>6, <1>8, <2>1 DEF Lengthened
<1>10. ASSUME NEW i \in 1..Len(tools')
       PROVE  tools'[i] = [name |-> projection[CatalogOrder[i]],
                           offer |-> CatalogOrder[i], revision |-> cached]
  <2>1. CASE i \in 1..Len(tools)
    BY <1>6, <1>7, <2>1
  <2>2. CASE i = Len(tools) + 1
    BY <1>6, <2>2 DEF o, t
  <2>3. QED
    BY <1>8, <2>1, <2>2
<1>11. QED
  BY <1>1, <1>6, <1>9, <1>10

\* Before it serves, the server calls nobody.
LEMMA StartupKeeps ==
  ASSUME Startup
  PROVE  UNCHANGED <<config, live, call, wire, charges>>
  BY DEF Startup, StartServer, CatalogFetched, CatalogFails, SchemaFetched,
         SchemaMissing, Serve, call

\* What startup does to the server and its tools, however it goes.
LEMMA StartupDerives ==
  ASSUME IInv, Startup
  PROVE  /\ Derived'
         /\ tools' \in Seq(Tools) /\ Len(tools') <= Len(CatalogOrder)
         /\ cached' \in 0..MaxRevision
         /\ server' \in {"down", "fetching", "deriving", "serving", "failed", "dead"}
         /\ Lengthened
<1> USE DEF IInv
<1>1. UNCHANGED <<front, env, projection, schema, live>>
  BY StartupKeeps DEF config
<1>2. CASE StartServer
  <2>1. server' = "fetching" => env # "uncapped"
    BY <1>2 DEF StartServer, clientFromEnvironment, paymentFromEnvironment, TypeOK
  <2>2. QED
    BY <1>1, <1>2, <2>1 DEF StartServer, TypeOK, Derived, Lengthened
<1>3. CASE CatalogFetched
  <2>1. tools = <<>> /\ tools' = <<>> /\ server' = "deriving" /\ cached' = live
        /\ env # "uncapped" /\ front # "cli"
    BY <1>3 DEF CatalogFetched, Derived
  <2>2. QED
    BY <1>1, <2>1, FrontDoorAssumption DEF TypeOK, Derived, Lengthened
<1>4. CASE CatalogFails
  BY <1>1, <1>4 DEF CatalogFails, TypeOK, Derived, Lengthened
<1>5. CASE SchemaFetched \/ SchemaMissing
  <2>1. server = "deriving" /\ Len(tools) < Len(CatalogOrder) /\ cached' = cached
    BY <1>5 DEF SchemaFetched, SchemaMissing
  <2>2. CASE ListTool(DerivedOffer) /\ server' = server
    <3>1. /\ tools' \in Seq(Tools) /\ Len(tools') <= Len(CatalogOrder)
          /\ \A i \in 1..Len(tools') :
               tools'[i] = [name |-> projection[CatalogOrder[i]],
                            offer |-> CatalogOrder[i], revision |-> cached]
          /\ Lengthened
      BY <2>1, <2>2, Lists
    <3>2. Derived'
      BY <1>1, <2>1, <2>2, <3>1 DEF Derived
    <3>3. QED
      BY <2>1, <2>2, <3>1, <3>2 DEF TypeOK
  <2>3. CASE server' = "failed" /\ tools' = tools
    BY <1>1, <2>1, <2>3 DEF TypeOK, Derived, Lengthened
  <2>4. QED
    BY <1>5, <2>2, <2>3 DEF SchemaFetched, SchemaMissing
<1>6. CASE Serve
  BY <1>1, <1>6 DEF Serve, TypeOK, Derived, Lengthened
<1>7. QED
  BY <1>2, <1>3, <1>4, <1>5, <1>6 DEF Startup
-----------------------------------------------------------------------------
(***************************************************************************)
(* The invariant is inductive.                                             *)
(***************************************************************************)
LEMMA Begins == Init => IInv
<1> SUFFICES ASSUME Init PROVE IInv
  OBVIOUS
<1>1. NoRequest \in Requests
  BY DEF NoRequest, Requests
<1>2. projection \in [Offers -> Names] /\ schema \in [Offers -> {"object", "unfit"}]
  BY FrontDoorAssumption DEF Init
<1>3. <<>> \in Seq(Tools) /\ Len(<<>>) = 0 /\ Len(CatalogOrder) \in Nat
  BY FrontDoorAssumption
<1>4. TypeOK
  BY <1>1, <1>2, <1>3, FrontDoorAssumption DEF Init, TypeOK
<1>5. Derived /\ Bought
  BY DEF Init, Derived, Bought
<1>6. QED
  BY <1>4, <1>5 DEF IInv

LEMMA TypesKept == IInv /\ [Next]_vars => TypeOK'
<1> SUFFICES ASSUME IInv, [Next]_vars PROVE TypeOK'
  OBVIOUS
<1>1. TypeOK
  BY DEF IInv
<1>2. CASE Startup
  <2>1. UNCHANGED <<config, live, call, wire, charges>>
    BY <1>2, StartupKeeps
  <2>2. QED
    BY <1>1, <1>2, <2>1, StartupDerives DEF TypeOK, config, call
<1>3. ASSUME NEW c \in Calls, Step(c) PROVE TypeOK'
  <2>1. CASE PaidTool(c) \/ InvokeVerb(c)
    <3>1. UNCHANGED <<config, live, mcp, outcome, charges>>
      BY <2>1, Sends
    <3>2. PICK r \in Requests, o \in Offers, revision \in 1..MaxRevision :
            Invoke(c, r, o, revision) /\ r.key # None
      BY <2>1, Sends
    <3>3. NewRequest(c, r, o, revision) \in Paid
      BY <3>2 DEF NewRequest, EnvelopeKey, Paid, Requests
    <3>4. wire' \subseteq Paid
      BY <1>1, <3>2, <3>3 DEF Invoke, NewRequest, TypeOK
    <3>5. binding' \in [Calls -> Bindings \cup {NoBinding}]
      BY <1>1, <3>2 DEF Invoke, Bindings, TypeOK
    <3>6. QED
      BY <1>1, <3>1, <3>2, <3>4, <3>5 DEF Invoke, TypeOK, config, mcp
  <2>2. CASE ~(PaidTool(c) \/ InvokeVerb(c))
    BY <1>1, <1>3, <2>2, Answered DEF TypeOK, config, mcp
  <2>3. QED
    BY <2>1, <2>2
<1>4. ASSUME NEW q \in wire, ServeRequest(q) PROVE TypeOK'
  BY <1>1, <1>4 DEF ServeRequest, Admit, Decline, TypeOK, config, mcp, call
<1>5. CASE Republish
  BY <1>1, <1>5, FrontDoorAssumption DEF Republish, TypeOK, config, mcp, call
<1>6. CASE Dies
  BY <1>1, <1>6 DEF Dies, TypeOK, config
<1>7. CASE UNCHANGED vars
  BY <1>1, <1>7 DEF TypeOK, vars, config, mcp, call
<1>8. QED
  BY <1>2, <1>3, <1>4, <1>5, <1>6, <1>7, Steps

LEMMA DerivedKept == IInv /\ [Next]_vars => Derived'
<1> SUFFICES ASSUME IInv, [Next]_vars PROVE Derived'
  OBVIOUS
<1>1. TypeOK /\ Derived
  BY DEF IInv
<1>2. CASE Startup
  BY <1>2, StartupDerives
<1>3. ASSUME NEW c \in Calls, Step(c) PROVE UNCHANGED <<config, mcp>>
  BY <1>1, <1>3, Sends, Answered
<1>4. ASSUME NEW q \in wire, ServeRequest(q) PROVE UNCHANGED <<config, mcp>>
  BY <1>4 DEF ServeRequest
<1>5. CASE Republish \/ UNCHANGED vars
  BY <1>1, <1>5 DEF Republish, vars, Derived, config, mcp
<1>6. CASE Dies
  BY <1>1, <1>6 DEF Dies, Derived, config
<1>7. CASE UNCHANGED <<config, mcp>>
  BY <1>1, <1>7 DEF Derived, config, mcp
<1>8. QED
  BY <1>2, <1>3, <1>4, <1>5, <1>6, <1>7, Steps

\* What was asked for stays asked for.
LEMMA AskedKept ==
  ASSUME NEW ch, Asked(ch), tools \in Seq(Tools), UNCHANGED <<front, env>>,
         request'[ch.call] = request[ch.call], pc'[ch.call] # "idle",
         Lengthened
  PROVE  Asked(ch)'
<1>1. ASSUME NEW tool, FirstListed(tool) PROVE FirstListed(tool)'
  <2>1. PICK i \in DOMAIN tools : /\ tools[i] = tool
                                 /\ \A j \in 1..(i - 1) : tools[j].name # tool.name
    BY <1>1 DEF FirstListed
  <2>2. i \in DOMAIN tools' /\ tools'[i] = tool
    BY <2>1 DEF Lengthened
  <2>3. \A j \in 1..(i - 1) : j \in DOMAIN tools
    <3>1. DOMAIN tools = 1..Len(tools) /\ Len(tools) \in Nat
      OBVIOUS
    <3>2. QED
      BY <2>1, <3>1
  <2>4. \A j \in 1..(i - 1) : tools'[j].name # tool.name
    BY <2>1, <2>3 DEF Lengthened
  <2>5. QED
    BY <2>2, <2>4 DEF FirstListed
<1>2. QED
  BY <1>1 DEF Asked, Typed

LEMMA BoughtKept == IInv /\ [Next]_vars => Bought'
<1> SUFFICES ASSUME IInv, [Next]_vars PROVE Bought'
  OBVIOUS
<1>1. TypeOK /\ Bought /\ tools \in Seq(Tools)
  BY DEF IInv, TypeOK
<1>2. \A ch \in wire \cup charges :
        Asked(ch) /\ ch.call \in Calls /\ pc[ch.call] # "idle"
  BY <1>1 DEF TypeOK, Bought, Paid, Asked
<1>3. ASSUME UNCHANGED <<front, env, wire, charges, request>>,
             Lengthened,
             \A c \in Calls : pc[c] # "idle" => pc'[c] # "idle"
      PROVE  Bought'
  <2>1. \A ch \in wire \cup charges : Asked(ch)'
    BY <1>1, <1>2, <1>3, AskedKept
  <2>2. QED
    BY <1>1, <1>3, <2>1 DEF Bought
<1>4. CASE Startup
  <2>1. UNCHANGED <<config, call, wire, charges>>
    BY <1>4, StartupKeeps
  <2>2. QED
    BY <1>3, <1>4, <2>1, StartupDerives DEF config, call
<1>5. ASSUME NEW c \in Calls, Step(c) PROVE Bought'
  <2>1. CASE PaidTool(c) \/ InvokeVerb(c)
    <3>1. /\ pc[c] = "idle" /\ env = "capped"
          /\ UNCHANGED <<front, env, tools, charges>>
      BY <2>1, Sends DEF config, mcp
    <3>2. PICK r \in Requests, o \in Offers, revision \in 1..MaxRevision :
            /\ Invoke(c, r, o, revision) /\ r.key # None
            /\ front = "mcp" => FirstListed([name |-> r.target, offer |-> o,
                                             revision |-> revision])
            /\ front = "cli" => Typed(r, [key |-> r.key, offer |-> o])
      BY <2>1, Sends
    <3> DEFINE q == NewRequest(c, r, o, revision)
    <3>3. wire' = wire \cup {q} /\ pc'[c] = "paying" /\ request'[c] = r
          /\ \A d \in Calls \ {c} : pc'[d] = pc[d] /\ request'[d] = request[d]
      BY <1>1, <3>2 DEF Invoke, NewRequest, TypeOK
    <3>4. q.call = c /\ q.key = r.key /\ q.offer = o /\ q.revision = revision
      BY <3>2 DEF NewRequest, EnvelopeKey
    <3> HIDE DEF q
    <3>5. Asked(q)'
      <4>1. front = "cli" => Typed(r, q)
        BY <3>2, <3>4 DEF Typed
      <4>2. request'[q.call] = r /\ pc'[q.call] = "paying"
        BY <3>3, <3>4
      <4>3. front = "mcp" => FirstListed([name |-> r.target, offer |-> q.offer,
                                          revision |-> q.revision])'
        BY <3>1, <3>2, <3>4 DEF FirstListed
      <4>4. front = "cli" => Typed(r, q)'
        BY <3>1, <4>1 DEF Typed
      <4>5. QED
        BY <3>1, <3>2, <3>4, <4>2, <4>3, <4>4 DEF Asked
    <3>6. \A ch \in wire \cup charges : Asked(ch)'
      <4>1. \A ch \in wire \cup charges : ch.call \in Calls \ {c}
        BY <1>2, <3>1
      <4>2. QED
        BY <1>1, <1>2, <3>1, <3>3, <4>1, AskedKept DEF Lengthened
    <3>7. QED
      BY <1>1, <3>1, <3>3, <3>5, <3>6 DEF Bought
  <2>2. CASE ~(PaidTool(c) \/ InvokeVerb(c))
    <3>1. /\ UNCHANGED <<config, mcp, request, wire, charges>>
          /\ pc' = [pc EXCEPT ![c] = "done"]
      BY <1>1, <1>5, <2>2, Answered
    <3>2. QED
      BY <1>1, <1>3, <3>1 DEF TypeOK, config, mcp, Lengthened
  <2>3. QED
    BY <2>1, <2>2
<1>6. ASSUME NEW q \in wire, ServeRequest(q) PROVE Bought'
  <2>1. UNCHANGED <<front, env, tools, pc, request>> /\ wire' \subseteq wire
        /\ \/ charges' = charges
           \/ charges' = charges \cup {q} /\ \A ch \in charges : ch.key # q.key
    BY <1>6 DEF ServeRequest, Admit, Decline, config, mcp, call
  <2>2. \A ch \in wire \cup charges : Asked(ch)'
    BY <1>1, <1>2, <2>1, AskedKept DEF Lengthened
  <2>3. QED
    BY <1>1, <2>1, <2>2 DEF Bought
<1>7. CASE Republish \/ UNCHANGED vars
  BY <1>3, <1>7 DEF Republish, vars, config, mcp, call, Lengthened
<1>8. CASE Dies
  <2>1. UNCHANGED <<front, env, wire, charges, request, tools>>
        /\ \A c \in Calls : pc[c] # "idle" => pc'[c] # "idle"
    BY <1>8 DEF Dies, config
  <2>2. QED
    BY <1>3, <2>1 DEF Lengthened
<1>9. QED
  BY <1>4, <1>5, <1>6, <1>7, <1>8, Steps

LEMMA InvariantKept == IInv /\ [Next]_vars => IInv'
  BY TypesKept, DerivedKept, BoughtKept DEF IInv
-----------------------------------------------------------------------------
(***************************************************************************)
(* The theorems.                                                           *)
(***************************************************************************)
\* The invariant holds in every behaviour, whatever the catalog, the calls, the
\* republications and the command lines (mcp.ts:46-118, 205-289; cli.ts:66-90).
THEOREM Invariant == Spec => []IInv
<1>1. QED
  BY Begins, InvariantKept, PTL DEF Spec

\* Every variable has its type: a tool has an offer of the catalog and a
\* published revision, and a paid request names the offer it buys
\* (mcp.ts:93-118, cli.ts:177-189).
THEOREM TypeCorrect == Spec => []TypeOK
<1>1. IInv => TypeOK
  BY DEF IInv
<1>2. QED
  BY <1>1, Invariant, PTL

\* What a tool call pays is the first tool the server listed under the name, at
\* the revision whose price was shown (mcp.ts:18-23, 93-118, 248).
THEOREM PaysAsListed == Spec => []PaidAsListed
<1>1. IInv => PaidAsListed
  BY DEF IInv, Bought, Asked, PaidAsListed
<1>2. QED
  BY <1>1, Invariant, PTL

\* Calls that were given one key are charged once, by the server or the CLI
\* (mcp.ts:246, cli.ts:181).
THEOREM RetriesBuyOnce == Spec => []RetryBuysOnce
<1>1. IInv => RetryBuysOnce
  <2> SUFFICES ASSUME IInv, NEW a \in charges, NEW b \in charges,
                      request[a.call].key = request[b.call].key
               PROVE  a = b
    BY DEF RetryBuysOnce
  <2>1. a.key = request[a.call].key /\ b.key = request[b.call].key
    BY DEF IInv, Bought, Asked
  <2>2. QED
    BY <2>1 DEF IInv, Bought
<1>2. QED
  BY <1>1, Invariant, PTL

\* Without a cap in the environment nothing is paid (env.ts:8-11).
THEOREM CapBeforePayment == Spec => []NoCapNoPayment
<1>1. IInv => NoCapNoPayment
  BY DEF IInv, Bought, Asked, NoCapNoPayment
<1>2. QED
  BY <1>1, Invariant, PTL

\* A server that serves lists every offer once, in the catalog's order
\* (mcp.ts:93-118).
THEOREM ListsEveryOffer == Spec => []EveryOfferListed
<1>1. IInv => EveryOfferListed
  <2> SUFFICES ASSUME IInv, server = "serving"
               PROVE  [i \in DOMAIN tools |-> tools[i].offer] = CatalogOrder
    BY DEF EveryOfferListed
  <2>1. DOMAIN tools = 1..Len(tools) /\ Len(tools) = Len(CatalogOrder)
        /\ \A i \in 1..Len(tools) :
             tools[i] = [name |-> projection[CatalogOrder[i]],
                         offer |-> CatalogOrder[i], revision |-> cached]
    BY DEF IInv, TypeOK, Derived
  <2>2. CatalogOrder = [i \in 1..Len(CatalogOrder) |-> CatalogOrder[i]]
    BY FrontDoorAssumption
  <2>3. QED
    BY <2>1, <2>2
<1>2. QED
  BY <1>1, Invariant, PTL

\* A CLI purchase is the one that was typed, however many arguments there were:
\* the parser reads the only flag's value and the only argument that is left
\* (cli.ts:66-90, 177-189).
THEOREM PaysAsTyped == Spec => []CliPaysAsTyped
<1>1. IInv => CliPaysAsTyped
  BY DEF IInv, Bought, Asked, Typed, CliPaysAsTyped
<1>2. QED
  BY <1>1, Invariant, PTL
=============================================================================
