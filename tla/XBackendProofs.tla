---------------------------- MODULE XBackendProofs ----------------------------
(***************************************************************************)
(* Theorems about the X back end for any number of requests, servers, keys *)
(* and cut connections: between requests what was asked to be held is down *)
(* and nothing else, input goes to servers the client knows, an exit leaves *)
(* nothing down, and every step is one that HeldKeys allows.               *)
(***************************************************************************)
EXTENDS XBackend, TLAPS

-----------------------------------------------------------------------------
(* What is in a sequence *)

LEMMA RangeAppend ==
  ASSUME NEW S, NEW q \in Seq(S), NEW x \in S
  PROVE  Append(q, x) \in Seq(S) /\ Range(Append(q, x)) = Range(q) \cup {x}
<1>1. /\ DOMAIN Append(q, x) = 1 .. Len(q) + 1 /\ Append(q, x)[Len(q) + 1] = x
      /\ DOMAIN q = 1 .. Len(q) /\ \A i \in 1 .. Len(q) : Append(q, x)[i] = q[i]
      /\ Len(q) \in Nat
  OBVIOUS
<1> QED
  BY <1>1 DEF Range

LEMMA RangeTail ==
  ASSUME NEW S, NEW q \in Seq(S), q # <<>>
  PROVE  Head(q) \in S /\ Tail(q) \in Seq(S) /\ Range(q) = {Head(q)} \cup Range(Tail(q))
<1>1. /\ DOMAIN q = 1 .. Len(q) /\ 1 \in DOMAIN q /\ Head(q) = q[1]
      /\ DOMAIN Tail(q) = 1 .. Len(q) - 1
      /\ \A i \in 1 .. Len(q) - 1 : Tail(q)[i] = q[i + 1]
      /\ Len(q) \in Nat
  OBVIOUS
<1>2. ASSUME NEW i \in DOMAIN q
      PROVE  q[i] \in {Head(q)} \cup Range(Tail(q))
  <2>1. CASE i = 1
    BY <1>1, <2>1
  <2>2. CASE i # 1
    <3>1. i - 1 \in DOMAIN Tail(q) /\ Tail(q)[i - 1] = q[i]
      BY <1>1, <2>2
    <3> QED
      BY <3>1 DEF Range
  <2> QED
    BY <2>1, <2>2
<1>3. ASSUME NEW i \in DOMAIN Tail(q)
      PROVE  Tail(q)[i] \in Range(q)
  <2>1. i + 1 \in DOMAIN q /\ Tail(q)[i] = q[i + 1]
    BY <1>1
  <2> QED
    BY <2>1 DEF Range
<1>4. Head(q) \in Range(q)
  BY <1>1 DEF Range
<1> QED
  BY <1>2, <1>3, <1>4 DEF Range

LEMMA RangeFront ==
  ASSUME NEW S, NEW q \in Seq(S), q # <<>>
  PROVE  Last(q) \in S /\ Front(q) \in Seq(S) /\ Range(q) = Range(Front(q)) \cup {Last(q)}
<1>1. /\ DOMAIN q = 1 .. Len(q) /\ Len(q) \in DOMAIN q /\ Last(q) = q[Len(q)]
      /\ Front(q) \in Seq(S) /\ DOMAIN Front(q) = 1 .. Len(q) - 1
      /\ \A i \in 1 .. Len(q) - 1 : Front(q)[i] = q[i]
      /\ Len(q) \in Nat
  BY DEF Front, Last
<1>2. ASSUME NEW i \in DOMAIN q
      PROVE  q[i] \in Range(Front(q)) \cup {Last(q)}
  <2>1. CASE i = Len(q)
    BY <1>1, <2>1
  <2>2. CASE i # Len(q)
    <3>1. i \in DOMAIN Front(q) /\ Front(q)[i] = q[i]
      BY <1>1, <2>2
    <3> QED
      BY <3>1 DEF Range
  <2> QED
    BY <2>1, <2>2
<1>3. ASSUME NEW i \in DOMAIN Front(q)
      PROVE  Front(q)[i] \in Range(q)
  <2>1. i \in DOMAIN q /\ Front(q)[i] = q[i]
    BY <1>1
  <2> QED
    BY <2>1 DEF Range
<1>4. Last(q) \in Range(q)
  BY <1>1 DEF Range
<1> QED
  BY <1>1, <1>2, <1>3, <1>4 DEF Range

LEMMA RangeShort ==
  Range(<<>>) = {} /\ \A k \in Input : <<k>> \in Seq(Input) /\ Range(<<k>>) = {k}
BY DEF Range

-----------------------------------------------------------------------------
(* Type correctness *)

\* What is released, and what a request ends with.
LEMMA ReleaseTypes ==
  ASSUME TypeOK
  PROVE  ReleasedAll \in [Server -> SUBSET Input]
BY DEF TypeOK, ReleasedAll, Conn

LEMMA NewTypes ==
  ASSUME NEW r \in NewConns, NEW s \in Server \cup {None}, NEW i \in Server \cup {None}
  PROVE  /\ [r EXCEPT !.cap = s] \in NewConns /\ [r EXCEPT !.inp = s] \in NewConns
         /\ [r EXCEPT !.id = i, !.cap = s] \in NewConns
         /\ r.cap \in Server \cup {None} /\ r.inp \in Server \cup {None}
         /\ r.id \in Server \cup {None}
BY DEF NewConns

LEMMA AnsweredTypes ==
  ASSUME TypeOK, NEW t \in Call, Answered(t)
  PROVE  /\ kind' \in [Call -> {"none", "input", "read", "record"}]
         /\ new' \in [Call -> NewConns]
         /\ same' \in [Call -> BOOLEAN]
<1>1. NothingNew \in NewConns
  BY DEF NothingNew, NewConns
<1> QED
  BY <1>1 DEF Answered, TypeOK

\* Steps of the servers, the connections and the client.
LEMMA DisplayTypes ==
  ASSUME TypeOK, \/ ServerEnds \/ (\E s \in Server : ServerStarts(s))
                 \/ CutInput \/ CutCapture \/ AnswerRestarted
  PROVE  TypeOK'
<1> USE DEF display, conns, held, request, opened, knowledge
<1>1. CASE ServerEnds
  BY <1>1 DEF ServerEnds, TypeOK
<1>2. CASE \E s \in Server : ServerStarts(s)
  BY <1>2 DEF ServerStarts, TypeOK
<1>3. CASE CutInput
  <2>1. inp' \in Conn
    BY <1>3 DEF CutInput, TypeOK, Conn
  <2>2. cuts' \in 0 .. MaxCuts
    BY <1>3, XBackendAssumption DEF CutInput, TypeOK
  <2> QED
    BY <1>3, <2>1, <2>2 DEF CutInput, TypeOK
<1>4. CASE CutCapture
  <2>1. cap' \in Conn
    BY <1>4 DEF CutCapture, TypeOK, Conn
  <2>2. cuts' \in 0 .. MaxCuts
    BY <1>4, XBackendAssumption DEF CutCapture, TypeOK
  <2> QED
    BY <1>4, <2>1, <2>2 DEF CutCapture, TypeOK
<1>5. CASE AnswerRestarted
  BY <1>5 DEF AnswerRestarted, TypeOK
<1> QED
  BY <1>1, <1>2, <1>3, <1>4, <1>5

\* A request from when it is let through until it gives the input lock back.
LEMMA InputTypes ==
  ASSUME TypeOK, NEW t \in Call,
         \/ Enter(t) \/ (\E k \in {"read", "record"} : ReadFails(t, k) \/ ReadPanics(t, k))
         \/ TakeInput(t) \/ Press \/ Release \/ Done(t) \/ Fails(t) \/ Panics(t)
  PROVE  TypeOK'
<1> USE DEF display, conns, held, request, opened, knowledge
<1>1. CASE Enter(t)
  BY <1>1, XBackendAssumption DEF Enter, Go, TypeOK
<1>2. CASE \E k \in {"read", "record"} : ReadFails(t, k)
  BY <1>2, XBackendAssumption DEF ReadFails, Go, TypeOK
<1>3. CASE \E k \in {"read", "record"} : ReadPanics(t, k)
  <2>1. pc' = [pc EXCEPT ![t] = "failed"] /\ pc[t] = "idle"
    BY <1>3 DEF ReadPanics, Go
  <2>2. kind' \in [Call -> {"none", "input", "read", "record"}]
    BY <1>3 DEF ReadPanics, TypeOK
  <2> QED
    BY <1>3, <2>1, <2>2, ReleaseTypes DEF ReadPanics, ReleaseAll, TypeOK
<1>4. CASE TakeInput(t)
  <2>1. todo' \in Seq(Input)
    BY <1>4, RangeShort, XBackendAssumption DEF TakeInput
  <2> QED
    BY <1>4, <2>1, XBackendAssumption DEF TakeInput, Go, Free, TypeOK
<1>5. CASE Press
  <2>1. Head(todo) \in Input /\ Tail(todo) \in Seq(Input)
    BY <1>5, RangeTail DEF Press, TypeOK
  <2>2. Append(made, Head(todo)) \in Seq(Input)
    BY <2>1 DEF TypeOK
  <2> QED
    BY <1>5, <2>1, <2>2 DEF Press, TypeOK, Conn
<1>6. CASE Release
  <2>1. todo' \in Seq(Input) /\ made' \in Seq(Input)
    BY <1>6, RangeTail, RangeFront DEF Release, TypeOK
  <2>2. \E k \in Input : LetGo(k)
    <3>1. todo # <<>> => Head(todo) \in Input
      BY RangeTail DEF TypeOK
    <3>2. made # <<>> => Last(made) \in Input
      BY RangeFront DEF TypeOK
    <3> QED
      BY <1>6, <3>1, <3>2 DEF Release
  <2> QED
    BY <1>6, <2>1, <2>2 DEF Release, LetGo, TypeOK, Conn
<1>7. CASE Done(t)
  <2>1. asked' \in SUBSET Input
    BY <1>7 DEF Done, TypeOK, Range
  <2> QED
    BY <1>7, <2>1, AnsweredTypes, XBackendAssumption DEF Done, Unlock, Answered, TypeOK
<1>8. CASE Fails(t)
  BY <1>8, XBackendAssumption DEF Fails, Unlock, Go, TypeOK, Conn
<1>9. CASE Panics(t)
  BY <1>9, ReleaseTypes, XBackendAssumption DEF Panics, ReleaseAll, Unlock, Go, TypeOK
<1> QED
  BY <1>1, <1>2, <1>3, <1>4, <1>5, <1>6, <1>7, <1>8, <1>9

\* A failed request that looks for a new server, and the end.
LEMMA ReconnectTypes ==
  ASSUME TypeOK, ServerInv, NEW t \in Call, Reconnect(t)
  PROVE  TypeOK'
<1> USE DEF display, conns, held, request, opened, knowledge
<1>0. /\ new[t].cap \in Server \cup {None} /\ new[t].inp \in Server \cup {None}
      /\ new[t].id \in Server \cup {None}
  BY NewTypes DEF TypeOK
<1>1. CASE FailsAlive(t) \/ OpenFails(t) \/ Reconnected(t)
  <2>1. /\ UNCHANGED <<display, conns, held, lock, request, identity, known, crossed, main, cuts>>
        /\ restarted' \in BOOLEAN /\ told' \in SUBSET Server
    BY <1>1 DEF FailsAlive, OpenFails, Reconnected, Mark, TypeOK
  <2>2. Answered(t) /\ pc[t] \in {"failed", "cap", "inp", "answer"}
    BY <1>1 DEF FailsAlive, OpenFails, Reconnected
  <2> QED
    <3>1. \A u \in Call : lock' = u <=> pc'[u] = "run"
      BY <2>1, <2>2 DEF Answered, TypeOK
    <3>2. /\ pc' = [pc EXCEPT ![t] = "idle"] /\ new' \in [Call -> NewConns]
          /\ kind' \in [Call -> {"none", "input", "read", "record"}]
          /\ same' \in [Call -> BOOLEAN]
      BY <2>2, AnsweredTypes DEF Answered
    <3> QED
      BY <2>1, <3>1, <3>2 DEF TypeOK
<1>2. CASE FindsDead(t)
  BY <1>2, XBackendAssumption DEF FindsDead, Go, TypeOK
<1>3. CASE OpenCapture(t)
  <2>1. new' \in [Call -> NewConns]
    <3>1. new' = [new EXCEPT ![t] = [new[t] EXCEPT !.cap = live]]
      BY <1>3 DEF OpenCapture, TypeOK
    <3> QED
      BY <3>1, NewTypes DEF TypeOK
  <2> QED
    BY <1>3, <2>1, XBackendAssumption DEF OpenCapture, Go, TypeOK
<1>4. CASE OpenInput(t)
  <2>1. new' \in [Call -> NewConns]
    <3>1. new' = [new EXCEPT ![t] = [new[t] EXCEPT !.inp = live]]
      BY <1>4 DEF OpenInput, TypeOK
    <3> QED
      BY <3>1, NewTypes DEF TypeOK
  <2> QED
    BY <1>4, <2>1, XBackendAssumption DEF OpenInput, Go, TypeOK
<1>5. CASE Compare(t)
  BY <1>5, XBackendAssumption DEF Compare, Go, TypeOK
<1>6. CASE SwapCapture(t)
  <2>1. cap' \in Conn
    BY <1>0, <1>6 DEF SwapCapture, Go, ServerInv, Conn
  <2>2. new' \in [Call -> NewConns]
    <3>1. PICK i \in Server \cup {None} :
            new' = [new EXCEPT ![t] = [new[t] EXCEPT !.id = i, !.cap = None]]
      BY <1>6 DEF SwapCapture, TypeOK
    <3> QED
      BY <3>1, NewTypes DEF TypeOK
  <2> QED
    BY <1>6, <2>1, <2>2, XBackendAssumption DEF SwapCapture, Go, TypeOK
<1>7. CASE SwapInput(t)
  <2>1. inp' \in Conn /\ new[t].inp \in Server
    BY <1>0, <1>7 DEF SwapInput, Go, ServerInv, Conn
  <2>2. new' \in [Call -> NewConns]
    <3>1. new' = [new EXCEPT ![t] = [new[t] EXCEPT !.inp = None]]
      BY <1>7 DEF SwapInput, TypeOK
    <3> QED
      BY <3>1, NewTypes DEF TypeOK
  <2>3. lost' \in SUBSET Input /\ crossed' \in [Call -> BOOLEAN]
    BY <1>7, <2>1, ReleaseTypes DEF SwapInput, TypeOK
  <2> QED
    BY <1>7, <2>1, <2>2, <2>3, ReleaseTypes, XBackendAssumption DEF SwapInput, Go, TypeOK
<1>8. CASE SetIdentity(t)
  BY <1>0, <1>8, XBackendAssumption DEF SetIdentity, Go, TypeOK
<1> QED
  BY <1>1, <1>2, <1>3, <1>4, <1>5, <1>6, <1>7, <1>8 DEF Reconnect

LEMMA EndTypes ==
  ASSUME TypeOK, Cancel \/ Shutdown \/ Exit \/ Exited \/ UNCHANGED vars
  PROVE  TypeOK'
<1> USE DEF display, conns, held, request, opened, knowledge
<1>1. CASE Cancel \/ Exited \/ UNCHANGED vars
  BY <1>1 DEF Cancel, Exited, vars, TypeOK
<1>2. CASE Shutdown
  BY <1>2, ReleaseTypes DEF Shutdown, ReleaseAll, TypeOK
<1>3. CASE Exit
  BY <1>3, ReleaseTypes DEF Exit, ReleaseAll, TypeOK
<1> QED
  BY <1>1, <1>2, <1>3

\* Press and Release are of the request that has the lock.
LEMMA NextTypes ==
  ASSUME TypeOK, ServerInv, RequestInv, [Next]_vars
  PROVE  TypeOK'
<1>1. CASE Press \/ Release
  <2>1. lock \in Call
    BY <1>1 DEF Press, Release, RequestInv, TypeOK
  <2> QED
    BY <1>1, <2>1, InputTypes
<1> QED
  BY <1>1, DisplayTypes, InputTypes, ReconnectTypes, EndTypes DEF Next, Serve

-----------------------------------------------------------------------------
(* Servers and connections *)

\* The part of ServerInv that speaks of a request's new connections, and the rest.
OpenedInv ==
  /\ identity \in started \cup {None}
  /\ \A t \in Call :
       /\ new[t].cap \in started \cup {None} /\ new[t].inp \in started \cup {None}
       /\ new[t].id \in started \cup {None}
       /\ pc[t] \in {"inp", "compare", "swapcap"} => new[t].cap # None
       /\ pc[t] \in {"compare", "swapcap", "swapinp"} => new[t].inp # None

LeftInv ==
  /\ live # None => live \in started
  /\ inp.to \in started
  /\ \A s \in Server \ {live} : down[s] = {}
  /\ inp.cut => cuts > 0
  /\ cuts = 0 /\ live # None => IF inp.to = live THEN lost = {} ELSE down[live] = {}

LEMMA ServerParts == ServerInv <=> OpenedInv /\ LeftInv
BY DEF ServerInv, OpenedInv, LeftInv

\* New connections lead to servers there have been.
LEMMA NextOpened ==
  ASSUME TypeOK, ServerInv, [Next]_vars
  PROVE  OpenedInv'
<1> USE DEF display, conns, held, request, opened, knowledge
<1>0. started \subseteq started'
  BY DEF Next, Serve, Reconnect, AnswerRestarted, Enter, ReadFails, ReadPanics, TakeInput,
         Press, Release, Done, Fails, Panics, FailsAlive, FindsDead, OpenCapture, OpenInput,
         OpenFails, Compare, SwapCapture, SwapInput, SetIdentity, Reconnected, ServerEnds,
         ServerStarts, CutInput, CutCapture, Cancel, Shutdown, Exit, Exited, vars
<1>1. ASSUME UNCHANGED <<new, identity>>,
             \A t \in Call : pc'[t] \in {"inp", "compare", "swapcap", "swapinp"} => pc'[t] = pc[t]
      PROVE  OpenedInv'
  BY <1>0, <1>1 DEF OpenedInv, ServerInv
<1>2. CASE \/ ServerEnds \/ (\E s \in Server : ServerStarts(s)) \/ CutInput \/ CutCapture
           \/ AnswerRestarted \/ Press \/ Release \/ Cancel \/ Shutdown \/ Exit \/ Exited
           \/ UNCHANGED vars
  BY <1>1, <1>2 DEF ServerEnds, ServerStarts, CutInput, CutCapture, AnswerRestarted, Press,
     Release, Cancel, Shutdown, Exit, Exited, vars
<1>3. ASSUME NEW t \in Call,
             \/ Enter(t) \/ (\E k \in {"read", "record"} : ReadFails(t, k) \/ ReadPanics(t, k))
             \/ TakeInput(t) \/ Fails(t) \/ Panics(t) \/ FindsDead(t)
      PROVE  OpenedInv'
  BY <1>1, <1>3 DEF Enter, ReadFails, ReadPanics, TakeInput, Fails, Panics, FindsDead, Go,
                    TypeOK
<1>4. ASSUME NEW t \in Call, Done(t) \/ FailsAlive(t) \/ OpenFails(t) \/ Reconnected(t)
      PROVE  OpenedInv'
  <2>1. Answered(t) /\ identity' = identity
    BY <1>4 DEF Done, FailsAlive, OpenFails, Reconnected
  <2> QED
    BY <1>0, <2>1 DEF Answered, NothingNew, OpenedInv, ServerInv, TypeOK
<1>5. ASSUME NEW t \in Call, OpenCapture(t) \/ OpenInput(t)
      PROVE  OpenedInv'
  <2>1. new[t] \in NewConns
    BY DEF TypeOK
  <2> QED
    BY <1>0, <1>5, <2>1 DEF OpenCapture, OpenInput, Go, OpenedInv, ServerInv, TypeOK, NewConns
<1>6. ASSUME NEW t \in Call, Compare(t)
      PROVE  OpenedInv'
  BY <1>0, <1>6 DEF Compare, Go, OpenedInv, ServerInv, TypeOK
<1>7. ASSUME NEW t \in Call, SwapCapture(t)
      PROVE  OpenedInv'
  <2>1. new[t] \in NewConns
    BY DEF TypeOK
  <2>2. /\ identity' = identity /\ pc' = [pc EXCEPT ![t] = "swapinp"]
        /\ new'[t].inp = new[t].inp /\ new'[t].cap = None
        /\ new'[t].id \in {identity, live, None} /\ pc[t] = "swapcap"
    BY <1>7, <2>1 DEF SwapCapture, Go, TypeOK, NewConns
  <2>3. \A u \in Call \ {t} : new'[u] = new[u]
    BY <1>7 DEF SwapCapture, TypeOK
  <2> QED
    BY <1>0, <2>2, <2>3 DEF OpenedInv, ServerInv, TypeOK
<1>8. ASSUME NEW t \in Call, SwapInput(t)
      PROVE  OpenedInv'
  <2>1. new[t] \in NewConns
    BY DEF TypeOK
  <2> QED
    BY <1>0, <1>8, <2>1 DEF SwapInput, Go, OpenedInv, ServerInv, TypeOK, NewConns
<1>9. ASSUME NEW t \in Call, SetIdentity(t)
      PROVE  OpenedInv'
  BY <1>0, <1>9 DEF SetIdentity, Go, OpenedInv, ServerInv, TypeOK
<1> QED
  BY <1>2, <1>3, <1>4, <1>5, <1>6, <1>7, <1>8, <1>9 DEF Next, Serve, Reconnect

\* What a release of everything leaves: on other servers all, on the input's the
\* bound keycodes it does not know of.
LEMMA Releasing ==
  ASSUME TypeOK
  PROVE  /\ \A s \in Server : ReleasedAll[s] \subseteq down[s]
         /\ Alive(inp) => ReleasedAll[inp.to] = (down[inp.to] \cap Binding) \ tracked
         /\ ~Alive(inp) => ReleasedAll = down
BY DEF ReleasedAll, TypeOK, Conn

\* Nothing is left on the server there is that the input does not track, unless a
\* connection was cut.
LEMMA NextLeft ==
  ASSUME TypeOK, ServerInv, TrackInv, [Next]_vars
  PROVE  LeftInv'
<1> USE DEF display, conns, held, request, opened, knowledge
<1>0. LeftInv
  BY ServerParts
<1>1. ASSUME UNCHANGED <<live, started, inp, cuts, lost>>,
             \A s \in Server : s # inp.to \/ ~Alive(inp) => down'[s] = down[s]
      PROVE  LeftInv'
  BY <1>0, <1>1 DEF LeftInv, Alive, TypeOK, Conn
<1>2. CASE ServerEnds
  <2>1. live \in Server /\ live' = None /\ down' = [down EXCEPT ![live] = {}]
    BY <1>2 DEF ServerEnds, TypeOK
  <2> QED
    BY <1>0, <1>2, <2>1 DEF ServerEnds, LeftInv, TypeOK
<1>3. CASE \E s \in Server : ServerStarts(s)
  <2> PICK s \in Server : ServerStarts(s)
    BY <1>3
  <2>1. \A u \in Server : down[u] = {}
    BY <1>0, XBackendAssumption DEF ServerStarts, LeftInv
  <2>2. live' = s /\ started' = started \cup {s} /\ s \notin started
    BY DEF ServerStarts
  <2>3. UNCHANGED <<inp, down, cuts, lost>>
    BY DEF ServerStarts
  <2> QED
    BY <1>0, <2>1, <2>2, <2>3 DEF LeftInv
<1>4. CASE CutInput \/ CutCapture
  <2>1. /\ UNCHANGED <<live, started, down, lost>> /\ cuts' > 0 /\ inp'.to = inp.to
    BY <1>4, XBackendAssumption DEF CutInput, CutCapture, TypeOK, Conn
  <2> QED
    BY <1>0, <2>1 DEF LeftInv
<1>5. CASE Press \/ Release \/ \E t \in Call : Fails(t)
  <2>1. UNCHANGED <<live, started, inp, cuts, lost>>
    BY <1>5 DEF Press, Release, Fails
  <2>2. \A s \in Server : s # inp.to \/ ~Alive(inp) => down'[s] = down[s]
    BY <1>5 DEF Press, Release, LetGo, Fails, TypeOK
  <2> QED
    BY <1>1, <2>1, <2>2
<1>6. ASSUME ReleaseAll, UNCHANGED <<live, started, inp, cuts>>
      PROVE  LeftInv'
  <2>1. \A s \in Server : down'[s] \subseteq down[s]
    BY <1>6, Releasing DEF ReleaseAll
  <2>2. lost' \subseteq lost
    BY <1>6 DEF ReleaseAll
  <2> QED
    BY <1>0, <1>6, <2>1, <2>2 DEF LeftInv, TypeOK
<1>7. ASSUME NEW t \in Call, SwapInput(t)
      PROVE  LeftInv'
  <2>1. /\ new[t].inp \in started /\ inp' = [to |-> new[t].inp, cut |-> FALSE]
        /\ down' = ReleasedAll /\ lost' = ReleasedAll[new[t].inp]
        /\ UNCHANGED <<live, started, cuts>>
    BY <1>7 DEF SwapInput, Go, ServerInv
  <2>2. \A s \in Server : down'[s] \subseteq down[s]
    BY <2>1, Releasing
  <2>3. ASSUME cuts = 0, live # None
        PROVE  ReleasedAll[live] = {}
    <3>1. live \in Server
      BY <2>3 DEF TypeOK
    <3>2. CASE inp.to = live
      <4>1. Alive(inp) /\ lost = {}
        BY <1>0, <2>3, <3>2 DEF LeftInv, Alive, TypeOK, Conn
      <4>2. ReleasedAll[live] = (down[live] \cap Binding) \ tracked
        BY <3>2, <4>1, Releasing
      <4> QED
        BY <3>2, <4>1, <4>2 DEF TrackInv
    <3>3. CASE inp.to # live
      BY <1>0, <2>3, <3>1, <3>3, Releasing DEF LeftInv
    <3> QED
      BY <3>2, <3>3
  <2> QED
    BY <1>0, <2>1, <2>2, <2>3 DEF LeftInv, TypeOK
<1>8. ASSUME NEW t \in Call,
             \/ Enter(t) \/ TakeInput(t) \/ Done(t) \/ FailsAlive(t) \/ FindsDead(t)
             \/ OpenCapture(t) \/ OpenInput(t) \/ OpenFails(t) \/ Compare(t) \/ SwapCapture(t)
             \/ SetIdentity(t) \/ Reconnected(t) \/ (\E k \in {"read", "record"} : ReadFails(t, k))
      PROVE  LeftInv'
  <2>1. UNCHANGED <<live, started, inp, cuts, lost, down>>
    BY <1>8 DEF Enter, TakeInput, Done, FailsAlive, FindsDead, OpenCapture, OpenInput,
       OpenFails, Compare, SwapCapture, SetIdentity, Reconnected, ReadFails
  <2> QED
    BY <1>1, <2>1
<1>9. ASSUME NEW t \in Call, Panics(t) \/ \E k \in {"read", "record"} : ReadPanics(t, k)
      PROVE  LeftInv'
  BY <1>6, <1>9 DEF Panics, ReadPanics
<1>10. CASE Shutdown \/ Exit
  <2>1. UNCHANGED <<live, started, inp, cuts>> /\ (ReleaseAll \/ UNCHANGED held)
    BY <1>10 DEF Shutdown, Exit
  <2> QED
    BY <1>1, <1>6, <2>1
<1>11. CASE AnswerRestarted \/ Cancel \/ Exited \/ UNCHANGED vars
  BY <1>1, <1>11 DEF AnswerRestarted, Cancel, Exited, vars
<1> QED
  BY <1>2, <1>3, <1>4, <1>5, <1>7, <1>8, <1>9, <1>10, <1>11 DEF Next, Serve, Reconnect

LEMMA NextServer ==
  ASSUME TypeOK, ServerInv, TrackInv, [Next]_vars
  PROVE  ServerInv'
BY NextOpened, NextLeft DEF ServerInv, OpenedInv, LeftInv

-----------------------------------------------------------------------------
(* What is tracked *)

\* A dead connection stays dead: servers do not come again.
LEMMA StaysDead ==
  ASSUME TypeOK, ServerInv, [Next]_vars, Alive(inp)',
         \A t \in Call : ~SwapInput(t)
  PROVE  Alive(inp) /\ inp' = inp /\ live' = live
<1> USE DEF display, conns, held, request, opened, knowledge
<1>1. CASE ServerEnds
  BY <1>1, XBackendAssumption DEF ServerEnds, ServerInv, Alive, TypeOK, Conn
<1>2. CASE \E s \in Server : ServerStarts(s)
  BY <1>2, XBackendAssumption DEF ServerStarts, ServerInv, Alive, TypeOK, Conn
<1>3. CASE CutInput
  BY <1>3 DEF CutInput, Alive, TypeOK, Conn
<1>4. CASE UNCHANGED <<inp, live>>
  BY <1>4 DEF Alive
<1> QED
  BY <1>1, <1>2, <1>3, <1>4 DEF Next, Serve, Reconnect, AnswerRestarted, Enter, ReadFails,
     ReadPanics, TakeInput, Press, Release, Done, Fails, Panics, FailsAlive, FindsDead,
     OpenCapture, OpenInput, OpenFails, Compare, SwapCapture, SetIdentity, Reconnected,
     CutCapture, Cancel, Shutdown, Exit, Exited, vars

\* All that the input presses it tracks, and a new input has what is down for lost.
LEMMA NextTrack ==
  ASSUME TypeOK, ServerInv, TrackInv, RequestInv, [Next]_vars
  PROVE  TrackInv'
<1> USE DEF display, conns, held, request, opened, knowledge
<1> SUFFICES ASSUME Alive(inp)'
             PROVE  tracked' \subseteq down'[inp'.to]
                    /\ down'[inp'.to] \subseteq tracked' \cup lost'
  BY DEF TrackInv
<1>1. ASSUME NEW t \in Call, SwapInput(t)
      PROVE  tracked' = {} /\ down'[inp'.to] = lost'
  BY <1>1 DEF SwapInput
<1>2. CASE \A t \in Call : ~SwapInput(t)
  <2>0. Alive(inp) /\ inp' = inp /\ inp.to \in Server
    BY <1>2, StaysDead DEF TypeOK, Conn
  <2>1. tracked \subseteq down[inp.to] /\ down[inp.to] \subseteq tracked \cup lost
    BY <2>0 DEF TrackInv
  <2>2. CASE UNCHANGED <<down, tracked, lost>>
    BY <2>0, <2>1, <2>2
  <2>3. CASE Press
    BY <2>0, <2>1, <2>3 DEF Press, TypeOK
  <2>4. ASSUME NEW k, LetGo(k), lost' = lost
        PROVE  tracked' \subseteq down'[inp'.to] /\ down'[inp'.to] \subseteq tracked' \cup lost'
    BY <2>0, <2>1, <2>4 DEF LetGo, TypeOK
  <2>5. CASE Release
    BY <2>4, <2>5 DEF Release
  <2>6. ASSUME NEW t \in Call, Fails(t)
        PROVE  tracked' \subseteq down'[inp'.to] /\ down'[inp'.to] \subseteq tracked' \cup lost'
    BY <2>0, <2>1, <2>6 DEF Fails, TypeOK
  <2>7. CASE ReleaseAll
    <3>1. tracked' = {} /\ down'[inp.to] = (down[inp.to] \cap Binding) \ tracked
      BY <2>0, <2>7, Releasing DEF ReleaseAll
    <3> QED
      BY <2>0, <2>1, <2>7, <3>1 DEF ReleaseAll
  <2>8. CASE ServerEnds
    BY <2>0, <2>8, <1>2, StaysDead, XBackendAssumption DEF ServerEnds, Alive, TypeOK
  <2> QED
    BY <1>2, <2>2, <2>3, <2>5, <2>6, <2>7, <2>8 DEF Next, Serve, Reconnect, AnswerRestarted,
       Enter, ReadFails, ReadPanics, TakeInput, Done, Panics, FailsAlive, FindsDead,
       OpenCapture, OpenInput, OpenFails, Compare, SwapCapture, SetIdentity, Reconnected,
       ServerStarts, CutInput, CutCapture, Cancel, Shutdown, Exit, Exited, vars
<1> QED
  BY <1>1, <1>2

\* What a request has pressed and let go of while its connection lives.
ChordInv ==
  /\ asked \subseteq before \cap tracked
  /\ tracked \subseteq asked \cup Range(made)
  /\ op = "hold" => Range(made) \subseteq tracked /\ before = asked
  /\ op = "chord" => \E c \in Chord : Touched \subseteq Range(c)
  /\ op # "chord" => \E k \in Input : Touched \subseteq {k}

\* What has been pressed is of the chord or the one key, what is released was
\* pressed by it, and what it leaves is what was asked for.
LEMMA NextRequest ==
  ASSUME TypeOK, ServerInv, TrackInv, RequestInv, [Next]_vars
  PROVE  RequestInv'
<1> USE DEF display, conns, held, request, opened, knowledge
<1>0. Range(<<>>) = {} /\ lock \in Call \cup {None} /\ tracked \in SUBSET Input
  BY RangeShort DEF TypeOK
<1>1. ASSUME UNCHANGED <<lock, op, todo, made, before, tracked, asked>>,
             Alive(inp)' => Alive(inp)
      PROVE  RequestInv'
  BY <1>1 DEF RequestInv, Touched
<1>2. ASSUME lock' = None, op' = "none", todo' = <<>>, made' = <<>>,
             Alive(inp)' => asked' = tracked'
      PROVE  RequestInv'
  BY <1>2 DEF RequestInv
<1>3. ASSUME lock' # None, op' # "none", op' = "let" => made' = <<>>,
             Alive(inp)' => ChordInv'
      PROVE  RequestInv'
  BY <1>3 DEF RequestInv, ChordInv
<1>4. CASE ~\E t \in Call : SwapInput(t)
  <2>0. Alive(inp)' => Alive(inp)
    BY <1>4, StaysDead
  <2>1. ASSUME NEW t \in Call, TakeInput(t)
        PROVE  RequestInv'
    <3>1. /\ lock = None /\ made = <<>> /\ made' = <<>> /\ before' = tracked
          /\ UNCHANGED <<tracked, asked>> /\ lock' = t
      BY <2>1 DEF TakeInput, Free, RequestInv
    <3>2. Alive(inp)' => asked = tracked
      BY <2>0, <3>1 DEF RequestInv
    <3>3. CASE op' = "chord" /\ todo' \in Chord
      <4>1. Touched' \subseteq Range(todo')
        BY <1>0, <3>1 DEF Touched
      <4>2. Alive(inp)' => ChordInv'
        BY <1>0, <3>1, <3>2, <3>3, <4>1 DEF ChordInv
      <4> QED
        BY <1>3, <3>1, <3>3, <4>2, XBackendAssumption
    <3>4. ASSUME NEW k \in Input, op' \in {"hold", "let"}, todo' = <<k>>
          PROVE  RequestInv'
      <4>1. Touched' \subseteq {k}
        BY <1>0, <3>1, <3>4, RangeShort DEF Touched
      <4>2. Alive(inp)' => ChordInv'
        BY <1>0, <3>1, <3>2, <3>4, <4>1 DEF ChordInv
      <4> QED
        BY <1>3, <3>1, <3>4, <4>2, XBackendAssumption
    <3> QED
      BY <2>1, <3>3, <3>4 DEF TakeInput
  <2>2. CASE Press
    <3>1. /\ op \in {"chord", "hold"} /\ lock # None /\ lock' = lock /\ op' = op
          /\ before' = before /\ asked' = asked /\ Alive(inp)
      BY <2>2 DEF Press, RequestInv
    <3>2. /\ Range(todo) = {Head(todo)} \cup Range(todo')
          /\ Range(made') = Range(made) \cup {Head(todo)}
          /\ tracked' = tracked \cup {Head(todo)}
      BY <2>2, RangeTail, RangeAppend DEF Press, TypeOK
    <3>3. ChordInv /\ Touched' \subseteq Touched
      BY <3>1, <3>2 DEF RequestInv, ChordInv, Touched
    <3>4. ChordInv'
      BY <3>1, <3>2, <3>3 DEF ChordInv
    <3> QED
      BY <1>3, <3>1, <3>4
  <2>3. CASE Release
    <3>1. lock # None /\ lock' = lock /\ op' = op /\ before' = before /\ Alive(inp)
      BY <2>3 DEF Release, LetGo, RequestInv
    <3>2. ChordInv
      BY <3>1 DEF RequestInv, ChordInv
    <3>3. CASE op = "let" /\ todo # <<>> /\ LetGo(Head(todo)) /\ todo' = Tail(todo) /\ made' = made
      <4>1. /\ tracked' = tracked \ {Head(todo)} /\ asked' = asked \ {Head(todo)}
            /\ Range(todo) = {Head(todo)} \cup Range(todo')
        BY <3>3, RangeTail DEF LetGo, TypeOK
      <4>2. Touched' \subseteq Touched
        BY <3>1, <3>3, <4>1 DEF Touched
      <4>3. made = <<>>
        BY <3>1, <3>3 DEF RequestInv
      <4>4. ChordInv'
        BY <1>0, <3>1, <3>2, <3>3, <4>1, <4>2, <4>3 DEF ChordInv
      <4> QED
        BY <1>3, <3>1, <3>3, <4>3, <4>4
    <3>4. CASE op = "chord" /\ made # <<>> /\ LetGo(Last(made)) /\ made' = Front(made)
               /\ todo' = todo
      <4>1. /\ tracked' = tracked \ {Last(made)} /\ asked' = asked \ {Last(made)}
            /\ Range(made) = Range(made') \cup {Last(made)}
        BY <3>4, RangeFront DEF LetGo, TypeOK
      <4>2. Touched' \subseteq Touched
        BY <3>1, <3>4, <4>1 DEF Touched
      <4>3. ChordInv'
        BY <3>1, <3>2, <3>4, <4>1, <4>2 DEF ChordInv
      <4> QED
        BY <1>3, <3>1, <3>4, <4>3
    <3> QED
      BY <2>3, <3>3, <3>4 DEF Release
  <2>4. ASSUME NEW t \in Call, Done(t)
        PROVE  RequestInv'
    <3>1. Alive(inp) /\ lock # None /\ (made = <<>> \/ op = "hold")
      BY <2>4, XBackendAssumption DEF Done
    <3>2. tracked = asked \cup Range(made)
      BY <1>0, <3>1 DEF RequestInv
    <3> QED
      BY <1>2, <2>4, <3>2 DEF Done, Unlock
  <2>5. ASSUME NEW t \in Call, Fails(t)
        PROVE  RequestInv'
    <3>1. lock # None /\ asked' = asked \ Unwound
      BY <2>5, XBackendAssumption DEF Fails
    <3>2. Alive(inp) => tracked' = (tracked \cap before) \ Unwound
      BY <2>5 DEF Fails, Since
    <3>3. ASSUME Alive(inp)
          PROVE  asked' = tracked'
      <4>1. ChordInv
        BY <3>1, <3>3 DEF RequestInv, ChordInv
      <4>2. op \in {"chord", "hold", "let"} /\ (op = "let" => made = <<>>)
        BY <3>1 DEF RequestInv, TypeOK
      <4>3. CASE op = "chord"
        BY <3>1, <3>2, <3>3, <4>1, <4>3 DEF ChordInv, Unwound
      <4>4. CASE op = "hold"
        BY <3>1, <3>2, <3>3, <4>1, <4>4 DEF ChordInv, Unwound
      <4>5. CASE op = "let"
        BY <1>0, <3>1, <3>2, <3>3, <4>1, <4>2, <4>5 DEF ChordInv, Unwound
      <4> QED
        BY <4>2, <4>3, <4>4, <4>5
    <3> QED
      BY <1>2, <2>0, <2>5, <3>3 DEF Fails, Unlock
  <2>6. ASSUME NEW t \in Call, Panics(t)
        PROVE  RequestInv'
    BY <1>2, <2>6 DEF Panics, ReleaseAll, Unlock
  <2>7. ASSUME ReleaseAll, lock = None, UNCHANGED <<lock, request>>
        PROVE  RequestInv'
    BY <1>2, <2>7 DEF ReleaseAll, RequestInv
  <2>8. CASE (\E t \in Call, k \in {"read", "record"} : ReadPanics(t, k)) \/ Shutdown
    BY <1>1, <2>0, <2>7, <2>8 DEF ReadPanics, Free, Shutdown
  <2>9. CASE Exit
    <3>1. Idle => lock = None
      BY <1>0 DEF Idle, TypeOK
    <3> QED
      BY <1>1, <2>0, <2>7, <2>9, <3>1 DEF Exit
  <2>10. CASE UNCHANGED <<lock, op, todo, made, before, tracked, asked>>
    BY <1>1, <2>0, <2>10
  <2> QED
    BY <1>4, <2>1, <2>2, <2>3, <2>4, <2>5, <2>6, <2>8, <2>9, <2>10 DEF Next, Serve, Reconnect,
       AnswerRestarted, Enter, ReadFails, FailsAlive, FindsDead, OpenCapture, OpenInput,
       OpenFails, Compare, SwapCapture, SetIdentity, Reconnected, ServerEnds, ServerStarts,
       CutInput, CutCapture, Cancel, Exited, vars
<1>5. ASSUME NEW t \in Call, SwapInput(t)
      PROVE  RequestInv'
  <2>1. lock = None /\ UNCHANGED <<lock, request>> /\ tracked' = {} /\ asked' = {}
    BY <1>5 DEF SwapInput, Free
  <2> QED
    BY <1>2, <2>1 DEF RequestInv
<1> QED
  BY <1>4, <1>5

-----------------------------------------------------------------------------
(* What the client knows *)

\* Nobody forgets: a server there is known as long as it is there.
LEMMA KnownStays ==
  ASSUME TypeOK, ServerInv, ClientInv, [Next]_vars, live # None, live' = live, Known(live)
  PROVE  Known(live)'
<1> USE DEF display, conns, held, request, opened, knowledge
<1>0. live \in started
  BY DEF ServerInv
<1>1. CASE told' = started
  BY <1>0, <1>1 DEF Known
<1>2. ASSUME told' = told, restarted => restarted',
             \A u \in Call : pc[u] = "answer" /\ ~same[u] =>
               restarted' \/ (pc'[u] = "answer" /\ ~same'[u])
      PROVE  Known(live)'
  BY <1>2 DEF Known
<1>3. CASE UNCHANGED <<told, restarted, pc, same>>
  BY <1>2, <1>3
<1>4. ASSUME NEW t \in Call, Enter(t) \/ FindsDead(t) \/ OpenCapture(t) \/ OpenInput(t)
      PROVE  Known(live)'
  BY <1>2, <1>4 DEF Enter, FindsDead, OpenCapture, OpenInput, Go, TypeOK
<1>5. ASSUME NEW t \in Call, SwapCapture(t) \/ SwapInput(t) \/ SetIdentity(t)
      PROVE  Known(live)'
  BY <1>2, <1>5 DEF SwapCapture, SwapInput, SetIdentity, Go, TypeOK
<1>6. ASSUME NEW t \in Call,
             \/ TakeInput(t) \/ Fails(t) \/ Panics(t)
             \/ \E k \in {"read", "record"} : ReadFails(t, k) \/ ReadPanics(t, k)
      PROVE  Known(live)'
  BY <1>2, <1>6 DEF TakeInput, Fails, Panics, ReadFails, ReadPanics, Go, TypeOK
<1>7. ASSUME NEW t \in Call, Done(t) \/ FailsAlive(t) \/ OpenFails(t)
      PROVE  Known(live)'
  <2>1. pc[t] # "answer"
    BY <1>7 DEF Done, FailsAlive, OpenFails, TypeOK
  <2>2. UNCHANGED <<told, restarted>> /\ Answered(t)
    BY <1>7 DEF Done, FailsAlive, OpenFails
  <2> QED
    BY <1>2, <2>1, <2>2 DEF Answered, TypeOK
<1>8. ASSUME NEW t \in Call, Compare(t)
      PROVE  Known(live)'
  BY <1>2, <1>8 DEF Compare, Go, TypeOK
<1>9. ASSUME NEW t \in Call, Reconnected(t)
      PROVE  Known(live)'
  <2>1. \A u \in Call \ {t} : pc'[u] = pc[u] /\ same'[u] = same[u]
    BY <1>9 DEF Reconnected, Answered, TypeOK
  <2>2. told' = started \/ (told' = told /\ (same[t] \/ kind[t] = "read"))
    BY <1>9 DEF Reconnected
  <2>3. (restarted => restarted') /\ (kind[t] = "read" /\ ~same[t] => restarted')
    BY <1>9 DEF Reconnected, Mark
  <2> QED
    BY <1>1, <1>2, <2>1, <2>2, <2>3
<1>10. CASE AnswerRestarted
  BY <1>1, <1>10 DEF AnswerRestarted
<1> QED
  BY <1>3, <1>4, <1>5, <1>6, <1>7, <1>8, <1>9, <1>10 DEF Next, Serve, Reconnect, Press,
     Release, ServerEnds, ServerStarts, CutInput, CutCapture, Cancel, Shutdown, Exit, Exited,
     vars

\* The parts of ClientInv: whom the backend takes for the server before, what a
\* reconnect that found the same server has seen, and who is let through.
SameInv(t) ==
  same[t] =>
    /\ pc[t] \in {"swapcap", "swapinp"} /\ new[t].inp = live => Known(live)
    /\ pc[t] \in {"swapinp", "identity"} /\ new[t].id = live => Known(live)
ComesInv == Known(live) \/ \E t \in Call : pc[t] = "identity" /\ ~same[t]
LetInv == \A t \in Call : pc[t] \in {"go", "run"} => live \in known[t] \/ crossed[t]

LEMMA ClientParts ==
  ClientInv <=>
    /\ told \subseteq started
    /\ live # None => (identity = live => Known(live)) /\ \A t \in Call : SameInv(t)
    /\ Alive(inp) => ComesInv /\ LetInv
BY DEF ClientInv, SameInv, ComesInv, LetInv

\* The client knows no server that never was.
LEMMA NextTold ==
  ASSUME TypeOK, ClientInv, [Next]_vars
  PROVE  told' \subseteq started'
<1> USE DEF display, conns, held, request, opened, knowledge
<1>1. told' \in {told, started} /\ started \subseteq started'
  BY DEF Next, Serve, Reconnect, AnswerRestarted, Enter, ReadFails, ReadPanics, TakeInput,
     Press, Release, Done, Fails, Panics, FailsAlive, FindsDead, OpenCapture, OpenInput,
     OpenFails, Compare, SwapCapture, SwapInput, SetIdentity, Reconnected, ServerEnds,
     ServerStarts, CutInput, CutCapture, Cancel, Shutdown, Exit, Exited, Unlock, vars
<1> QED
  BY <1>1 DEF ClientInv

\* While the server is there, the identity is of one that is known, and so are the
\* connections of a request that found it the same.
LEMMA NextSame ==
  ASSUME TypeOK, ServerInv, ClientInv, [Next]_vars, live' # None
  PROVE  (identity' = live' => Known(live)') /\ \A t \in Call : SameInv(t)'
<1> USE DEF display, conns, held, request, opened, knowledge
<1>1. CASE live' # live
  <2>1. live' \notin started /\ UNCHANGED <<identity, new>>
    BY <1>1 DEF Next, Serve, Reconnect, AnswerRestarted, Enter, ReadFails, ReadPanics,
       TakeInput, Press, Release, Done, Fails, Panics, FailsAlive, FindsDead, OpenCapture,
       OpenInput, OpenFails, Compare, SwapCapture, SwapInput, SetIdentity, Reconnected,
       ServerEnds, ServerStarts, CutInput, CutCapture, Cancel, Shutdown, Exit, Exited, vars
  <2>2. identity # live' /\ \A t \in Call : new[t].inp # live' /\ new[t].id # live'
    BY <2>1 DEF ServerInv
  <2> QED
    BY <2>1, <2>2 DEF SameInv
<1>2. CASE live' = live
  <2>0. /\ identity = live => Known(live)
        /\ \A t \in Call : SameInv(t)
        /\ Known(live) => Known(live)'
    BY <1>2, ClientParts, KnownStays
  <2>1. ASSUME UNCHANGED identity,
               \A t \in Call : same'[t] => /\ same[t]
                 /\ \/ pc'[t] = pc[t] /\ new'[t] = new[t]
                    \/ pc'[t] \notin {"swapcap", "swapinp", "identity"}
        PROVE  (identity' = live' => Known(live)') /\ \A t \in Call : SameInv(t)'
    BY <1>2, <2>0, <2>1 DEF SameInv
  <2>2. CASE UNCHANGED <<identity, pc, same, new>>
    BY <2>1, <2>2
  <2>3. ASSUME NEW t \in Call,
               \/ Enter(t) \/ TakeInput(t) \/ Fails(t) \/ Panics(t) \/ FindsDead(t)
               \/ \E k \in {"read", "record"} : ReadFails(t, k) \/ ReadPanics(t, k)
        PROVE  (identity' = live' => Known(live)') /\ \A u \in Call : SameInv(u)'
    <3>1. UNCHANGED <<identity, same, new>>
      BY <2>3 DEF Enter, TakeInput, Fails, Panics, FindsDead, ReadFails, ReadPanics
    <3>2. \E to \in {"go", "run", "failed", "cap"} : pc' = [pc EXCEPT ![t] = to]
      BY <2>3 DEF Enter, TakeInput, Fails, Panics, FindsDead, ReadFails, ReadPanics, Go
    <3> QED
      BY <2>1, <3>1, <3>2 DEF TypeOK
  <2>4. ASSUME NEW t \in Call, OpenCapture(t) \/ OpenInput(t)
        PROVE  (identity' = live' => Known(live)') /\ \A u \in Call : SameInv(u)'
    BY <2>1, <2>4 DEF OpenCapture, OpenInput, Go, TypeOK
  <2>5. ASSUME NEW t \in Call, Done(t) \/ FailsAlive(t) \/ OpenFails(t) \/ Reconnected(t)
        PROVE  (identity' = live' => Known(live)') /\ \A u \in Call : SameInv(u)'
    <3>1. UNCHANGED identity /\ Answered(t)
      BY <2>5 DEF Done, FailsAlive, OpenFails, Reconnected
    <3> QED
      BY <2>1, <3>1 DEF Answered, TypeOK
  <2>6. ASSUME NEW t \in Call, Compare(t)
        PROVE  (identity' = live' => Known(live)') /\ \A u \in Call : SameInv(u)'
    <3>1. /\ UNCHANGED <<identity, new>> /\ pc' = [pc EXCEPT ![t] = "swapcap"]
          /\ same'[t] => identity = live
          /\ \A u \in Call \ {t} : same'[u] = same[u] /\ pc'[u] = pc[u]
      BY <2>6 DEF Compare, Go, TypeOK
    <3> QED
      BY <1>2, <2>0, <3>1 DEF SameInv, TypeOK
  <2>7. ASSUME NEW t \in Call, SwapCapture(t)
        PROVE  (identity' = live' => Known(live)') /\ \A u \in Call : SameInv(u)'
    <3>1. new[t] \in NewConns
      BY DEF TypeOK
    <3>2. /\ UNCHANGED <<identity, same>>
          /\ pc[t] = "swapcap" /\ pc'[t] = "swapinp" /\ new'[t].inp = new[t].inp
          /\ same[t] => new'[t].id = identity
          /\ \A u \in Call \ {t} : new'[u] = new[u] /\ pc'[u] = pc[u]
      BY <2>7, <3>1 DEF SwapCapture, Go, TypeOK, NewConns
    <3> QED
      BY <1>2, <2>0, <3>2 DEF SameInv
  <2>8. ASSUME NEW t \in Call, SwapInput(t)
        PROVE  (identity' = live' => Known(live)') /\ \A u \in Call : SameInv(u)'
    <3>1. new[t] \in NewConns
      BY DEF TypeOK
    <3>2. /\ UNCHANGED <<identity, same>>
          /\ pc[t] = "swapinp" /\ pc'[t] = "identity" /\ new'[t].id = new[t].id
          /\ \A u \in Call \ {t} : new'[u] = new[u] /\ pc'[u] = pc[u]
      BY <2>8, <3>1 DEF SwapInput, Go, TypeOK, NewConns
    <3> QED
      BY <1>2, <2>0, <3>2 DEF SameInv
  <2>9. ASSUME NEW t \in Call, SetIdentity(t)
        PROVE  (identity' = live' => Known(live)') /\ \A u \in Call : SameInv(u)'
    <3>1. /\ UNCHANGED <<new, same>> /\ identity' = new[t].id
          /\ pc[t] = "identity" /\ pc'[t] = "answer"
          /\ \A u \in Call \ {t} : pc'[u] = pc[u]
      BY <2>9 DEF SetIdentity, Go, TypeOK
    <3>2. ~same[t] => Known(live)'
      BY <3>1 DEF Known
    <3>3. same[t] /\ new[t].id = live => Known(live)
      BY <2>0, <3>1 DEF SameInv
    <3> QED
      BY <1>2, <2>0, <3>1, <3>2, <3>3 DEF SameInv
  <2> QED
    BY <2>2, <2>3, <2>4, <2>5, <2>6, <2>7, <2>8, <2>9 DEF Next, Serve, Reconnect,
       AnswerRestarted, Press, Release, ServerEnds, ServerStarts, CutInput, CutCapture,
       Cancel, Shutdown, Exit, Exited, vars
<1> QED
  BY <1>1, <1>2

\* A server that the input has come to is known or about to be told of.
LEMMA NextComes ==
  ASSUME TypeOK, ServerInv, ClientInv, [Next]_vars, Alive(inp)'
  PROVE  ComesInv'
<1> USE DEF display, conns, held, request, opened, knowledge
<1>1. ASSUME NEW t \in Call, SwapInput(t)
      PROVE  ComesInv'
  <2>1. new[t].inp # None /\ pc[t] = "swapinp"
    BY <1>1 DEF SwapInput, Go, ServerInv
  <2>2. live' = live /\ live = new[t].inp /\ live # None
    BY <1>1, <2>1 DEF SwapInput, Alive
  <2>3. CASE same[t]
    BY <2>1, <2>2, <2>3, KnownStays, ClientParts DEF SameInv, ComesInv
  <2>4. CASE ~same[t]
    BY <1>1, <2>4 DEF SwapInput, Go, ComesInv, TypeOK
  <2> QED
    BY <2>3, <2>4
<1>2. CASE \A t \in Call : ~SwapInput(t)
  <2>0. Alive(inp) /\ live' = live
    BY <1>2, StaysDead
  <2>1. live # None /\ ComesInv
    BY <2>0, ClientParts, XBackendAssumption DEF Alive, TypeOK, Conn
  <2>2. CASE Known(live)
    BY <2>0, <2>1, <2>2, KnownStays DEF ComesInv
  <2>3. ASSUME NEW u \in Call, pc[u] = "identity", ~same[u]
        PROVE  ComesInv'
    <3>1. ASSUME pc'[u] = "identity", same'[u] = same[u]
          PROVE  ComesInv'
      BY <2>3, <3>1 DEF ComesInv
    <3>2. CASE SetIdentity(u)
      BY <2>3, <3>2 DEF SetIdentity, Go, ComesInv, Known, TypeOK
    <3>3. ASSUME NEW t \in Call, t # u, Serve(t) \/ Reconnect(t)
          PROVE  ComesInv'
      <4>1. pc'[u] = pc[u] /\ same'[u] = same[u]
        BY <3>3 DEF Serve, Reconnect, Enter, ReadFails, ReadPanics, TakeInput, Done, Fails,
           Panics, FailsAlive, FindsDead, OpenCapture, OpenInput, OpenFails, Compare,
           SwapCapture, SwapInput, SetIdentity, Reconnected, Go, Answered, TypeOK
      <4> QED
        BY <2>3, <3>1, <4>1
    <3>4. Serve(u) \/ Reconnect(u) => SetIdentity(u)
      <4>1. lock # u
        BY <2>3 DEF TypeOK
      <4> QED
        BY <2>3, <4>1 DEF Serve, Reconnect, Enter, ReadFails, ReadPanics, TakeInput, Done,
           Fails, Panics, FailsAlive, FindsDead, OpenCapture, OpenInput, OpenFails, Compare,
           SwapCapture, SwapInput, Reconnected, Go
    <3>5. CASE UNCHANGED <<pc, same>>
      BY <2>3, <3>1, <3>5
    <3> QED
      BY <3>2, <3>3, <3>4, <3>5 DEF Next, AnswerRestarted, Press, Release, ServerEnds,
         ServerStarts, CutInput, CutCapture, Cancel, Shutdown, Exit, Exited, vars
  <2> QED
    BY <2>1, <2>2, <2>3 DEF ComesInv
<1> QED
  BY <1>1, <1>2

\* A request let through knew the server, or a reconnect crossed it.
LEMMA NextLet ==
  ASSUME TypeOK, ServerInv, ClientInv, [Next]_vars, Alive(inp)'
  PROVE  LetInv'
<1> USE DEF display, conns, held, request, opened, knowledge
<1>1. ASSUME NEW t \in Call, SwapInput(t)
      PROVE  LetInv'
  <2>1. \A u \in Call : pc[u] # "run"
    BY <1>1, XBackendAssumption DEF SwapInput, Free, TypeOK
  <2> QED
    BY <1>1, <2>1 DEF SwapInput, Go, LetInv, TypeOK
<1>2. CASE \A t \in Call : ~SwapInput(t)
  <2>0. Alive(inp) /\ live' = live
    BY <1>2, StaysDead
  <2>1. LetInv /\ ComesInv
    BY <2>0, ClientParts
  <2>2. ASSUME \A u \in Call : pc'[u] \in {"go", "run"} =>
                 pc[u] \in {"go", "run"} /\ known'[u] = known[u] /\ crossed'[u] = crossed[u]
        PROVE  LetInv'
    BY <2>0, <2>1, <2>2 DEF LetInv
  <2>3. ASSUME NEW t \in Call, Enter(t)
        PROVE  LetInv'
    <3>1. live \in told \/ \E u \in Call : pc[u] \in {"identity", "answer"}
      BY <2>1, <2>3 DEF Enter, ComesInv, Known
    <3>2. live \in known'[t] \/ crossed'[t]
      BY <2>3, <3>1 DEF Enter, TypeOK
    <3>3. \A u \in Call \ {t} :
            pc'[u] = pc[u] /\ known'[u] = known[u] /\ crossed'[u] = crossed[u]
      BY <2>3 DEF Enter, Go, TypeOK
    <3> QED
      BY <2>0, <2>1, <3>2, <3>3 DEF LetInv
  <2>4. ASSUME NEW t \in Call,
               \/ TakeInput(t) \/ FindsDead(t) \/ OpenCapture(t) \/ OpenInput(t) \/ Compare(t)
               \/ SwapCapture(t) \/ SetIdentity(t)
               \/ \E k \in {"read", "record"} : ReadFails(t, k) \/ ReadPanics(t, k)
        PROVE  LetInv'
    <3>1. UNCHANGED <<known, crossed>>
      BY <2>4 DEF TakeInput, FindsDead, OpenCapture, OpenInput, Compare, SwapCapture,
                  SetIdentity, ReadFails, ReadPanics
    <3>2. \A u \in Call : pc'[u] \in {"go", "run"} => pc[u] \in {"go", "run"}
      BY <2>4 DEF TakeInput, FindsDead, OpenCapture, OpenInput, Compare, SwapCapture,
                  SetIdentity, ReadFails, ReadPanics, Go, TypeOK
    <3> QED
      BY <2>2, <3>1, <3>2
  <2>5. ASSUME NEW t \in Call, Done(t) \/ Fails(t) \/ Panics(t)
        PROVE  LetInv'
    BY <2>2, <2>5 DEF Done, Fails, Panics, Unlock, Answered, Go, TypeOK
  <2>6. ASSUME NEW t \in Call, FailsAlive(t) \/ OpenFails(t) \/ Reconnected(t)
        PROVE  LetInv'
    BY <2>2, <2>6 DEF FailsAlive, OpenFails, Reconnected, Answered, TypeOK
  <2>7. CASE UNCHANGED <<pc, known, crossed>>
    BY <2>2, <2>7
  <2> QED
    BY <1>2, <2>3, <2>4, <2>5, <2>6, <2>7 DEF Next, Serve, Reconnect, AnswerRestarted, Press,
       Release, ServerEnds, ServerStarts, CutInput, CutCapture, Cancel, Shutdown, Exit,
       Exited, vars
<1> QED
  BY <1>1, <1>2

LEMMA NextClient ==
  ASSUME TypeOK, ServerInv, ClientInv, [Next]_vars
  PROVE  ClientInv'
<1>1. told' \subseteq started'
  BY NextTold
<1>2. live' # None => (identity' = live' => Known(live)') /\ \A t \in Call : SameInv(t)'
  BY NextSame
<1>3. Alive(inp)' => ComesInv' /\ LetInv'
  BY NextComes, NextLet
<1> QED
  BY <1>1, <1>2, <1>3 DEF ClientInv, SameInv, ComesInv, LetInv

-----------------------------------------------------------------------------
(* The invariants *)

LEMMA AskedHolds == TypeOK /\ ServerInv /\ TrackInv /\ RequestInv => DownIsAsked
<1> SUFFICES ASSUME TypeOK, ServerInv, TrackInv, RequestInv, lock = None, Alive(inp)
             PROVE  /\ asked \subseteq down[inp.to]
                    /\ down[inp.to] \subseteq asked \cup lost
                    /\ lost # {} => cuts > 0
  BY DEF DownIsAsked
<1>1. asked = tracked
  BY DEF RequestInv
<1>2. lost # {} => cuts > 0
  <2>1. inp.to = live /\ live # None /\ cuts \in Nat
    BY XBackendAssumption DEF Alive, TypeOK, Conn
  <2> QED
    BY <2>1 DEF ServerInv
<1> QED
  BY <1>1, <1>2 DEF TrackInv

LEMMA InitBackend == Init => BackendInv
<1> SUFFICES ASSUME Init PROVE BackendInv
  OBVIOUS
<1> PICK s \in Server :
      /\ live = s /\ started = {s} /\ told = {s} /\ identity = s
      /\ inp = [to |-> s, cut |-> FALSE] /\ cap = inp
  BY DEF Init
<1>1. /\ down = [i \in Server |-> {}] /\ tracked = {} /\ asked = {} /\ lost = {}
      /\ lock = None /\ op = "none" /\ todo = <<>> /\ made = <<>> /\ before = {}
      /\ pc = [t \in Call |-> "idle"] /\ new = [t \in Call |-> NothingNew]
      /\ same = [t \in Call |-> FALSE] /\ cuts = 0
  BY DEF Init
<1>2. TypeOK
  <2>1. NothingNew \in NewConns
    BY DEF NothingNew, NewConns
  <2>2. inp \in Conn /\ cap \in Conn /\ cuts \in 0 .. MaxCuts
    BY <1>1, XBackendAssumption DEF Conn
  <2>3. /\ op \in {"none", "chord", "hold", "let"} /\ todo \in Seq(Input) /\ made \in Seq(Input)
        /\ before \in SUBSET Input /\ down \in [Server -> SUBSET Input]
    BY <1>1
  <2>4. /\ kind \in [Call -> {"none", "input", "read", "record"}]
        /\ main \in {"serving", "waiting", "draining", "exited"} /\ restarted \in BOOLEAN
        /\ known \in [Call -> SUBSET Server] /\ crossed \in [Call -> BOOLEAN]
    BY DEF Init
  <2>5. \A t \in Call : lock = t <=> pc[t] = "run"
    BY <1>1, XBackendAssumption
  <2> QED
    BY <1>1, <2>1, <2>2, <2>3, <2>4, <2>5 DEF TypeOK
<1>3. ServerInv
  BY <1>1 DEF ServerInv, NothingNew
<1>4. TrackInv
  BY <1>1 DEF TrackInv
<1>5. RequestInv
  BY <1>1 DEF RequestInv
<1>6. ClientInv
  BY <1>1 DEF ClientInv, Known
<1> QED
  BY <1>2, <1>3, <1>4, <1>5, <1>6, AskedHolds DEF BackendInv

\* What requests have asked to hold is what is down between requests, whatever
\* fails, panics, reconnects or ends.
THEOREM Backend == Spec => []BackendInv
<1>1. BackendInv /\ [Next]_vars => BackendInv'
  <2> SUFFICES ASSUME BackendInv, [Next]_vars PROVE BackendInv'
    OBVIOUS
  <2>1. TypeOK' /\ ServerInv' /\ TrackInv' /\ RequestInv' /\ ClientInv'
    BY NextTypes, NextServer, NextTrack, NextRequest, NextClient DEF BackendInv
  <2> QED
    BY <2>1, AskedHolds, PTL DEF BackendInv
<1> QED
  BY <1>1, InitBackend, PTL DEF Spec

\* An input request runs on no server that came after its client last looked,
\* unless a reconnect crossed it.
THEOREM InputGoesWhereKnown == Spec => []InputKnows
<1>1. BackendInv => InputKnows
  BY DEF BackendInv, TypeOK, ClientInv, InputKnows, Alive
<1> QED
  BY <1>1, Backend, PTL

\* An exit within its time has released everything.
THEOREM ExitReleases == Spec => []ExitClean
<1>1. Init => ExitClean
  BY DEF Init, ExitClean
<1>2. BackendInv /\ ExitClean /\ [Next]_vars => ExitClean'
  <2> SUFFICES ASSUME BackendInv, ExitClean, [Next]_vars, main' = "exited", Alive(inp)', Idle'
               PROVE  down'[inp'.to] \subseteq lost' \cap Binding
    BY DEF ExitClean
  <2>1. CASE main = "exited"
    <3>1. UNCHANGED vars
      BY <2>1 DEF Next, Exited
    <3> QED
      BY <2>1, <3>1 DEF ExitClean, vars, display, conns, held, Alive, Idle
  <2>2. CASE main # "exited"
    <3>1. Exit
      BY <2>2 DEF Next, Serve, Reconnect, AnswerRestarted, Enter, ReadFails, ReadPanics,
         TakeInput, Press, Release, Done, Fails, Panics, FailsAlive, FindsDead, OpenCapture,
         OpenInput, OpenFails, Compare, SwapCapture, SwapInput, SetIdentity, Reconnected,
         ServerEnds, ServerStarts, CutInput, CutCapture, Cancel, Shutdown, Exited, vars
    <3>2. Idle /\ Alive(inp) /\ inp' = inp /\ ReleaseAll
      BY <3>1 DEF Exit, Idle, Alive, display, conns
    <3>3. down'[inp.to] = (down[inp.to] \cap Binding) \ tracked /\ lost' = lost \cap Binding
      BY <3>2, Releasing DEF ReleaseAll, BackendInv
    <3> QED
      BY <3>2, <3>3 DEF BackendInv, TrackInv
  <2> QED
    BY <2>1, <2>2
<1> QED
  BY <1>1, <1>2, Backend, PTL DEF Spec

-----------------------------------------------------------------------------
(* The back end implements HeldKeys *)

LEMMA DoingOf ==
  /\ Doing["none"] = "nothing" /\ Doing["chord"] = "use"
  /\ Doing["hold"] = "hold" /\ Doing["let"] = "let"
BY DEF Doing

\* Between requests what is held is what the input tracks, but for what was lost.
LEMMA HeldBetween ==
  TypeOK /\ TrackInv /\ lock = None /\ Alive(inp) => HeldNow = tracked \ lost
BY DEF HeldNow, TrackInv

LEMMA HeldWithin ==
  lock # None /\ Alive(inp) => HeldNow = before \ lost
BY DEF HeldNow

\* A request that ends leaves what was held, with what it was to hold and without
\* what it was to let go of; one that used keys, without some of these.
LEMMA EndHeld ==
  ASSUME BackendInv, BackendInv', NEW t \in Call, Done(t) \/ Fails(t), Alive(inp)
  PROVE  Held!Next
<1> USE DEF display, conns, held, request, opened, knowledge
<1>1. /\ lock = t /\ lock # None /\ lock' = None /\ op' = "none" /\ lost' = lost
      /\ Alive(inp)'
  BY XBackendAssumption DEF Done, Fails, Unlock, Alive
<1>2. HeldNow = before \ lost
  BY <1>1, HeldWithin
<1>3. HeldNow' = tracked' \ lost
  BY <1>1 DEF HeldNow, Alive, BackendInv, TrackInv
<1>4. ChordInv /\ op \in {"chord", "hold", "let"} /\ (op = "let" => made = <<>>)
  BY <1>1 DEF BackendInv, RequestInv, ChordInv, TypeOK
<1>5. Range(<<>>) = {} /\ before \subseteq Input
  BY RangeShort DEF BackendInv, TypeOK
<1>6. \/ Done(t) /\ tracked' = tracked /\ (made = <<>> \/ op = "hold")
      \/ tracked' = (tracked \cap before) \ Unwound
  BY DEF Done, Fails, Since
<1>7. CASE op = "chord"
  <2>1. PICK c \in Chord : Touched \subseteq Range(c)
    BY <1>4, <1>7 DEF ChordInv
  <2>2. tracked' \subseteq before /\ before \ tracked' \subseteq Range(c)
    BY <1>4, <1>5, <1>6, <1>7, <2>1 DEF ChordInv, Touched, Unwound
  <2>3. HeldNow' = HeldNow \ (before \ tracked')
    BY <1>2, <1>3, <2>2
  <2>4. Held!Use(Range(c))
    BY <1>1, <1>7, <2>2, <2>3, DoingOf DEF Held!Use, Held!End
  <2> QED
    BY <2>4 DEF Held!Next
<1>8. CASE op = "hold"
  <2>1. PICK k \in Input : Touched \subseteq {k}
    BY <1>4, <1>8 DEF ChordInv
  <2>2. tracked' = before \/ tracked' = before \cup {k}
    BY <1>4, <1>5, <1>6, <1>8, <2>1 DEF ChordInv, Touched, Unwound
  <2>3. HeldNow' \in {HeldNow, HeldNow \cup {k}}
    BY <1>2, <1>3, <2>2
  <2>4. Held!Hold(k)
    BY <1>1, <1>8, <2>3, DoingOf DEF Held!Hold, Held!End
  <2> QED
    BY <2>4 DEF Held!Next
<1>9. CASE op = "let"
  <2>1. PICK k \in Input : Touched \subseteq {k}
    BY <1>4, <1>9 DEF ChordInv
  <2>2. tracked' = before \/ tracked' = before \ {k}
    BY <1>4, <1>5, <1>6, <1>9, <2>1 DEF ChordInv, Touched, Unwound
  <2>3. HeldNow' \in {HeldNow, HeldNow \ {k}}
    BY <1>2, <1>3, <2>2
  <2>4. Held!LetGo(k)
    BY <1>1, <1>9, <2>3, DoingOf DEF Held!LetGo, Held!End
  <2> QED
    BY <2>4 DEF Held!Next
<1> QED
  BY <1>4, <1>7, <1>8, <1>9

\* Every step is one that HeldKeys allows, or none of its concern.
LEMMA HeldSteps ==
  ASSUME BackendInv, BackendInv', [Next]_vars
  PROVE  [Held!Next]_<<HeldNow, Doing[op]>>
<1> USE DEF display, conns, held, request, opened, knowledge
<1>1. ASSUME HeldNow' = {}, op' \in {op, "none"}
      PROVE  [Held!Next]_<<HeldNow, Doing[op]>>
  BY <1>1, DoingOf DEF Held!Next, Held!LetAllGo
<1>2. ASSUME UNCHANGED <<inp, live, lock, op, before, lost>>,
             UNCHANGED down \/ lock # None
      PROVE  [Held!Next]_<<HeldNow, Doing[op]>>
  BY <1>2 DEF HeldNow, Alive
<1>3. ASSUME ~Alive(inp)', op' \in {op, "none"}
      PROVE  [Held!Next]_<<HeldNow, Doing[op]>>
  <2>1. HeldNow' = {}
    BY <1>3 DEF HeldNow
  <2> QED
    BY <1>1, <1>3, <2>1
<1>4. ASSUME NEW t \in Call, TakeInput(t)
      PROVE  [Held!Next]_<<HeldNow, Doing[op]>>
  <2>1. /\ lock = None /\ lock' # None /\ op = "none" /\ op' \in {"chord", "hold", "let"}
        /\ before' = tracked /\ UNCHANGED <<inp, live, lost>>
    BY <1>4, XBackendAssumption DEF TakeInput, Free, BackendInv, RequestInv
  <2>2. HeldNow' = HeldNow
    BY <2>1, HeldBetween DEF BackendInv, HeldNow, Alive
  <2> QED
    BY <2>1, <2>2, DoingOf DEF Held!Next, Held!Begin
<1>5. CASE Press \/ Release
  <2>1. lock # None
    BY <1>5 DEF Press, Release, BackendInv, RequestInv
  <2> QED
    BY <1>2, <1>5, <2>1 DEF Press, Release
<1>6. ASSUME NEW t \in Call, Done(t) \/ Fails(t)
      PROVE  [Held!Next]_<<HeldNow, Doing[op]>>
  <2>1. CASE Alive(inp)
    BY <1>6, <2>1, EndHeld
  <2>2. CASE ~Alive(inp)
    <3>1. ~Alive(inp)' /\ op' = "none"
      BY <1>6, <2>2 DEF Done, Fails, Unlock, Alive
    <3> QED
      BY <1>3, <3>1
  <2> QED
    BY <2>1, <2>2
<1>7. ASSUME ReleaseAll, lock' = None, op' \in {op, "none"}, UNCHANGED <<inp, live>>
      PROVE  [Held!Next]_<<HeldNow, Doing[op]>>
  <2>1. Alive(inp) => down'[inp.to] \subseteq lost'
    BY <1>7, Releasing DEF ReleaseAll, BackendInv, TrackInv
  <2>2. HeldNow' = {}
    BY <1>7, <2>1 DEF HeldNow, Alive
  <2> QED
    BY <1>1, <1>7, <2>2
<1>8. ASSUME NEW t \in Call, Panics(t) \/ \E k \in {"read", "record"} : ReadPanics(t, k)
      PROVE  [Held!Next]_<<HeldNow, Doing[op]>>
  BY <1>7, <1>8 DEF Panics, ReadPanics, Unlock, Free
<1>9. CASE Shutdown
  BY <1>2, <1>7, <1>9 DEF Shutdown
<1>10. CASE Exit
  <2>1. Idle => lock = None
    BY DEF Idle, BackendInv, TypeOK
  <2> QED
    BY <1>2, <1>7, <1>10, <2>1 DEF Exit
<1>11. ASSUME NEW t \in Call, SwapInput(t)
      PROVE  [Held!Next]_<<HeldNow, Doing[op]>>
  <2>1. lock' = None /\ op' = op /\ down'[inp'.to] = lost'
    BY <1>11 DEF SwapInput, Free
  <2>2. HeldNow' = {}
    BY <2>1 DEF HeldNow
  <2> QED
    BY <1>1, <2>1, <2>2
<1>12. CASE ServerEnds \/ CutInput \/ \E s \in Server : ServerStarts(s)
  <2>1. ~Alive(inp)' \/ UNCHANGED <<inp, live, down>>
    BY <1>12, XBackendAssumption DEF ServerEnds, CutInput, ServerStarts, Alive, BackendInv,
       ServerInv, TypeOK, Conn
  <2>2. UNCHANGED <<lock, op, before, lost>>
    BY <1>12 DEF ServerEnds, CutInput, ServerStarts
  <2> QED
    BY <1>2, <1>3, <2>1, <2>2
<1>13. CASE UNCHANGED <<inp, live, lock, op, before, lost, down>>
  BY <1>2, <1>13
<1> QED
  BY <1>4, <1>5, <1>6, <1>8, <1>9, <1>10, <1>11, <1>12, <1>13 DEF Next, Serve, Reconnect,
     AnswerRestarted, Enter, ReadFails, FailsAlive, FindsDead, OpenCapture, OpenInput,
     OpenFails, Compare, SwapCapture, SetIdentity, Reconnected, CutCapture, Cancel, Exited,
     vars

\* The X back end keeps what HeldKeys promises, for any chords, requests, servers
\* and faults.
THEOREM HoldsKeys == Spec => HeldSpec
<1>1. Init => Held!Init
  BY DoingOf DEF Init, Held!Init, HeldNow
<1>2. BackendInv /\ BackendInv' /\ [Next]_vars => [Held!Next]_<<HeldNow, Doing[op]>>
  BY HeldSteps
<1> QED
  BY <1>1, <1>2, Backend, PTL DEF Spec, HeldSpec, Held!Spec

===============================================================================
