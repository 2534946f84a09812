------------------------- MODULE NgapUeCalls_proofs -------------------------
(***************************************************************************)
(* Proofs about NgapUe, continued: what the handlers do, for any UEs, FSM    *)
(* objects and bound on the setups.  The invariant says what a handler may   *)
(* still have to call (Planned), which is what makes its calls, the          *)
(* messages of the gNB and the callbacks of the tick goroutine count the     *)
(* same sessions (Counted), and what lies between the check of a sender and  *)
(* its send (Checked).                                                      *)
(***************************************************************************)
EXTENDS NgapUe_proofs, SequenceTheorems

KnownEvents == {
    "ICSRequestSent", "ICSResponse", "ICSFailure", "TICSExpired", "SetupRequestSent",
    "SetupResponse", "UECtxReleaseRequest", "UECtxReleaseCommand", "UECtxReleaseComplete",
    "TwaitExpired", "NGReset", "UplinkNASTransport"}

LEMMA EventNames == Events = KnownEvents
<1>1. \A r \in SetupRows : r.on \in KnownEvents
  BY DEF SetupRows, Row, KnownEvents
<1>2. \A r \in ReleaseRows : r.on \in KnownEvents
  BY DEF ReleaseRows, Releases, Row, KnownEvents
<1>3. \A r \in EndRows : r.on \in KnownEvents
  BY DEF EndRows, Row, KnownEvents
<1>4. Events \subseteq KnownEvents
  BY <1>1, <1>2, <1>3 DEF Events, Rows
<1>5. \A e \in {"ICSRequestSent", "ICSResponse", "ICSFailure", "TICSExpired",
               "SetupRequestSent", "SetupResponse"} : \E r \in SetupRows : r.on = e
  BY DEF SetupRows, Row
<1>6. \A e \in Releases : \E r \in ReleaseRows : r.on = e
  <2>1. TAKE e \in Releases
  <2>2. Row("NOT_ESTABLISHED", e, "CTX_RELEASE_PENDING", {}, {}) \in ReleaseRows
    BY DEF ReleaseRows
  <2>. QED
    BY <2>2 DEF Row
<1>7. \A e \in {"UECtxReleaseComplete", "TwaitExpired", "NGReset", "UplinkNASTransport"} :
        \E r \in EndRows : r.on = e
  <2>1. /\ Row("NOT_ESTABLISHED", "UECtxReleaseComplete", "RELEASED", {}, {}) \in EndRows
        /\ Row("CTX_RELEASE_PENDING", "TwaitExpired", "RELEASED", {}, {}) \in EndRows
    BY DEF EndRows
  <2>2. Row("RELEASED", "NGReset", "RELEASED", {e \in Expiries : StateOf[e] = "RELEASED"}, {}) \in EndRows
    BY DEF EndRows, States
  <2>3. Row("ICS_PENDING", "UplinkNASTransport", "ICS_PENDING", {}, {}) \in EndRows
    BY DEF EndRows, States
  <2>. QED
    BY <2>1, <2>2, <2>3 DEF Row
<1>8. KnownEvents \subseteq Events
  BY <1>5, <1>6, <1>7 DEF Events, Rows, KnownEvents, Releases
<1>. QED
  BY <1>4, <1>8

-----------------------------------------------------------------------------
(* What a handler still has to call.                                       *)

Op == Events \union Ops

FirstOf(s) == IF s = <<>> THEN "none" ELSE Head(s)

First(u) == FirstOf(todo[u])

\* What may follow a call.
Resets == {ClearThen(c) : c \in GmmCalls}

After(op) ==
    IF op = "drop" THEN GmmCalls \union Resets
    ELSE IF op \in {"clear", "UplinkNASTransport"} THEN GmmCalls
    ELSE IF op = "ICSResponse" THEN {<<>>, <<"setup">>}
    ELSE IF op \in {"UECtxReleaseComplete", "NGReset"} THEN {<<"drop">>}
    ELSE IF op = "UECtxReleaseRequest" THEN Resets
    ELSE {<<>>}

Planned(s) == s \in Seq(Op) /\ (s = <<>> \/ Tail(s) \in After(Head(s)))

LEMMA OpNames ==
  /\ KnownEvents \subseteq Op /\ Ops \subseteq Op
  /\ {"drop", "clear", "ics", "setup", "send-ics", "send-setup", "release"} \subseteq Op
BY EventNames DEF Op, Ops

\* A call and what follows it.
LEMMA Opens ==
  ASSUME NEW op \in Op, NEW rest \in After(op), rest \in Seq(Op)
  PROVE  Planned(<<op>> \o rest) /\ FirstOf(<<op>> \o rest) = op
<1> DEFINE t == <<op>> \o rest
<1>1. /\ <<op>> \in Seq(Op) /\ Len(<<op>>) = 1 /\ <<op>>[1] = op
      /\ Len(rest) \in Nat
  BY LenProperties
<1>2. /\ t \in Seq(Op) /\ Len(t) = 1 + Len(rest)
      /\ \A i \in 1..(1 + Len(rest)) : t[i] = IF i <= 1 THEN op ELSE rest[i - 1]
  BY <1>1, ConcatProperties
<1> HIDE DEF t
<1>3. t # <<>> /\ Head(t) = op
  BY <1>1, <1>2
<1>4. Tail(t) \in Seq(Op) /\ Len(Tail(t)) = Len(rest) /\ \A i \in 1..Len(rest) : Tail(t)[i] = t[i + 1]
  BY <1>1, <1>2, <1>3, HeadTailProperties
<1>5. \A i \in 1..Len(rest) : Tail(t)[i] = rest[i]
  BY <1>1, <1>2, <1>4
<1>6. Tail(t) = rest
  BY <1>4, <1>5, SeqEqual
<1>. QED
  BY <1>2, <1>3, <1>6 DEF t, Planned, FirstOf

LEMMA OpensOne ==
  ASSUME NEW op \in Op, <<>> \in After(op)
  PROVE  Planned(<<op>>) /\ FirstOf(<<op>>) = op
<1>1. <<op>> \in Seq(Op) /\ <<op>> # <<>> /\ Head(<<op>>) = op /\ Tail(<<op>>) = <<>>
  OBVIOUS
<1>. QED
  BY <1>1 DEF Planned, FirstOf

\* What follows a call is planned, and opens with no send and no answer.
Closing == {"UECtxReleaseComplete", "NGReset"}

Starts == {"none", "ics", "setup", "release", "clear", "drop"}

LEMMA AfterPlanned ==
  ASSUME NEW op, NEW rest \in After(op)
  PROVE  /\ Planned(rest) /\ FirstOf(rest) \in Starts
         /\ FirstOf(rest) = "drop" <=> op \in Closing
<1>1. Planned(<<>>) /\ FirstOf(<<>>) = "none"
  BY EmptySeq DEF Planned, FirstOf
<1>2. \A x \in {"ics", "setup", "release", "drop"} : Planned(<<x>>) /\ FirstOf(<<x>>) = x
  <2>1. \A x \in {"ics", "setup", "release", "drop"} : x \in Op /\ <<>> \in After(x)
    BY OpNames DEF After, GmmCalls
  <2>. QED
    BY <2>1, OpensOne
<1>3. ASSUME rest \in GmmCalls PROVE Planned(rest) /\ FirstOf(rest) \in Starts \ {"drop", "clear"}
  BY <1>1, <1>2, <1>3 DEF GmmCalls, Starts
<1>7. ASSUME rest \in Resets PROVE Planned(rest) /\ FirstOf(rest) = "clear"
  <2>1. PICK c \in GmmCalls : rest = <<"clear">> \o c
    BY <1>7 DEF Resets, ClearThen
  <2>2. c \in Seq(Op)
    BY <1>1, <1>2 DEF GmmCalls, Planned
  <2>3. After("clear") = GmmCalls /\ "clear" \in Op
    BY OpNames DEF After
  <2>. QED
    BY <2>1, <2>2, <2>3, Opens
<1>8. CASE op \in {"drop", "clear", "UplinkNASTransport", "UECtxReleaseRequest"}
  <2>1. rest \in GmmCalls \union Resets
    BY <1>8 DEF After
  <2>. QED
    BY <1>3, <1>7, <1>8, <2>1 DEF Starts, Closing
<1>4. CASE op = "ICSResponse"
  BY <1>1, <1>2, <1>4 DEF After, Starts, Closing
<1>5. CASE op \in {"UECtxReleaseComplete", "NGReset"}
  BY <1>2, <1>5 DEF After, Starts, Closing
<1>6. CASE op \notin {"drop", "clear", "UplinkNASTransport", "ICSResponse", "UECtxReleaseRequest"}
                      \union Closing
  <2>1. rest = <<>>
    BY <1>6 DEF After, Closing
  <2>. QED
    BY <2>1, <1>1, <1>2, <1>6 DEF Starts, Closing
<1>. QED
  BY <1>4, <1>5, <1>6, <1>8 DEF Closing

-----------------------------------------------------------------------------
(* The steps of a handler.                                                 *)

AllPlanned == todo \in [Ues -> Seq(Op)] /\ \A u \in Ues : Planned(todo[u])

OthersGoOn(u) == \A w \in Ues \ {u} : First(w)' = First(w) /\ (Clearing(w)' => Clearing(w))

\* A call that is followed by what was planned.
LEMMA CallGoesOn ==
  ASSUME AllPlanned, NEW u \in Ues, NEW op, Call(u, op, <<>>)
  PROVE  /\ First(u) = op /\ AllPlanned' /\ OthersGoOn(u)
         /\ First(u)' \in Starts /\ (First(u)' = "drop" <=> op \in Closing)
         /\ Clearing(u)' => Clearing(u)
         /\ op = "clear" => Clearing(u)
<1>1. /\ todo[u] # <<>> /\ Head(todo[u]) = op
      /\ todo' = [todo EXCEPT ![u] = <<>> \o Tail(todo[u])]
      /\ todo[u] \in Seq(Op) /\ Tail(todo[u]) \in After(op)
  BY DEF Call, AllPlanned, Planned
<1>2. Tail(todo[u]) \in Seq(Op)
  BY <1>1, HeadTailProperties
<1>3. <<>> \o Tail(todo[u]) = Tail(todo[u])
  BY <1>2, ConcatEmptySeq
<1>4. /\ Planned(Tail(todo[u])) /\ FirstOf(Tail(todo[u])) \in Starts
      /\ FirstOf(Tail(todo[u])) = "drop" <=> op \in Closing
  BY <1>1, AfterPlanned
<1>5. todo' = [todo EXCEPT ![u] = Tail(todo[u])]
  BY <1>1, <1>3
<1>6. AllPlanned'
  BY <1>2, <1>4, <1>5 DEF AllPlanned
<1>7. todo'[u] = Tail(todo[u]) /\ \A w \in Ues \ {u} : todo'[w] = todo[w]
  BY <1>5 DEF AllPlanned
<1>8. First(u)' = FirstOf(Tail(todo[u]))
  BY <1>7 DEF First
<1>9. First(u) = op
  BY <1>1 DEF First, FirstOf
<1>10. OthersGoOn(u)
  BY <1>7 DEF First, OthersGoOn, Clearing
<1>11. Clearing(u)' => Clearing(u)
  <2>1. PICK s \in Seq(Op) : s = todo[u] /\ s # <<>>
    BY <1>1
  <2>2. Tail(s) \in Seq(Op) /\ \A i \in DOMAIN Tail(s) : i + 1 \in DOMAIN s /\ Tail(s)[i] = s[i + 1]
    BY <2>1
  <2>. QED
    BY <1>7, <2>1, <2>2 DEF Clearing
<1>12. op = "clear" => Clearing(u)
  <2>1. PICK s \in Seq(Op) : s = todo[u] /\ s # <<>>
    BY <1>1
  <2>2. 1 \in DOMAIN s /\ s[1] = Head(s)
    BY <2>1
  <2>. QED
    BY <1>1, <2>1, <2>2 DEF Clearing
<1>. QED
  BY <1>4, <1>6, <1>8, <1>9, <1>10, <1>11, <1>12

\* The last call of a handler, which turns into another one.
LEMMA CallTurnsInto ==
  ASSUME AllPlanned, NEW u \in Ues, NEW op, After(op) = {<<>>},
         NEW next \in Op, After(next) = {<<>>}, Call(u, op, <<next>>)
  PROVE  First(u) = op /\ AllPlanned' /\ OthersGoOn(u) /\ First(u)' = next /\ ~Clearing(u)'
<1>1. /\ todo[u] # <<>> /\ Head(todo[u]) = op
      /\ todo' = [todo EXCEPT ![u] = <<next>> \o Tail(todo[u])]
      /\ Tail(todo[u]) = <<>>
  BY DEF Call, AllPlanned, Planned
<1>2. <<next>> \in Seq(Op) /\ Planned(<<next>>) /\ FirstOf(<<next>>) = next
  BY OpensOne DEF Planned
<1>3. <<next>> \o <<>> = <<next>>
  BY <1>2, ConcatEmptySeq
<1>4. todo' = [todo EXCEPT ![u] = <<next>>]
  BY <1>1, <1>3
<1>5. AllPlanned'
  BY <1>2, <1>4 DEF AllPlanned
<1>6. todo'[u] = <<next>> /\ \A w \in Ues \ {u} : todo'[w] = todo[w]
  BY <1>4 DEF AllPlanned
<1>7. ~Clearing(u)'
  <2>1. next # "clear"
    <3>1. <<"ics">> \in After("clear") /\ <<"ics">> # <<>>
      BY DEF After, GmmCalls
    <3>. QED
      BY <3>1
  <2>2. DOMAIN <<next>> = {1} /\ <<next>>[1] = next
    OBVIOUS
  <2>. QED
    BY <1>6, <2>1, <2>2 DEF Clearing
<1>. QED
  BY <1>1, <1>2, <1>5, <1>6, <1>7 DEF First, FirstOf, OthersGoOn, Clearing

\* Calls among which NGAPProc is reset.
Resetting(s) == \E i \in DOMAIN s : s[i] = "clear"

\* A message whose handler makes the calls.
LEMMA HandlePlans ==
  ASSUME AllPlanned, NEW u \in Ues, NEW v, NEW calls, Planned(calls), Handle(u, v, calls)
  PROVE  /\ AllPlanned' /\ OthersGoOn(u) /\ First(u)' = FirstOf(calls)
         /\ Clearing(u)' => Resetting(calls)
<1>1. todo' = [todo EXCEPT ![u] = calls] /\ calls \in Seq(Op)
  BY DEF Handle, Planned
<1>2. AllPlanned'
  BY <1>1 DEF AllPlanned
<1>3. todo'[u] = calls /\ \A w \in Ues \ {u} : todo'[w] = todo[w]
  BY <1>1 DEF AllPlanned
<1>. QED
  BY <1>2, <1>3 DEF First, FirstOf, OthersGoOn, Clearing, Resetting

\* The plans of the messages.
LEMMA MessagePlans ==
  /\ \A c \in GmmCalls :
        /\ Planned(<<"drop">> \o c) /\ FirstOf(<<"drop">> \o c) = "drop"
        /\ Planned(<<"drop">> \o ClearThen(c)) /\ FirstOf(<<"drop">> \o ClearThen(c)) = "drop"
        /\ Planned(<<"UplinkNASTransport">> \o c)
        /\ FirstOf(<<"UplinkNASTransport">> \o c) = "UplinkNASTransport"
        /\ ~Resetting(<<"UplinkNASTransport">> \o c)
  /\ \A c \in {<<>>, <<"setup">>} :
        Planned(<<"ICSResponse">> \o c) /\ FirstOf(<<"ICSResponse">> \o c) = "ICSResponse"
  /\ \A e \in {"ICSFailure", "SetupResponse"} : Planned(<<e>>) /\ FirstOf(<<e>>) = e
  /\ Planned(<<>>) /\ FirstOf(<<>>) = "none"
  /\ Planned(<<"UECtxReleaseRequest">> \o ClearThen(<<"release">>))
  /\ FirstOf(<<"UECtxReleaseRequest">> \o ClearThen(<<"release">>)) = "UECtxReleaseRequest"
  /\ \A e \in Closing : Planned(<<e, "drop">>) /\ FirstOf(<<e, "drop">>) = e
<1>0. /\ {"drop", "release", "UplinkNASTransport", "ICSResponse", "ICSFailure", "SetupResponse"} \subseteq Op
      /\ {"UECtxReleaseRequest"} \union Closing \subseteq Op
  BY OpNames DEF KnownEvents, Closing
<1>1. \A op : \A c \in After(op) : c \in Seq(Op)
  BY AfterPlanned DEF Planned
<1>2. /\ \A c \in GmmCalls : c \in After("drop") /\ ClearThen(c) \in After("drop")
      /\ \A c \in GmmCalls : c \in After("UplinkNASTransport")
      /\ After("ICSResponse") = {<<>>, <<"setup">>}
      /\ \A e \in {"ICSFailure", "SetupResponse"} : <<>> \in After(e)
      /\ ClearThen(<<"release">>) \in After("UECtxReleaseRequest")
      /\ \A e \in Closing : After(e) = {<<"drop">>}
  BY DEF After, Closing, Resets, GmmCalls
<1>3. \A op \in Op : \A c \in After(op) : Planned(<<op>> \o c) /\ FirstOf(<<op>> \o c) = op
  BY <1>1, Opens
<1>4. Planned(<<>>) /\ FirstOf(<<>>) = "none"
  BY EmptySeq DEF Planned, FirstOf
<1>5. \A a, b \in Op : /\ <<a, b>> \in Seq(Op) /\ <<a, b>> # <<>>
                       /\ Head(<<a, b>>) = a /\ Tail(<<a, b>>) = <<b>>
  OBVIOUS
<1>6. \A a, b \in Op : <<b>> \in After(a) => Planned(<<a, b>>) /\ FirstOf(<<a, b>>) = a
  BY <1>5 DEF Planned, FirstOf
<1>7. ASSUME NEW c \in GmmCalls
      PROVE  /\ Planned(<<"drop">> \o c) /\ FirstOf(<<"drop">> \o c) = "drop"
             /\ Planned(<<"drop">> \o ClearThen(c)) /\ FirstOf(<<"drop">> \o ClearThen(c)) = "drop"
             /\ Planned(<<"UplinkNASTransport">> \o c)
             /\ FirstOf(<<"UplinkNASTransport">> \o c) = "UplinkNASTransport"
  BY <1>0, <1>2, <1>3
<1>8. \A c \in {<<>>, <<"setup">>} :
        Planned(<<"ICSResponse">> \o c) /\ FirstOf(<<"ICSResponse">> \o c) = "ICSResponse"
  BY <1>0, <1>2, <1>3
<1>9. \A e \in {"ICSFailure", "SetupResponse"} : Planned(<<e>>) /\ FirstOf(<<e>>) = e
  BY <1>0, <1>2, OpensOne
<1>10. /\ Planned(<<"UECtxReleaseRequest">> \o ClearThen(<<"release">>))
       /\ FirstOf(<<"UECtxReleaseRequest">> \o ClearThen(<<"release">>)) = "UECtxReleaseRequest"
  BY <1>0, <1>2, <1>3
<1>11. \A e \in Closing : Planned(<<e, "drop">>) /\ FirstOf(<<e, "drop">>) = e
  BY <1>0, <1>2, <1>6
<1>12. ASSUME NEW c \in GmmCalls PROVE ~Resetting(<<"UplinkNASTransport">> \o c)
  <2>1. c \in Seq(Op) /\ \A i \in 1..Len(c) : c[i] # "clear"
    <3>1. c = <<>> \/ \E x \in {"ics", "setup", "release"} : c = <<x>>
      BY DEF GmmCalls
    <3>2. c \in Seq(Op)
      BY <1>1, <1>2
    <3>3. CASE c = <<>>
      BY <3>2, <3>3
    <3>4. ASSUME NEW x \in {"ics", "setup", "release"}, c = <<x>> PROVE \A i \in 1..Len(c) : c[i] # "clear"
      <4>1. Len(<<x>>) = 1 /\ <<x>>[1] = x
        OBVIOUS
      <4>. QED
        BY <3>4, <4>1
    <3>. QED
      BY <3>1, <3>2, <3>3, <3>4
  <2>2. <<"UplinkNASTransport">> \in Seq(Op) /\ Len(<<"UplinkNASTransport">>) = 1
        /\ <<"UplinkNASTransport">>[1] = "UplinkNASTransport"
    BY <1>0
  <2>3. PICK t \in Seq(Op) : t = <<"UplinkNASTransport">> \o c
    BY <2>1, <2>2, ConcatProperties
  <2>4. Len(t) = 1 + Len(c) /\ Len(c) \in Nat
        /\ \A i \in 1..(1 + Len(c)) : t[i] = IF i <= 1 THEN <<"UplinkNASTransport">>[i] ELSE c[i - 1]
    BY <2>1, <2>2, <2>3, ConcatProperties, LenProperties
  <2>5. ASSUME NEW i \in 1..(1 + Len(c)) PROVE t[i] # "clear"
    <3>1. CASE i = 1
      BY <2>2, <2>4, <3>1
    <3>2. CASE i # 1
      <4>1. i - 1 \in 1..Len(c) /\ t[i] = c[i - 1]
        BY <2>4, <3>2
      <4>. QED
        BY <2>1, <4>1
    <3>. QED
      BY <3>1, <3>2
  <2>6. DOMAIN t = 1..(1 + Len(c))
    BY <2>3, <2>4
  <2>. QED
    BY <2>3, <2>5, <2>6 DEF Resetting
<1>. QED
  BY <1>4, <1>7, <1>8, <1>9, <1>10, <1>11, <1>12

-----------------------------------------------------------------------------
(* The context of a UE: its fields and their updates.                       *)

Conns == {"none", "idle", "connected", "releasing"}
Procs == {"none", "ics", "setup", "release"}

\* A name the provers do not look into.
No == FALSE

WithConn(c, x) == [c EXCEPT !.conn = x]
WithProc(c, x) == [c EXCEPT !.proc = x]
WithIcs(c, x) == [c EXCEPT !.ics = x]
WithSetups(c, x) == [c EXCEPT !.setups = x]

LEMMA CtxFields ==
  ASSUME NEW c \in Ctx
  PROVE  c.conn \in Conns /\ c.proc \in Procs /\ c.ics \in BOOLEAN /\ c.setups \in 0..MaxSetups
BY DEF Ctx, Conns, Procs

LEMMA ConnUpdate ==
  ASSUME NEW c \in Ctx, NEW x \in Conns
  PROVE  /\ WithConn(c, x) \in Ctx /\ WithConn(c, x).conn = x
         /\ WithConn(c, x).proc = c.proc /\ WithConn(c, x).ics = c.ics
         /\ WithConn(c, x).setups = c.setups
BY DEF Ctx, Conns, WithConn

LEMMA ProcUpdate ==
  ASSUME NEW c \in Ctx, NEW x \in Procs
  PROVE  /\ WithProc(c, x) \in Ctx /\ WithProc(c, x).proc = x
         /\ WithProc(c, x).conn = c.conn /\ WithProc(c, x).ics = c.ics
         /\ WithProc(c, x).setups = c.setups
BY DEF Ctx, Procs, WithProc

LEMMA IcsUpdate ==
  ASSUME NEW c \in Ctx, NEW x \in BOOLEAN
  PROVE  /\ WithIcs(c, x) \in Ctx /\ WithIcs(c, x).ics = x
         /\ WithIcs(c, x).conn = c.conn /\ WithIcs(c, x).proc = c.proc
         /\ WithIcs(c, x).setups = c.setups
BY DEF Ctx, WithIcs

LEMMA SetupsUpdate ==
  ASSUME NEW c \in Ctx, NEW x \in 0..MaxSetups
  PROVE  /\ WithSetups(c, x) \in Ctx /\ WithSetups(c, x).setups = x
         /\ WithSetups(c, x).conn = c.conn /\ WithSetups(c, x).proc = c.proc
         /\ WithSetups(c, x).ics = c.ics
BY DEF Ctx, WithSetups

LEMMA CleanCtx ==
  /\ Absent \in Ctx /\ Absent.conn = "none" /\ Absent.setups = 0 /\ Absent.ics = No
  /\ Fresh = WithConn(Absent, "connected")
<1>1. \A f \in BOOLEAN :
        /\ [conn |-> "none", proc |-> "none", ics |-> f, setups |-> 0] \in Ctx
        /\ [conn |-> "none", proc |-> "none", ics |-> f, setups |-> 0].ics = f
  BY NgapAssumption DEF Ctx
<1>2. FALSE \in BOOLEAN
  OBVIOUS
<1>3. Absent \in Ctx /\ Absent.ics = FALSE
  BY <1>1, <1>2, Zenon DEF Absent
<1>4. Absent.conn = "none" /\ Absent.setups = 0
  BY DEF Absent
<1>5. Fresh = WithConn(Absent, "connected")
  BY Zenon DEF Fresh, WithConn
<1>. QED
  BY <1>3, <1>4, <1>5, Zenon DEF No

-----------------------------------------------------------------------------
(* The first layer, for every environment: types and plans.                 *)

HandlerInv ==
    /\ AllPlanned
    /\ ue \in [Ues -> Ctx]
    /\ stage \in {"none", "send", "fire", "return"}
    /\ link \in {"up", "down"}

Discarding == {"drop"} \union Closing

\* What a message of the gNB, or the loss of the association, makes of a UE: the
\* handler opens with no send; no setup is added; the release is not forgotten but by
\* an answer that crosses it; and the answers owed change by the one it calls for.
Effect(u, v, calls) ==
    /\ v \in Ctx /\ Planned(calls)
    /\ FirstOf(calls) \in KnownEvents \union {"none", "drop"}
    /\ FirstOf(calls) \notin {"SetupRequestSent", "TICSExpired", "TwaitExpired"}
    /\ v.setups <= ue[u].setups /\ (v.ics = No \/ v.ics = ue[u].ics)
    /\ v.conn = "releasing" =>
          /\ ue[u].conn = "releasing"
          /\ (v.proc = ue[u].proc /\ ~Resetting(calls)) \/ "late" \in Env
    /\ \/ FirstOf(calls) \in Discarding
       \/ fsm[u] = None
       \/ /\ todo[u] = <<>>
          /\ \/ v.setups = ue[u].setups
             \/ /\ v.setups = ue[u].setups - 1
                /\ FirstOf(calls) = "SetupResponse" \/ "gone" \in Env

LEMMA MessageEffect ==
  ASSUME HandlerInv, NEW u \in Ues, Messages(u) \/ Cascade(u)
  PROVE  \E v, calls : Handle(u, v, calls) /\ Effect(u, v, calls)
<1>0. PICK c \in Ctx : c = ue[u]
  BY DEF HandlerInv
<1>1. /\ c.conn \in Conns /\ c.proc \in Procs
      /\ c.setups \in 0..MaxSetups /\ MaxSetups \in Nat
  BY CtxFields, NgapAssumption
<1>2. No \in BOOLEAN /\ "none" \in Procs /\ {"connected", "idle", "none"} \subseteq Conns
  BY DEF No, Procs, Conns
<1>3. /\ Absent \in Ctx /\ Absent.conn = "none" /\ Absent.setups = 0 /\ Absent.ics = No
      /\ Fresh \in Ctx /\ Fresh.conn = "connected" /\ Fresh.setups = 0 /\ Fresh.ics = No
  BY <1>2, CleanCtx, ConnUpdate
<1>4. CASE NewUe(u)
  <2>1. Handle(u, Fresh, <<>>) /\ fsm[u] = None
    BY <1>4 DEF NewUe
  <2>2. Effect(u, Fresh, <<>>)
    BY <1>0, <1>1, <1>3, <2>1, MessagePlans DEF Effect, KnownEvents
  <2>. QED
    BY <2>1, <2>2
<1>5. CASE InitialUEMessage(u)
  <2>1. PICK g \in GmmCalls :
            \/ Handle(u, Fresh, <<"drop">> \o g)
            \/ Handle(u, WithConn(c, "connected"), <<"drop">> \o ClearThen(g))
    BY <1>0, <1>5, Zenon DEF InitialUEMessage, WithConn
  <2>2. PICK v \in Ctx : v = WithConn(c, "connected") /\ v.conn = "connected"
                         /\ v.setups = c.setups /\ v.ics = c.ics
    BY <1>2, ConnUpdate
  <2>3. Effect(u, Fresh, <<"drop">> \o g)
    BY <1>0, <1>1, <1>3, MessagePlans DEF Effect, Discarding
  <2>4. Effect(u, v, <<"drop">> \o ClearThen(g))
    BY <1>0, <1>1, <2>2, MessagePlans DEF Effect, Discarding
  <2>. QED
    BY <2>1, <2>2, <2>3, <2>4
<1>6. CASE UplinkNASTransport(u)
  <2>1. PICK g \in GmmCalls : Handle(u, ue[u], <<"UplinkNASTransport">> \o g) /\ todo[u] = <<>>
    BY <1>6 DEF UplinkNASTransport, Arrives, Idle
  <2>2. Effect(u, ue[u], <<"UplinkNASTransport">> \o g)
    BY <1>0, <1>1, <2>1, MessagePlans DEF Effect, KnownEvents
  <2>. QED
    BY <2>1, <2>2
<1>7. ASSUME NEW v, v = WithProc(WithIcs(c, No), "none"), Arrives(u, "late"),
             NEW calls, FirstOf(calls) \in {"ICSResponse", "ICSFailure"}, Planned(calls)
      PROVE  Effect(u, v, calls)
  <2>1. v \in Ctx /\ v.conn = c.conn /\ v.setups = c.setups /\ v.ics = No
    BY <1>2, <1>7, IcsUpdate, ProcUpdate
  <2>2. todo[u] = <<>> /\ (c.conn = "releasing" => "late" \in Env)
    BY <1>0, <1>7 DEF Arrives, Idle
  <2>. QED
    BY <1>0, <1>1, <1>7, <2>1, <2>2 DEF Effect, KnownEvents
<1>8. [c EXCEPT !.ics = FALSE, !.proc = "none"] = WithProc(WithIcs(c, No), "none")
  BY Zenon DEF WithProc, WithIcs, No
<1>9. CASE ICSResponse(u)
  <2>1. PICK v : v = WithProc(WithIcs(c, No), "none")
    OBVIOUS
  <2>2. PICK n \in {<<>>, <<"setup">>} :
            Handle(u, v, <<"ICSResponse">> \o n) /\ Arrives(u, "late")
    BY <1>0, <1>8, <1>9, <2>1, Zenon DEF ICSResponse
  <2>3. PICK calls : calls = <<"ICSResponse">> \o n
    OBVIOUS
  <2>4. FirstOf(calls) = "ICSResponse" /\ Planned(calls)
    BY <2>2, <2>3, MessagePlans
  <2>5. Effect(u, v, calls)
    BY <1>7, <2>1, <2>2, <2>4
  <2>. QED
    BY <2>2, <2>3, <2>5
<1>10. CASE ICSFailure(u)
  <2>1. PICK v : v = WithProc(WithIcs(c, No), "none")
    OBVIOUS
  <2>2. Handle(u, v, <<"ICSFailure">>) /\ Arrives(u, "late")
    BY <1>0, <1>8, <1>10, <2>1, Zenon DEF ICSFailure
  <2>3. Effect(u, v, <<"ICSFailure">>)
    BY <1>7, <2>1, <2>2, MessagePlans
  <2>. QED
    BY <2>2, <2>3
<1>11. CASE SetupResponse(u)
  <2>1. [ue[u] EXCEPT !.setups = ue[u].setups - 1, !.proc = "none"]
            = WithProc(WithSetups(ue[u], ue[u].setups - 1), "none")
    BY Zenon DEF WithProc, WithSetups
  <2>2. PICK v : v = WithProc(WithSetups(c, c.setups - 1), "none")
    OBVIOUS
  <2>3. PICK calls : /\ calls \in {<<"SetupResponse">>} \union (IF "gone" \in Env THEN {<<>>} ELSE {})
                     /\ Handle(u, v, calls)
    BY <1>0, <1>11, <2>1, <2>2, Zenon DEF SetupResponse
  <2>4. c.setups > 0 /\ todo[u] = <<>> /\ (c.conn = "releasing" => "late" \in Env)
    BY <1>0, <1>11 DEF SetupResponse, Arrives, Idle
  <2>5. c.setups - 1 \in 0..MaxSetups
    BY <1>1, <2>4
  <2>6. v \in Ctx /\ v.conn = c.conn /\ v.setups = c.setups - 1 /\ v.ics = c.ics
    BY <1>2, <2>2, <2>5, SetupsUpdate, ProcUpdate
  <2>7. \/ calls = <<"SetupResponse">>
        \/ calls = <<>> /\ "gone" \in Env
    BY <2>3
  <2>8. Effect(u, v, calls)
    BY <1>0, <1>1, <2>4, <2>6, <2>7, MessagePlans DEF Effect, KnownEvents
  <2>. QED
    BY <2>3, <2>8
<1>12. CASE ReleaseRequest(u)
  <2>1. PICK calls : calls = <<"UECtxReleaseRequest">> \o ClearThen(<<"release">>)
    OBVIOUS
  <2>2. Handle(u, ue[u], calls) /\ Arrives(u, "late")
    BY <1>12, <2>1 DEF ReleaseRequest
  <2>3. todo[u] = <<>> /\ (c.conn = "releasing" => "late" \in Env)
    BY <1>0, <2>2 DEF Arrives, Idle
  <2>4. Planned(calls) /\ FirstOf(calls) = "UECtxReleaseRequest"
    BY <2>1, MessagePlans
  <2>5. Effect(u, ue[u], calls)
    BY <1>0, <1>1, <2>3, <2>4 DEF Effect, KnownEvents
  <2>. QED
    BY <2>2, <2>5
<1>13. CASE ReleaseComplete(u)
  <2>1. PICK x \in {"idle", "none"} :
            Handle(u, WithConn(Absent, x), <<"UECtxReleaseComplete", "drop">>)
    BY <1>13, Zenon DEF ReleaseComplete, WithConn
  <2>2. PICK v : v = WithConn(Absent, x)
    OBVIOUS
  <2>3. v \in Ctx /\ v.conn = x /\ v.setups = 0 /\ v.ics = No
    BY <1>2, <1>3, <2>2, ConnUpdate
  <2>4. Effect(u, v, <<"UECtxReleaseComplete", "drop">>)
    BY <1>0, <1>1, <2>3, MessagePlans DEF Effect, KnownEvents, Discarding, Closing
  <2>. QED
    BY <2>1, <2>2, <2>4
<1>14. CASE Cascade(u)
  <2>1. Handle(u, Absent, <<"NGReset", "drop">>)
    BY <1>14 DEF Cascade
  <2>2. Effect(u, Absent, <<"NGReset", "drop">>)
    BY <1>0, <1>1, <1>3, MessagePlans DEF Effect, KnownEvents, Discarding, Closing
  <2>. QED
    BY <2>1, <2>2
<1>. QED
  BY <1>4, <1>5, <1>6, <1>9, <1>10, <1>11, <1>12, <1>13, <1>14 DEF Messages

Sends == {"send-ics", "send-setup"}

\* What a call that fires no event makes of a UE: a send starts a setup, which it
\* counts, or the release; a check lets a send go on unless a release is in progress.
SendEffect(u, v) ==
    /\ v \in Ctx /\ ue' = [ue EXCEPT ![u] = v]
    /\ First(u) \notin Discarding \union {"SetupRequestSent", "SetupResponse"}
    /\ First(u)' \notin Discarding \union {"SetupResponse"}
    /\ \/ v.setups = ue[u].setups /\ First(u)' # "SetupRequestSent"
       \/ v.setups = ue[u].setups + 1 /\ First(u)' = "SetupRequestSent"
    /\ First(u) \in Sends \/ (v.setups = ue[u].setups /\ v.ics = ue[u].ics)
    /\ First(u)' \in Sends => v = ue[u] /\ v.proc # "release"
    /\ v.conn = "releasing" =>
          \/ v.proc = "release" /\ ~Clearing(u)'
          \/ v.conn = ue[u].conn /\ (v = ue[u] \/ First(u) \in Sends \union {"clear"})
    /\ First(u) = "clear" => Clearing(u)
    /\ Clearing(u)' => Clearing(u)

LEMMA ReleasedCtx ==
  ASSUME NEW c \in Ctx
  PROVE  /\ Released(c) \in Ctx /\ Released(c).proc = "release"
         /\ Released(c).setups = c.setups /\ Released(c).ics = c.ics
<1>1. PICK x \in Conns : x = (IF c.conn = "connected" THEN "releasing" ELSE c.conn)
  BY CtxFields DEF Conns
<1>2. "release" \in Procs
  BY DEF Procs
<1>3. PICK a \in Ctx : /\ a = WithProc(c, "release") /\ a.proc = "release" /\ a.conn = c.conn
                       /\ a.setups = c.setups /\ a.ics = c.ics
  BY <1>2, ProcUpdate
<1>4. Released(c) = [[c EXCEPT !.proc = "release"] EXCEPT
                        !.conn = IF [c EXCEPT !.proc = "release"].conn = "connected"
                                 THEN "releasing" ELSE [c EXCEPT !.proc = "release"].conn]
  BY Zenon DEF Released
<1>5. Released(c) = WithConn(a, IF a.conn = "connected" THEN "releasing" ELSE a.conn)
  BY <1>3, <1>4, Zenon DEF WithProc, WithConn
<1>6. Released(c) = WithConn(a, x)
  BY <1>1, <1>3, <1>5, Zenon
<1>. QED
  BY <1>3, <1>6, ConnUpdate

LEMMA SendsEffect ==
  ASSUME HandlerInv, NEW u \in Ues,
         Clears(u) \/ Checks(u) \/ SendsIcs(u) \/ SendsSetup(u) \/ SendsCommand(u)
  PROVE  Quietly /\ AllPlanned' /\ OthersGoOn(u) /\ \E v : SendEffect(u, v)
<1>0. PICK c \in Ctx : c = ue[u]
  BY DEF HandlerInv
<1>1. /\ AllPlanned /\ [ue EXCEPT ![u] = c] = ue
      /\ c.setups \in 0..MaxSetups /\ MaxSetups \in Nat
  BY <1>0, CtxFields, NgapAssumption DEF HandlerInv
<1>2. /\ \A op \in {"ics", "setup", "release"} \union Sends : After(op) = {<<>>} /\ op \notin Closing
      /\ "clear" \notin Closing
      /\ \A op \in Sends \union {"ICSRequestSent", "SetupRequestSent", "UECtxReleaseCommand"} :
            After(op) = {<<>>} /\ op \in Op
  BY OpNames DEF After, Sends, Closing, KnownEvents
<1>3. ASSUME NEW op \in {"ics", "setup", "release"} \union Sends, Goes(u, op, <<>>)
      PROVE  Quietly /\ AllPlanned' /\ OthersGoOn(u) /\ SendEffect(u, c)
  <2>1. Call(u, op, <<>>) /\ UNCHANGED ue /\ Quietly
    BY <1>3 DEF Goes
  <2>2. /\ First(u) = op /\ AllPlanned' /\ OthersGoOn(u)
        /\ First(u)' \in Starts \ {"drop"} /\ (Clearing(u)' => Clearing(u))
    BY <1>1, <1>2, <2>1, CallGoesOn
  <2>. QED
    BY <1>0, <1>1, <2>1, <2>2 DEF SendEffect, Starts, Discarding, Closing, Sends
<1>4. ASSUME NEW op \in {"ics", "setup", "release"} \union Sends,
             NEW next \in Sends \union {"ICSRequestSent", "SetupRequestSent", "UECtxReleaseCommand"},
             Call(u, op, <<next>>)
      PROVE  First(u) = op /\ AllPlanned' /\ OthersGoOn(u) /\ First(u)' = next /\ ~Clearing(u)'
  BY <1>1, <1>2, <1>4, CallTurnsInto
<1>9. CASE Clears(u)
  <2>1. PICK v \in Ctx : /\ v = WithProc(c, "none") /\ v.conn = c.conn
                         /\ v.setups = c.setups /\ v.ics = c.ics
    BY ProcUpdate DEF Procs
  <2>2. Call(u, "clear", <<>>) /\ Quietly /\ ue' = [ue EXCEPT ![u] = v]
    BY <1>0, <1>9, <2>1, Zenon DEF Clears, UpdateUe, WithProc
  <2>3. /\ First(u) = "clear" /\ AllPlanned' /\ OthersGoOn(u)
        /\ First(u)' \in Starts \ {"drop"} /\ Clearing(u) /\ (Clearing(u)' => Clearing(u))
    BY <1>1, <1>2, <2>2, CallGoesOn
  <2>4. SendEffect(u, v)
    BY <1>0, <1>1, <2>1, <2>2, <2>3 DEF SendEffect, Starts, Discarding, Closing, Sends
  <2>. QED
    BY <2>2, <2>3, <2>4
<1>5. CASE Checks(u)
  <2>1. PICK p \in {"ics", "setup"} :
            Goes(u, p, IF CanStart(u, p) THEN <<SendOf[p]>> ELSE <<>>)
    BY <1>5 DEF Checks
  <2>2. CASE ~CanStart(u, p)
    BY <1>3, <2>1, <2>2
  <2>3. CASE CanStart(u, p)
    <3>1. c.proc # "release"
      BY <1>0, <2>3 DEF CanStart
    <3>2. SendOf[p] \in Sends
      BY DEF SendOf, Sends
    <3>3. Call(u, p, <<SendOf[p]>>) /\ UNCHANGED ue /\ Quietly
      BY <2>1, <2>3 DEF Goes
    <3>4. First(u) = p /\ AllPlanned' /\ OthersGoOn(u) /\ First(u)' = SendOf[p] /\ ~Clearing(u)'
      BY <1>4, <3>2, <3>3
    <3>. QED
      BY <1>0, <1>1, <3>1, <3>2, <3>3, <3>4 DEF SendEffect, Discarding, Closing, Sends
  <2>. QED
    BY <2>2, <2>3
<1>6. CASE SendsIcs(u)
  <2>1. CASE Goes(u, "send-ics", <<>>)
    BY <1>3, <2>1 DEF Sends
  <2>2. CASE /\ Call(u, "send-ics", <<"ICSRequestSent">>) /\ Quietly
             /\ UpdateUe(u, [ue[u] EXCEPT !.proc = "ics", !.ics = TRUE])
    <3>1. PICK v : v = WithIcs(WithProc(c, "ics"), TRUE)
      OBVIOUS
    <3>2. v \in Ctx /\ v.conn = c.conn /\ v.setups = c.setups
      <4>1. PICK a \in Ctx : a = WithProc(c, "ics") /\ a.conn = c.conn /\ a.setups = c.setups
        BY ProcUpdate DEF Procs
      <4>2. TRUE \in BOOLEAN
        OBVIOUS
      <4>. QED
        BY <3>1, <4>1, <4>2, IcsUpdate, Zenon
    <3>3. ue' = [ue EXCEPT ![u] = v]
      BY <1>0, <2>2, <3>1, Zenon DEF UpdateUe, WithIcs, WithProc
    <3>4. First(u) = "send-ics" /\ AllPlanned' /\ OthersGoOn(u) /\ First(u)' = "ICSRequestSent"
          /\ ~Clearing(u)'
      BY <1>4, <2>2 DEF Sends
    <3>5. SendEffect(u, v)
      BY <1>0, <1>1, <3>2, <3>3, <3>4 DEF SendEffect, Discarding, Closing, Sends
    <3>. QED
      BY <2>2, <3>4, <3>5
  <2>. QED
    BY <1>6, <2>1, <2>2 DEF SendsIcs
<1>7. CASE SendsSetup(u)
  <2>1. CASE Goes(u, "send-setup", <<>>)
    BY <1>3, <2>1 DEF Sends
  <2>2. CASE /\ Call(u, "send-setup", <<"SetupRequestSent">>) /\ Quietly
             /\ ue[u].setups < MaxSetups
             /\ UpdateUe(u, [ue[u] EXCEPT !.proc = "setup", !.setups = @ + 1])
    <3>1. PICK v : v = WithSetups(WithProc(c, "setup"), WithProc(c, "setup").setups + 1)
      OBVIOUS
    <3>2. v \in Ctx /\ v.conn = c.conn /\ v.setups = c.setups + 1
      <4>1. PICK a \in Ctx : a = WithProc(c, "setup") /\ a.conn = c.conn /\ a.setups = c.setups
        BY ProcUpdate DEF Procs
      <4>2. a.setups + 1 \in 0..MaxSetups
        BY <1>0, <1>1, <2>2, <4>1
      <4>. QED
        BY <3>1, <4>1, <4>2, SetupsUpdate
    <3>3. ue' = [ue EXCEPT ![u] = v]
      BY <1>0, <2>2, <3>1, Zenon DEF UpdateUe, WithSetups, WithProc
    <3>4. First(u) = "send-setup" /\ AllPlanned' /\ OthersGoOn(u) /\ First(u)' = "SetupRequestSent"
          /\ ~Clearing(u)'
      BY <1>4, <2>2 DEF Sends
    <3>5. SendEffect(u, v)
      BY <1>0, <1>1, <3>2, <3>3, <3>4 DEF SendEffect, Discarding, Closing, Sends
    <3>. QED
      BY <2>2, <3>4, <3>5
  <2>. QED
    BY <1>7, <2>1, <2>2 DEF SendsSetup
<1>8. CASE SendsCommand(u)
  <2>1. CASE Goes(u, "release", <<>>)
    BY <1>3, <2>1
  <2>2. CASE /\ Call(u, "release", <<"UECtxReleaseCommand">>) /\ Quietly
             /\ UpdateUe(u, Released(ue[u]))
    <3>1. PICK v : v = Released(c)
      OBVIOUS
    <3>2. v \in Ctx /\ v.proc = "release" /\ v.setups = c.setups /\ v.ics = c.ics
      BY <3>1, ReleasedCtx
    <3>3. ue' = [ue EXCEPT ![u] = v]
      BY <1>0, <2>2, <3>1, Zenon DEF UpdateUe
    <3>4. First(u) = "release" /\ AllPlanned' /\ OthersGoOn(u) /\ First(u)' = "UECtxReleaseCommand"
          /\ ~Clearing(u)'
      BY <1>4, <2>2
    <3>5. SendEffect(u, v)
      BY <1>0, <1>1, <3>2, <3>3, <3>4 DEF SendEffect, Discarding, Closing, Sends
    <3>. QED
      BY <2>2, <3>4, <3>5
  <2>. QED
    BY <1>8, <2>1, <2>2 DEF SendsCommand
<1>. QED
  BY <1>5, <1>6, <1>7, <1>8, <1>9

\* The plans and the contexts keep their types, step by step.
LEMMA HandlerStep == ASSUME HandlerInv, [Next]_vars PROVE HandlerInv'
<1>1. CASE UNCHANGED vars
  BY <1>1 DEF vars, HandlerInv, AllPlanned
<1>2. ASSUME NEW u \in Ues, Calls(u) PROVE HandlerInv'
  <2>1. CASE FiresEvent(u)
    <3>1. PICK event : Call(u, event, <<>>)
      BY <2>1 DEF FiresEvent
    <3>2. AllPlanned'
      BY <3>1, CallGoesOn DEF HandlerInv
    <3>3. UNCHANGED <<stage, ue, link>>
      BY <2>1 DEF FiresEvent
    <3>. QED
      BY <3>2, <3>3 DEF HandlerInv
  <2>2. CASE DropsFsm(u)
    <3>1. AllPlanned'
      BY <2>2, CallGoesOn DEF HandlerInv, DropsFsm
    <3>. QED
      BY <2>2, <3>1 DEF HandlerInv, DropsFsm
  <2>3. CASE Clears(u) \/ Checks(u) \/ SendsIcs(u) \/ SendsSetup(u) \/ SendsCommand(u)
    <3>1. Quietly /\ AllPlanned' /\ \E v \in Ctx : ue' = [ue EXCEPT ![u] = v]
      BY <2>3, SendsEffect DEF SendEffect
    <3>. QED
      BY <3>1 DEF HandlerInv, Quietly
  <2>. QED
    BY <1>2, <2>1, <2>2, <2>3 DEF Calls
<1>3. ASSUME NEW u \in Ues, Messages(u) \/ Cascade(u) PROVE HandlerInv'
  <2>1. PICK v, calls : Handle(u, v, calls) /\ Effect(u, v, calls)
    BY <1>3, MessageEffect
  <2>2. AllPlanned'
    BY <2>1, HandlePlans DEF HandlerInv, Effect
  <2>. QED
    BY <2>1, <2>2 DEF HandlerInv, Handle, UpdateUe, Quietly, Effect
<1>4. ASSUME NEW u \in Ues, UpdateUe(u, Released(ue[u])) PROVE ue' \in [Ues -> Ctx]
  <2>1. Released(ue[u]) \in Ctx
    BY ReleasedCtx DEF HandlerInv
  <2>. QED
    BY <1>4, <2>1 DEF UpdateUe, HandlerInv
<1>5. ASSUME NEW u \in Ues, GmmTimeout(u) PROVE HandlerInv'
  <2>1. ue' \in [Ues -> Ctx] /\ UNCHANGED <<todo, stage, link>>
    BY <1>4, <1>5 DEF GmmTimeout
  <2>. QED
    BY <2>1 DEF HandlerInv, AllPlanned
<1>6. CASE LinkDown \/ LinkUp \/ \E timers \in SUBSET armed : Expire(timers)
  <2>1. UNCHANGED <<todo, stage, ue>> /\ link' \in {"up", "down"}
    BY <1>6 DEF LinkDown, LinkUp, Expire, HandlerInv
  <2>. QED
    BY <2>1 DEF HandlerInv, AllPlanned
<1>7. CASE Tick
  <2>1. UNCHANGED <<todo, link>>
    BY <1>7 DEF Tick, Deliver, TimeoutBegins, TimeoutSends, TimeoutFires, TimeoutReturns
  <2>2. stage' \in {"none", "send", "fire", "return"}
    BY <1>7 DEF HandlerInv, Tick, Deliver, TimeoutBegins, TimeoutSends, TimeoutFires, TimeoutReturns
  <2>3. CASE TimeoutSends
    <3>1. PICK h : h = held[1]
      OBVIOUS
    <3>2. UpdateUe(h, Released(ue[h])) \/ UNCHANGED ue
      BY <2>3, <3>1 DEF TimeoutSends
    <3>3. h \notin Ues => [ue EXCEPT ![h] = Released(ue[h])] = ue
      BY DEF HandlerInv
    <3>4. ue' \in [Ues -> Ctx]
      BY <1>4, <3>2, <3>3 DEF HandlerInv, UpdateUe
    <3>. QED
      BY <2>1, <2>2, <3>4 DEF HandlerInv, AllPlanned
  <2>4. CASE ~TimeoutSends
    <3>1. UNCHANGED ue
      BY <1>7, <2>4 DEF Tick, Deliver, TimeoutBegins, TimeoutFires, TimeoutReturns
    <3>. QED
      BY <2>1, <2>2, <3>1 DEF HandlerInv, AllPlanned
  <2>. QED
    BY <2>3, <2>4
<1>. QED
  BY <1>1, <1>2, <1>3, <1>5, <1>6, <1>7 DEF Next

LEMMA HandlerInit == Init => HandlerInv
<1> SUFFICES ASSUME Init PROVE HandlerInv
  OBVIOUS
<1>1. AllPlanned
  BY EmptySeq DEF Init, AllPlanned, Planned
<1>. QED
  BY <1>1, CleanCtx DEF Init, HandlerInv

LEMMA HandlerHolds == Spec => []HandlerInv
BY HandlerInit, HandlerStep, PTL DEF Spec

-----------------------------------------------------------------------------
(* The FSM of a UE: its state and the sessions it counts.                   *)

LEMMA SetupPendingRows ==
  \A r \in Rows : r.to = "RESOURCE_SETUP_PENDING" =>
      \/ r.on = "SetupRequestSent"
      \/ r.from = "RESOURCE_SETUP_PENDING" /\ r.on = "UplinkNASTransport"
<1>1. \A r \in SetupRows : r.to = "RESOURCE_SETUP_PENDING" => r.on = "SetupRequestSent"
  BY DEF SetupRows, Row
<1>2. \A r \in ReleaseRows : r.to # "RESOURCE_SETUP_PENDING"
  BY DEF ReleaseRows, Row
<1>3. \A r \in EndRows : r.to = "RESOURCE_SETUP_PENDING" =>
          r.from = "RESOURCE_SETUP_PENDING" /\ r.on = "UplinkNASTransport"
  BY DEF EndRows, Row
<1>. QED
  BY <1>1, <1>2, <1>3 DEF Rows

\* An answer always has a row in RESOURCE_SETUP_PENDING.
LEMMA AnswerRow == Match("RESOURCE_SETUP_PENDING", "SetupResponse") # {}
<1>1. Row("RESOURCE_SETUP_PENDING", "SetupResponse", "ESTABLISHED", {}, {}) \in Rows
  BY DEF Rows, SetupRows
<1>. QED
  BY <1>1 DEF Match, Row

\* An event on the object of another UE, or on one that is not in the registry any
\* more, is not seen; the registered one enters RESOURCE_SETUP_PENDING by a request.
LEMMA FireOnReaches ==
  ASSUME Shape, NEW o \in Objs, NEW event, FireOn(o, event), NEW w \in Ues, UNCHANGED fsm,
         Reached(w)' = "RESOURCE_SETUP_PENDING"
  PROVE  \/ event = "SetupRequestSent" /\ o = <<w, fsm[w]>>
         \/ Reached(w) = "RESOURCE_SETUP_PENDING" /\ (o = <<w, fsm[w]>> => event # "SetupResponse")
<1>1. fsm[w] \in Gens /\ <<w, fsm[w]>> \in Objs /\ fsm'[w] = fsm[w]
      /\ fstate'[<<w, fsm[w]>>] = "RESOURCE_SETUP_PENDING"
  BY DEF Reached, Shape, Objs
<1>2. CASE Match(fstate[o], event) = {} /\ UNCHANGED <<fstate, armed>>
  BY <1>1, <1>2, AnswerRow, NgapAssumption DEF Reached
<1>3. CASE \E r \in Match(fstate[o], event) : Take(o, r)
  <2>1. PICK r \in Rows : Take(o, r) /\ r.from = fstate[o] /\ r.on = event
    BY <1>3 DEF Match
  <2>2. fstate' = [fstate EXCEPT ![o] = r.to]
    BY <2>1 DEF Take
  <2>3. CASE o = <<w, fsm[w]>>
    BY <1>1, <2>1, <2>2, <2>3, SetupPendingRows, NgapAssumption DEF Reached, Shape
  <2>4. CASE o # <<w, fsm[w]>>
    BY <1>1, <2>2, <2>4, NgapAssumption DEF Reached, Shape
  <2>. QED
    BY <2>3, <2>4
<1>. QED
  BY <1>2, <1>3 DEF FireOn

\* What an event of the FSM of u makes of the counts and of the states.
LEMMA FireCounts ==
  ASSUME Shape, pending \in [Objs -> Nat], NEW u \in Ues, NEW event, NEW n \in Nat,
         Fire(u, event, n)
  PROVE  /\ pending' \in [Objs -> Nat] /\ fsm' \in [Ues -> Gens \union {None}]
         /\ \A o \in Objs : pending'[o] = pending[o] \/ pending'[o] = n
         /\ Pending(u)' = n /\ \A w \in Ues \ {u} : Pending(w)' = Pending(w)
         /\ \A w \in Ues : Reached(w)' = "RESOURCE_SETUP_PENDING" =>
               \/ w = u /\ event = "SetupRequestSent"
               \/ Reached(w) = "RESOURCE_SETUP_PENDING" /\ (w = u => event # "SetupResponse")
<1>1. CASE \E o \in Objs : /\ o = <<u, fsm[u]>> /\ FireOn(o, event)
                           /\ pending' = [pending EXCEPT ![o] = n] /\ UNCHANGED fsm
  <2>1. PICK o \in Objs : /\ o = <<u, fsm[u]>> /\ FireOn(o, event)
                          /\ pending' = [pending EXCEPT ![o] = n] /\ UNCHANGED fsm
    BY <1>1
  <2>2. fsm[u] \in Gens /\ fsm'[u] = fsm[u] /\ fsm[u] # None
    BY <2>1, NgapAssumption DEF Objs
  <2>3. /\ pending' \in [Objs -> Nat] /\ fsm' \in [Ues -> Gens \union {None}]
        /\ \A x \in Objs : pending'[x] = pending[x] \/ pending'[x] = n
    BY <2>1 DEF Shape
  <2>4. Pending(u)' = n
    BY <2>1, <2>2 DEF Pending
  <2>5. ASSUME NEW w \in Ues \ {u} PROVE Pending(w)' = Pending(w)
    <3>1. o # <<w, fsm[w]>> /\ (fsm[w] # None => <<w, fsm[w]>> \in Objs)
      BY <2>1, <2>5 DEF Shape, Objs
    <3>. QED
      BY <2>1, <3>1 DEF Pending
  <2>6. ASSUME NEW w \in Ues, Reached(w)' = "RESOURCE_SETUP_PENDING"
        PROVE  \/ w = u /\ event = "SetupRequestSent"
               \/ Reached(w) = "RESOURCE_SETUP_PENDING" /\ (w = u => event # "SetupResponse")
    <3>1. \/ event = "SetupRequestSent" /\ o = <<w, fsm[w]>>
          \/ Reached(w) = "RESOURCE_SETUP_PENDING" /\ (o = <<w, fsm[w]>> => event # "SetupResponse")
      BY <2>1, <2>6, FireOnReaches
    <3>2. o = <<w, fsm[w]>> <=> w = u
      BY <2>1
    <3>. QED
      BY <3>1, <3>2
  <2>. QED
    BY <2>3, <2>4, <2>5, <2>6
<1>2. CASE \E o \in Objs :
              /\ NewObj(u, o)
              /\ \/ fstate' = [fstate EXCEPT ![o] = "NOT_ESTABLISHED"] /\ UNCHANGED armed
                 \/ \E r \in Match("NOT_ESTABLISHED", event) : Take(o, r)
              /\ pending' = [pending EXCEPT ![o] = n]
  <2>1. PICK o \in Objs :
              /\ NewObj(u, o)
              /\ \/ fstate' = [fstate EXCEPT ![o] = "NOT_ESTABLISHED"] /\ UNCHANGED armed
                 \/ \E r \in Match("NOT_ESTABLISHED", event) : Take(o, r)
              /\ pending' = [pending EXCEPT ![o] = n]
    BY <1>2
  <2>2. /\ o[1] = u /\ o[2] \in Gens /\ o = <<u, o[2]>> /\ o[2] # None
        /\ fsm' = [fsm EXCEPT ![u] = o[2]]
    BY <2>1, NgapAssumption DEF NewObj, Objs
  <2>3. /\ pending' \in [Objs -> Nat] /\ fsm' \in [Ues -> Gens \union {None}]
        /\ \A x \in Objs : pending'[x] = pending[x] \/ pending'[x] = n
        /\ fsm'[u] = o[2] /\ \A w \in Ues \ {u} : fsm'[w] = fsm[w]
    BY <2>1, <2>2 DEF Shape
  <2>4. Pending(u)' = n
    BY <2>1, <2>2, <2>3 DEF Pending
  <2>5. ASSUME NEW w \in Ues \ {u}
        PROVE  o # <<w, fsm[w]>> /\ (fsm[w] # None => <<w, fsm[w]>> \in Objs)
    BY <2>2, <2>5 DEF Shape, Objs
  <2>6. ASSUME NEW w \in Ues \ {u} PROVE Pending(w)' = Pending(w)
    BY <2>1, <2>3, <2>5, <2>6 DEF Pending
  <2>7. PICK s : fstate' = [fstate EXCEPT ![o] = s] /\ (s = "RESOURCE_SETUP_PENDING" => event = "SetupRequestSent")
    <3>1. CASE fstate' = [fstate EXCEPT ![o] = "NOT_ESTABLISHED"]
      <4>1. "NOT_ESTABLISHED" # "RESOURCE_SETUP_PENDING"
        OBVIOUS
      <4>. QED
        BY <3>1, <4>1, Zenon
    <3>2. CASE \E r \in Match("NOT_ESTABLISHED", event) : Take(o, r)
      <4>1. PICK r \in Rows : r.from = "NOT_ESTABLISHED" /\ r.on = event /\ Take(o, r)
        BY <3>2 DEF Match
      <4>2. fstate' = [fstate EXCEPT ![o] = r.to]
        BY <4>1 DEF Take
      <4>3. r.to = "RESOURCE_SETUP_PENDING" => event = "SetupRequestSent"
        BY <4>1, SetupPendingRows
      <4>. QED
        BY <4>2, <4>3
    <3>. QED
      BY <2>1, <3>1, <3>2
  <2>8. ASSUME NEW w \in Ues, Reached(w)' = "RESOURCE_SETUP_PENDING"
        PROVE  \/ w = u /\ event = "SetupRequestSent"
               \/ Reached(w) = "RESOURCE_SETUP_PENDING" /\ (w = u => event # "SetupResponse")
    <3>1. CASE w = u
      <4>1. fstate'[o] = "RESOURCE_SETUP_PENDING"
        BY <2>2, <2>3, <2>8, <3>1 DEF Reached
      <4>. QED
        BY <2>7, <3>1, <4>1 DEF Shape
    <3>2. CASE w # u
      BY <2>3, <2>5, <2>7, <2>8, <3>2 DEF Reached, Shape
    <3>. QED
      BY <3>1, <3>2
  <2>. QED
    BY <2>3, <2>4, <2>6, <2>8
<1>. QED
  BY <1>1, <1>2 DEF Fire

-----------------------------------------------------------------------------
(* The second layer, if no session is removed while its setup is unanswered: *)
(* the FSM counts no more sessions than the gNB owes answers.                *)

InHand(u, event) == IF First(u) = event THEN 1 ELSE 0

Counted(u) ==
    First(u) \notin Discarding =>
        Pending(u) + InHand(u, "SetupRequestSent") <= ue[u].setups + InHand(u, "SetupResponse")

PendingCounted(u) == Reached(u) = "RESOURCE_SETUP_PENDING" => Pending(u) > 0

CountInv ==
    /\ pending \in [Objs -> 0..MaxSetups]
    /\ \A u \in Ues : Counted(u) /\ PendingCounted(u)

LEMMA CountTypes ==
  ASSUME Shape, HandlerInv, CountInv, NEW u \in Ues
  PROVE  /\ Pending(u) \in 0..MaxSetups /\ Pending(u) \in Nat /\ MaxSetups \in Nat
         /\ ue[u].setups \in 0..MaxSetups /\ ue[u].setups \in Nat
         /\ pending \in [Objs -> Nat]
<1>1. MaxSetups \in Nat
  BY NgapAssumption
<1>2. fsm[u] # None => <<u, fsm[u]>> \in Objs
  BY DEF Shape, Objs
<1>3. Pending(u) \in 0..MaxSetups
  BY <1>1, <1>2 DEF CountInv, Pending
<1>4. ue[u].setups \in 0..MaxSetups
  BY CtxFields DEF HandlerInv
<1>. QED
  BY <1>1, <1>3, <1>4 DEF CountInv

\* A UE that a step leaves alone.
LEMMA CountFrame ==
  ASSUME CountInv, NEW w \in Ues, Pending(w)' = Pending(w), First(w)' = First(w),
         ue'[w].setups = ue[w].setups,
         Reached(w)' = "RESOURCE_SETUP_PENDING" => Reached(w) = "RESOURCE_SETUP_PENDING"
  PROVE  Counted(w)' /\ PendingCounted(w)'
BY DEF CountInv, Counted, PendingCounted, InHand, Discarding, Closing

\* A UE whose FSM has taken an event, with n sessions counted after it.
LEMMA CountFires ==
  ASSUME Shape, HandlerInv, CountInv, NEW u \in Ues, NEW event, NEW n \in 0..MaxSetups,
         Fire(u, event, n), First(u)' \notin {"SetupRequestSent", "SetupResponse"},
         OthersGoOn(u), UNCHANGED ue,
         First(u)' \notin Discarding => n <= ue[u].setups,
         event = "SetupRequestSent" => n > 0,
         event # "SetupResponse" => n >= Pending(u)
  PROVE  CountInv'
<1>0. pending \in [Objs -> Nat] /\ n \in Nat /\ \A w \in Ues : Pending(w) \in Nat
  BY CountTypes, NgapAssumption DEF CountInv
<1>1. /\ pending' \in [Objs -> Nat]
      /\ \A o \in Objs : pending'[o] = pending[o] \/ pending'[o] = n
      /\ Pending(u)' = n /\ \A w \in Ues \ {u} : Pending(w)' = Pending(w)
      /\ \A w \in Ues : Reached(w)' = "RESOURCE_SETUP_PENDING" =>
            \/ w = u /\ event = "SetupRequestSent"
            \/ Reached(w) = "RESOURCE_SETUP_PENDING" /\ (w = u => event # "SetupResponse")
  BY <1>0, FireCounts
<1>2. pending' \in [Objs -> 0..MaxSetups]
  BY <1>1 DEF CountInv
<1>3. Counted(u)' /\ PendingCounted(u)'
  <2>1. Counted(u)'
    <3>1. First(u)' \notin Discarding => n + 0 <= ue'[u].setups + 0
      BY <1>0, CountTypes
    <3>2. InHand(u, "SetupRequestSent")' = 0 /\ InHand(u, "SetupResponse")' = 0
      BY DEF InHand
    <3>. QED
      BY <1>1, <3>1, <3>2 DEF Counted, Discarding, Closing
  <2>2. PendingCounted(u)'
    BY <1>0, <1>1 DEF PendingCounted, CountInv
  <2>. QED
    BY <2>1, <2>2
<1>4. ASSUME NEW w \in Ues \ {u} PROVE Counted(w)' /\ PendingCounted(w)'
  BY <1>1, <1>4, CountFrame DEF OthersGoOn
<1>. QED
  BY <1>2, <1>3, <1>4 DEF CountInv

\* A handler fires an event.
LEMMA CountFiresEvent ==
  ASSUME Shape, HandlerInv, CountInv, NEW u \in Ues, FiresEvent(u)
  PROVE  CountInv'
<1>1. PICK event \in Events \ Expiries :
        /\ Call(u, event, <<>>)
        /\ CASE event = "SetupRequestSent" -> Fire(u, event, Pending(u) + 1)
             [] event = "SetupResponse" /\ AnswerFires(u) -> Fire(u, event, Answered(Pending(u)))
             [] event = "SetupResponse" /\ ~AnswerFires(u) ->
                    /\ <<u, fsm[u]>> # held
                    /\ pending' = [pending EXCEPT ![<<u, fsm[u]>>] = Answered(pending[<<u, fsm[u]>>])]
                    /\ UNCHANGED <<fsm, fstate, armed>>
             [] OTHER -> Fire(u, event, Pending(u))
  BY DEF FiresEvent
<1>2. UNCHANGED ue
  BY DEF FiresEvent
<1>3. /\ First(u) = event /\ OthersGoOn(u) /\ First(u)' \in Starts
      /\ First(u)' = "drop" <=> event \in Closing
  BY <1>1, CallGoesOn DEF HandlerInv
<1>4. PICK p \in 0..MaxSetups : p = Pending(u)
  BY CountTypes
<1>5. PICK m \in 0..MaxSetups : m = ue[u].setups
  BY CountTypes
<1>6. MaxSetups \in Nat /\ p \in Nat /\ m \in Nat
  BY NgapAssumption
<1>7. p + InHand(u, "SetupRequestSent") <= m + InHand(u, "SetupResponse") \/ event \in Closing
  <2>1. event # "drop"
    BY EventNames DEF KnownEvents
  <2>. QED
    BY <1>3, <1>4, <1>5, <2>1 DEF CountInv, Counted, Discarding
<1>8. /\ First(u)' \notin {"SetupRequestSent", "SetupResponse"}
      /\ First(u)' \in Discarding <=> event \in Closing
  BY <1>3 DEF Starts, Discarding, Closing
<1>9. CASE event = "SetupRequestSent"
  <2>1. p + 1 <= m
    BY <1>3, <1>6, <1>7, <1>9 DEF InHand, Closing
  <2>2. p + 1 \in 0..MaxSetups /\ p + 1 > 0 /\ p + 1 >= p
    BY <1>5, <1>6, <2>1
  <2>3. Fire(u, event, p + 1)
    BY <1>1, <1>4, <1>9
  <2>. QED
    BY <1>2, <1>3, <1>4, <1>5, <1>8, <1>9, <2>1, <2>2, <2>3, CountFires
<1>10. PICK n \in 0..MaxSetups : n = Answered(p) /\ (p > 1 => n > 0 /\ n + 1 = p) /\ n <= p
  BY <1>6 DEF Answered
<1>11. CASE event = "SetupResponse"
  <2>1. p <= m + 1
    BY <1>3, <1>6, <1>7, <1>11 DEF InHand, Closing
  <2>2. n <= m
    <3>1. p = 0 => n = 0
      BY <1>10 DEF Answered
    <3>2. p > 0 => n + 1 = p
      BY <1>6, <1>10 DEF Answered
    <3>. QED
      BY <1>6, <1>10, <2>1, <3>1, <3>2
  <2>3. CASE AnswerFires(u)
    <3>1. Fire(u, event, n)
      BY <1>1, <1>4, <1>10, <1>11, <2>3
    <3>. QED
      BY <1>2, <1>3, <1>4, <1>5, <1>8, <1>10, <1>11, <2>2, <3>1, CountFires
  <2>4. CASE ~AnswerFires(u)
    <3>1. p > 1 /\ n > 0
      BY <1>4, <1>6, <1>10, <2>4 DEF AnswerFires
    <3>2. fsm[u] # None /\ fsm[u] \in Gens /\ <<u, fsm[u]>> \in Objs /\ p = pending[<<u, fsm[u]>>]
      BY <1>4, <3>1 DEF Pending, Shape, Objs
    <3>3. pending' = [pending EXCEPT ![<<u, fsm[u]>>] = n] /\ UNCHANGED <<fsm, fstate>>
      BY <1>1, <1>10, <1>11, <2>4, <3>2
    <3>4. pending' \in [Objs -> 0..MaxSetups] /\ Pending(u)' = n
      BY <3>2, <3>3 DEF CountInv, Pending
    <3>5. \A w \in Ues : Reached(w)' = Reached(w)
      BY <3>3 DEF Reached
    <3>6. ASSUME NEW w \in Ues \ {u} PROVE Pending(w)' = Pending(w)
      <4>1. fsm[w] # None => <<w, fsm[w]>> \in Objs /\ <<w, fsm[w]>> # <<u, fsm[u]>>
        BY <3>6 DEF Shape, Objs
      <4>. QED
        BY <3>3, <4>1 DEF Pending, CountInv
    <3>7. ASSUME NEW w \in Ues \ {u} PROVE Counted(w)' /\ PendingCounted(w)'
      BY <1>2, <1>3, <3>5, <3>6, <3>7, CountFrame DEF OthersGoOn
    <3>8. InHand(u, "SetupRequestSent")' = 0 /\ InHand(u, "SetupResponse")' = 0
      BY <1>8 DEF InHand
    <3>9. Counted(u)' /\ PendingCounted(u)'
      BY <1>2, <1>5, <1>6, <2>2, <3>1, <3>4, <3>8 DEF Counted, PendingCounted
    <3>. QED
      BY <3>4, <3>7, <3>9 DEF CountInv
  <2>. QED
    BY <2>3, <2>4
<1>12. CASE event \notin {"SetupRequestSent", "SetupResponse"}
  <2>1. Fire(u, event, p)
    BY <1>1, <1>4, <1>12
  <2>2. event \in Closing \/ p <= m
    BY <1>3, <1>6, <1>7, <1>12 DEF InHand
  <2>3. p >= p
    BY <1>6
  <2>. QED
    BY <1>2, <1>3, <1>4, <1>5, <1>8, <1>12, <2>1, <2>2, <2>3, CountFires
<1>. QED
  BY <1>9, <1>11, <1>12

\* A handler drops the FSM of its UE, or sends.
LEMMA CountOtherCalls ==
  ASSUME Shape, HandlerInv, CountInv, NEW u \in Ues, Calls(u), ~FiresEvent(u)
  PROVE  CountInv'
<1>1. CASE DropsFsm(u)
  <2>1. /\ First(u)' \in Starts /\ First(u)' # "drop" /\ OthersGoOn(u)
    BY <1>1, CallGoesOn DEF DropsFsm, HandlerInv, Closing
  <2>2. fsm' = [fsm EXCEPT ![u] = None] /\ UNCHANGED <<fstate, pending, ue>>
    BY <1>1 DEF DropsFsm
  <2>3. fsm'[u] = None /\ \A w \in Ues \ {u} : fsm'[w] = fsm[w]
    BY <2>2 DEF Shape
  <2>4. \A w \in Ues \ {u} : Pending(w)' = Pending(w) /\ Reached(w)' = Reached(w)
    BY <2>2, <2>3 DEF Pending, Reached
  <2>5. \A w \in Ues \ {u} : Counted(w)' /\ PendingCounted(w)'
    BY <2>1, <2>2, <2>4, CountFrame DEF OthersGoOn
  <2>6. Pending(u)' = 0 /\ Reached(u)' = "NOT_ESTABLISHED"
    BY <2>3 DEF Pending, Reached
  <2>7. InHand(u, "SetupRequestSent")' = 0 /\ InHand(u, "SetupResponse")' = 0
    BY <2>1 DEF InHand, Starts
  <2>8. ue'[u].setups >= 0 /\ ue'[u].setups \in Nat
    BY <2>2, CountTypes
  <2>9. Counted(u)' /\ PendingCounted(u)'
    BY <2>6, <2>7, <2>8 DEF Counted, PendingCounted
  <2>. QED
    BY <2>2, <2>5, <2>9 DEF CountInv
<1>2. CASE Clears(u) \/ Checks(u) \/ SendsIcs(u) \/ SendsSetup(u) \/ SendsCommand(u)
  <2>1. Quietly /\ OthersGoOn(u)
    BY <1>2, SendsEffect
  <2>2. PICK v : SendEffect(u, v)
    BY <1>2, SendsEffect
  <2>3. \A w \in Ues : Pending(w)' = Pending(w) /\ Reached(w)' = Reached(w)
    BY <2>1 DEF Quietly, Pending, Reached
  <2>4. ue'[u] = v /\ \A w \in Ues \ {u} : ue'[w] = ue[w]
    BY <2>2 DEF SendEffect, HandlerInv
  <2>5. \A w \in Ues \ {u} : Counted(w)' /\ PendingCounted(w)'
    BY <2>1, <2>3, <2>4, CountFrame DEF OthersGoOn
  <2>6. Counted(u)'
    <3>1. PICK p \in Nat, m \in Nat : p = Pending(u) /\ m = ue[u].setups
      BY CountTypes
    <3>2. p <= m
      <4>1. InHand(u, "SetupRequestSent") = 0 /\ InHand(u, "SetupResponse") = 0 /\ First(u) \notin Discarding
        BY <2>2 DEF SendEffect, InHand
      <4>. QED
        BY <3>1, <4>1 DEF CountInv, Counted
    <3>3. Pending(u)' = p /\ ue'[u].setups = v.setups /\ InHand(u, "SetupResponse")' = 0
      BY <2>2, <2>3, <2>4, <3>1 DEF SendEffect, InHand
    <3>4. \/ v.setups = m /\ InHand(u, "SetupRequestSent")' = 0
          \/ v.setups = m + 1 /\ InHand(u, "SetupRequestSent")' = 1
      BY <2>2, <3>1 DEF SendEffect, InHand
    <3>. QED
      BY <3>2, <3>3, <3>4 DEF Counted
  <2>7. PendingCounted(u)'
    BY <2>3 DEF PendingCounted, CountInv
  <2>8. UNCHANGED pending
    BY <2>1 DEF Quietly
  <2>. QED
    BY <2>5, <2>6, <2>7, <2>8 DEF CountInv
<1>. QED
  BY <1>1, <1>2 DEF Calls

\* A message, or the loss of the association.
LEMMA CountMessages ==
  ASSUME "gone" \notin Env, Shape, HandlerInv, CountInv,
         NEW u \in Ues, Messages(u) \/ Cascade(u)
  PROVE  CountInv'
<1>1. PICK v, calls : Handle(u, v, calls) /\ Effect(u, v, calls)
  BY MessageEffect
<1>2. First(u)' = FirstOf(calls) /\ OthersGoOn(u)
  BY <1>1, HandlePlans DEF Effect, HandlerInv
<1>3. UNCHANGED <<fsm, fstate, pending>>
  BY <1>1 DEF Handle, Quietly
<1>4. \A w \in Ues : Pending(w)' = Pending(w) /\ Reached(w)' = Reached(w)
  BY <1>3 DEF Pending, Reached
<1>5. ue'[u] = v /\ \A w \in Ues \ {u} : ue'[w] = ue[w]
  BY <1>1 DEF Handle, UpdateUe, HandlerInv
<1>6. \A w \in Ues \ {u} : Counted(w)' /\ PendingCounted(w)'
  BY <1>2, <1>4, <1>5, CountFrame DEF OthersGoOn
<1>7. Counted(u)'
  <2>1. PICK p \in Nat, m \in Nat : p = Pending(u) /\ m = ue[u].setups
    BY CountTypes
  <2>2. InHand(u, "SetupRequestSent")' = 0
    BY <1>1, <1>2 DEF Effect, InHand
  <2>3. v.setups \in Nat
    BY <1>1, CtxFields, NgapAssumption DEF Effect
  <2>4. Pending(u)' = p /\ ue'[u].setups = v.setups
    BY <1>4, <1>5, <2>1
  <2>5. CASE First(u)' \in Discarding
    BY <2>5 DEF Counted, Discarding, Closing
  <2>6. CASE fsm[u] = None
    <3>1. p = 0 /\ InHand(u, "SetupResponse")' \in Nat
      BY <2>1, <2>6 DEF Pending, InHand
    <3>. QED
      BY <2>2, <2>3, <2>4, <3>1 DEF Counted
  <2>7. CASE /\ todo[u] = <<>>
             /\ \/ v.setups = ue[u].setups
                \/ v.setups = ue[u].setups - 1 /\ FirstOf(calls) = "SetupResponse"
    <3>1. First(u) = "none"
      BY <2>7 DEF First, FirstOf
    <3>2. p <= m
      <4>1. InHand(u, "SetupRequestSent") = 0 /\ InHand(u, "SetupResponse") = 0 /\ First(u) \notin Discarding
        BY <3>1 DEF InHand, Discarding, Closing
      <4>. QED
        BY <2>1, <4>1 DEF CountInv, Counted
    <3>3. \/ v.setups = m /\ InHand(u, "SetupResponse")' \in Nat
          \/ v.setups = m - 1 /\ InHand(u, "SetupResponse")' = 1
      BY <1>2, <2>1, <2>7 DEF InHand
    <3>. QED
      BY <2>2, <2>3, <2>4, <3>2, <3>3 DEF Counted
  <2>. QED
    BY <1>1, <1>2, <2>5, <2>6, <2>7 DEF Effect
<1>8. PendingCounted(u)'
  BY <1>4 DEF PendingCounted, CountInv
<1>. QED
  BY <1>3, <1>6, <1>7, <1>8 DEF CountInv

\* The release of a UE keeps what is counted.
LEMMA ReleaseCounts ==
  ASSUME HandlerInv, NEW h, UpdateUe(h, Released(ue[h])), NEW w \in Ues
  PROVE  ue'[w].setups = ue[w].setups /\ ue'[w].ics = ue[w].ics
<1>1. CASE h = w
  <2>1. PICK c \in Ctx : c = ue[w]
    BY DEF HandlerInv
  <2>2. ue'[w] = Released(c)
    BY <1>1, <2>1 DEF HandlerInv, UpdateUe
  <2>. QED
    BY <2>1, <2>2, ReleasedCtx
<1>2. CASE h # w
  <2>1. ue'[w] = ue[w]
    BY <1>2 DEF HandlerInv, UpdateUe
  <2>. QED
    BY <2>1
<1>. QED
  BY <1>1, <1>2

\* A release that a callback orders, and the callback of an expiry.
LEMMA CountCallbacks ==
  ASSUME IInv, HandlerInv, CountInv, Tick \/ \E u \in Ues : GmmTimeout(u)
  PROVE  CountInv'
<1>0. Shape /\ UNCHANGED todo
  BY DEF IInv, Tick, Deliver, TimeoutBegins, TimeoutSends, TimeoutFires, TimeoutReturns, GmmTimeout
<1>1. \A w \in Ues : First(w)' = First(w)
  BY <1>0 DEF First
<1>2. ASSUME UNCHANGED pending, \A w \in Ues : Pending(w)' = Pending(w),
             \A w \in Ues : ue'[w].setups = ue[w].setups,
             \A w \in Ues : Reached(w)' = "RESOURCE_SETUP_PENDING" => Reached(w) = "RESOURCE_SETUP_PENDING"
      PROVE  CountInv'
  BY <1>1, <1>2, CountFrame DEF CountInv
<1>3. ASSUME NEW u \in Ues, Fire(u, "UECtxReleaseCommand", Pending(u)),
             \A w \in Ues : ue'[w].setups = ue[w].setups
      PROVE  CountInv'
  <2>1. PICK n \in 0..MaxSetups : n = Pending(u)
    BY <1>0, CountTypes
  <2>2. n \in Nat /\ pending \in [Objs -> Nat]
    BY NgapAssumption DEF CountInv
  <2>3. Fire(u, "UECtxReleaseCommand", n)
    BY <1>3, <2>1
  <2>4. /\ pending' \in [Objs -> Nat]
        /\ \A o \in Objs : pending'[o] = pending[o] \/ pending'[o] = n
        /\ Pending(u)' = n /\ \A w \in Ues \ {u} : Pending(w)' = Pending(w)
        /\ \A w \in Ues : Reached(w)' = "RESOURCE_SETUP_PENDING" => Reached(w) = "RESOURCE_SETUP_PENDING"
    BY <1>0, <2>2, <2>3, FireCounts
  <2>5. pending' \in [Objs -> 0..MaxSetups]
    BY <2>4 DEF CountInv
  <2>6. \A w \in Ues : Pending(w)' = Pending(w)
    BY <2>1, <2>4
  <2>. QED
    BY <1>1, <1>3, <2>4, <2>5, <2>6, CountFrame DEF CountInv
<1>4. ASSUME NEW o \in Objs, NEW event \in Expiries, FireOn(o, event), UNCHANGED <<fsm, pending, ue>>
      PROVE  CountInv'
  <2>1. \A w \in Ues : Reached(w)' = "RESOURCE_SETUP_PENDING" => Reached(w) = "RESOURCE_SETUP_PENDING"
    BY <1>0, <1>4, FireOnReaches DEF Expiries
  <2>2. \A w \in Ues : Pending(w)' = Pending(w)
    BY <1>4 DEF Pending
  <2>. QED
    BY <1>2, <1>4, <2>1, <2>2
<1>5. ASSUME NEW u \in Ues, GmmTimeout(u) PROVE CountInv'
  BY <1>3, <1>5, ReleaseCounts DEF GmmTimeout
<1>6. ASSUME NEW t \in due, Deliver(t) PROVE CountInv'
  <2>1. t[1] \in Objs /\ t[2] \in Expiries
    BY <1>0 DEF Shape
  <2>. QED
    BY <1>4, <1>6, <2>1 DEF Deliver
<1>7. ASSUME NEW t \in due, TimeoutBegins(t) PROVE CountInv'
  <2>1. UNCHANGED <<fsm, fstate, pending, ue>>
    BY <1>7 DEF TimeoutBegins
  <2>. QED
    BY <1>2, <2>1 DEF Pending, Reached
<1>8. CASE TimeoutSends
  <2>1. UNCHANGED <<fsm, fstate, pending>>
    BY <1>8 DEF TimeoutSends
  <2>2. PICK h : h = held[1]
    OBVIOUS
  <2>3. UpdateUe(h, Released(ue[h])) \/ UNCHANGED ue
    BY <1>8, <2>2 DEF TimeoutSends
  <2>4. \A w \in Ues : ue'[w].setups = ue[w].setups
    BY <2>3, ReleaseCounts
  <2>. QED
    BY <1>2, <2>1, <2>4 DEF Pending, Reached
<1>9. CASE TimeoutFires
  <2>1. PICK h \in Ues : h = held[1]
    BY <1>9 DEF IInv, Shape, HeldIsDue, TimeoutFires, Objs
  <2>2. Fire(h, "UECtxReleaseCommand", Pending(h)) /\ UNCHANGED ue
    BY <1>9, <2>1 DEF TimeoutFires
  <2>. QED
    BY <1>3, <2>2
<1>10. CASE TimeoutReturns
  <2>1. PICK h \in Objs : h = held
    BY <1>10 DEF IInv, Shape, HeldIsDue, TimeoutReturns
  <2>2. FireOn(h, "TICSExpired") /\ UNCHANGED <<fsm, pending, ue>>
    BY <1>10, <2>1 DEF TimeoutReturns
  <2>. QED
    BY <1>4, <2>2 DEF Expiries
<1>. QED
  BY <1>5, <1>6, <1>7, <1>8, <1>9, <1>10 DEF Tick

LEMMA CountStep ==
  ASSUME "gone" \notin Env, IInv, HandlerInv, CountInv, [Next]_vars PROVE CountInv'
<1>0. Shape
  BY DEF IInv
<1>1. ASSUME UNCHANGED <<fsm, fstate, pending, todo, ue>> PROVE CountInv'
  <2>1. \A w \in Ues : /\ Pending(w)' = Pending(w) /\ First(w)' = First(w)
                       /\ Reached(w)' = Reached(w) /\ ue'[w].setups = ue[w].setups
    BY <1>1 DEF Pending, First, Reached
  <2>. QED
    BY <1>1, <2>1, CountFrame DEF CountInv
<1>2. CASE UNCHANGED vars \/ LinkDown \/ LinkUp \/ \E timers \in SUBSET armed : Expire(timers)
  BY <1>1, <1>2 DEF vars, LinkDown, LinkUp, Expire
<1>. QED
  BY <1>0, <1>2, CountFiresEvent, CountOtherCalls, CountMessages, CountCallbacks DEF Next

LEMMA CountInit == Init => CountInv
<1> SUFFICES ASSUME Init PROVE CountInv
  OBVIOUS
<1>1. pending \in [Objs -> 0..MaxSetups]
  BY NgapAssumption DEF Init
<1>2. ASSUME NEW u \in Ues PROVE Counted(u) /\ PendingCounted(u)
  <2>1. Pending(u) = 0 /\ Reached(u) = "NOT_ESTABLISHED" /\ ue[u].setups = 0 /\ First(u) = "none"
    BY CleanCtx DEF Init, Pending, Reached, First, FirstOf
  <2>2. InHand(u, "SetupRequestSent") = 0 /\ InHand(u, "SetupResponse") = 0
    BY <2>1 DEF InHand
  <2>. QED
    BY <2>1, <2>2 DEF Counted, PendingCounted
<1>. QED
  BY <1>1, <1>2 DEF CountInv

LEMMA CountHolds == ASSUME "gone" \notin Env PROVE Spec => [](IInv /\ HandlerInv /\ CountInv)
<1>1. IInv /\ HandlerInv /\ CountInv /\ [Next]_vars => CountInv'
  BY CountStep
<1>. QED
  BY <1>1, CountInit, Inductive, HandlerHolds, PTL DEF Spec

\* The AMF side of a gNB stays in its types; no FSM counts more sessions than MaxSetups,
\* the most the gNB owes answers for, unless a session goes away uncounted.
THEOREM TypeCorrect == ASSUME "gone" \notin Env PROVE Spec => []TypeOK
<1>1. IInv /\ HandlerInv /\ CountInv => TypeOK
  BY DEF IInv, Shape, HandlerInv, AllPlanned, CountInv, TypeOK, Op
<1>. QED
  BY <1>1, CountHolds, PTL

\* An FSM that has no handler running stays in RESOURCE_SETUP_PENDING only while the gNB
\* owes an answer, with releases, lost links, crossing and late messages and the race of
\* a callback with a sender all allowed.
THEOREM SetupOwed == ASSUME "gone" \notin Env PROVE Spec => []SetupPendingIsOwed
<1>1. IInv /\ HandlerInv /\ CountInv => SetupPendingIsOwed
  <2> SUFFICES ASSUME IInv, HandlerInv, CountInv, NEW u \in Ues, Idle(u),
                      Reached(u) = "RESOURCE_SETUP_PENDING"
               PROVE  ue[u].setups > 0
    BY DEF SetupPendingIsOwed
  <2>1. First(u) = "none"
    BY DEF Idle, First, FirstOf
  <2>2. InHand(u, "SetupRequestSent") = 0 /\ InHand(u, "SetupResponse") = 0 /\ First(u) \notin Discarding
    BY <2>1 DEF InHand, Discarding, Closing
  <2>3. PICK p \in Nat, m \in Nat : p = Pending(u) /\ m = ue[u].setups
    BY CountTypes DEF IInv
  <2>4. p > 0 /\ p + 0 <= m + 0
    BY <2>2, <2>3 DEF CountInv, Counted, PendingCounted
  <2>. QED
    BY <2>3, <2>4
<1>. QED
  BY <1>1, CountHolds, PTL

-----------------------------------------------------------------------------
(* The third layer, if no answer crosses a release and no callback comes     *)
(* between the check of a sender and its send, or before a handler has reset *)
(* NGAPProc.                                                                *)

\* What a sender has checked still holds when it sends; a release in progress is
\* marked, and no handler is about to take the mark away.
Checked(u) ==
    /\ ue[u].conn = "releasing" => ue[u].proc = "release" /\ ~Clearing(u)
    /\ First(u) \in Sends => ue[u].proc # "release"

ReleaseInv == \A u \in Ues : Checked(u)

\* A step adds no answer to those a UE under release owes.
AddsNothing(u) ==
    ue[u].conn = "releasing" /\ ue'[u].conn = "releasing" =>
        ue'[u].setups <= ue[u].setups /\ (ue'[u].ics => ue[u].ics)

Ordered(u) == Checked(u)' /\ AddsNothing(u)

\* A step that adds nothing to a UE.
LEMMA Adding ==
  ASSUME HandlerInv, NEW u \in Ues, NEW v \in Ctx, ue'[u] = v,
         v.setups <= ue[u].setups, v.ics = No \/ v.ics = ue[u].ics
  PROVE  AddsNothing(u)
<1>1. v.ics => ue[u].ics
  BY Zenon DEF No
<1>. QED
  BY <1>1, Zenon DEF AddsNothing

\* A UE that a step leaves alone.
LEMMA OrderFrame ==
  ASSUME HandlerInv, ReleaseInv, NEW w \in Ues, First(w)' = First(w), ue'[w] = ue[w],
         Clearing(w)' => Clearing(w)
  PROVE  Ordered(w)
<1>1. PICK c \in Ctx : c = ue[w]
  BY DEF HandlerInv
<1>2. c.setups \in Nat
  BY CtxFields, NgapAssumption
<1>3. c.setups <= ue[w].setups /\ c.ics = ue[w].ics /\ ue'[w] = c
  BY <1>1, <1>2
<1>4. AddsNothing(w)
  BY <1>3, Adding
<1>5. Checked(w)'
  BY DEF ReleaseInv, Checked
<1>. QED
  BY <1>4, <1>5 DEF Ordered

\* A handler goes on.
LEMMA OrderCalls ==
  ASSUME HandlerInv, ReleaseInv, NEW u \in Ues, Calls(u)
  PROVE  \A w \in Ues : Ordered(w)
<1>0. PICK c \in Ctx : c = ue[u]
  BY DEF HandlerInv
<1>1. c.setups \in Nat
  BY <1>0, CtxFields, NgapAssumption
<1>2. CASE FiresEvent(u) \/ DropsFsm(u)
  <2>1. PICK op : Call(u, op, <<>>) /\ UNCHANGED ue
    BY <1>2 DEF FiresEvent, DropsFsm
  <2>2. First(u)' \in Starts /\ OthersGoOn(u) /\ (Clearing(u)' => Clearing(u))
    BY <2>1, CallGoesOn DEF HandlerInv
  <2>3. Checked(u)'
    BY <2>1, <2>2 DEF Checked, ReleaseInv, Starts, Sends
  <2>4. ue'[u] = c /\ c.setups <= ue[u].setups /\ c.ics = ue[u].ics
    BY <1>0, <1>1, <2>1
  <2>5. AddsNothing(u)
    BY <2>4, Adding
  <2>. QED
    BY <2>1, <2>2, <2>3, <2>5, OrderFrame DEF OthersGoOn, Ordered
<1>3. CASE Clears(u) \/ Checks(u) \/ SendsIcs(u) \/ SendsSetup(u) \/ SendsCommand(u)
  <2>1. OthersGoOn(u)
    BY <1>3, SendsEffect
  <2>2. PICK v : SendEffect(u, v)
    BY <1>3, SendsEffect
  <2>3. v \in Ctx /\ ue'[u] = v /\ \A w \in Ues \ {u} : ue'[w] = ue[w]
    BY <2>2 DEF SendEffect, HandlerInv
  <2>4. \A w \in Ues \ {u} : Ordered(w)
    BY <2>1, <2>3, OrderFrame DEF OthersGoOn
  <2>5. /\ v.conn = "releasing" =>
              (v.proc = "release" /\ ~Clearing(u)') \/ (v.conn = c.conn /\ (v = c \/ First(u) \in Sends \union {"clear"}))
        /\ First(u) = "clear" => Clearing(u)
        /\ Clearing(u)' => Clearing(u)
    BY <1>0, <2>2 DEF SendEffect
  <2>6. /\ c.conn = "releasing" => c.proc = "release" /\ ~Clearing(u)
        /\ First(u) \in Sends => c.proc # "release"
    BY <1>0 DEF ReleaseInv, Checked
  <2>7. Checked(u)'
    <3>1. v.conn = "releasing" => v.proc = "release" /\ ~Clearing(u)'
      BY <2>5, <2>6
    <3>2. First(u)' \in Sends => v.proc # "release"
      BY <2>2 DEF SendEffect
    <3>. QED
      BY <2>3, <3>1, <3>2 DEF Checked
  <2>8. First(u) \in Sends => AddsNothing(u)
    BY <1>0, <2>6 DEF AddsNothing
  <2>9. ASSUME First(u) \notin Sends PROVE AddsNothing(u)
    <3>1. v.setups = ue[u].setups /\ v.ics = ue[u].ics
      BY <2>2, <2>9 DEF SendEffect
    <3>2. v.setups <= ue[u].setups
      BY <1>0, <1>1, <3>1
    <3>. QED
      BY <2>3, <3>1, <3>2, Adding
  <2>. QED
    BY <2>4, <2>7, <2>8, <2>9 DEF Ordered
<1>. QED
  BY <1>2, <1>3 DEF Calls

\* A message, or the loss of the association.
LEMMA OrderMessages ==
  ASSUME "late" \notin Env, HandlerInv, ReleaseInv, NEW u \in Ues, Messages(u) \/ Cascade(u)
  PROVE  \A w \in Ues : Ordered(w)
<1>1. PICK v, calls : Handle(u, v, calls) /\ Effect(u, v, calls)
  BY MessageEffect
<1>2. First(u)' = FirstOf(calls) /\ OthersGoOn(u) /\ (Clearing(u)' => Resetting(calls))
  BY <1>1, HandlePlans DEF Effect, HandlerInv
<1>3. ue'[u] = v /\ \A w \in Ues \ {u} : ue'[w] = ue[w]
  BY <1>1 DEF Handle, UpdateUe, HandlerInv
<1>4. \A w \in Ues \ {u} : Ordered(w)
  BY <1>2, <1>3, OrderFrame DEF OthersGoOn
<1>5. First(u)' \notin Sends
  BY <1>1, <1>2 DEF Effect, KnownEvents, Sends
<1>6. v.conn = "releasing" =>
        ue[u].conn = "releasing" /\ v.proc = ue[u].proc /\ ~Resetting(calls)
  BY <1>1 DEF Effect
<1>7. Checked(u)'
  BY <1>2, <1>3, <1>5, <1>6 DEF ReleaseInv, Checked
<1>8. v \in Ctx /\ v.setups <= ue[u].setups /\ (v.ics = No \/ v.ics = ue[u].ics)
  BY <1>1 DEF Effect
<1>. QED
  BY <1>3, <1>4, <1>7, <1>8, Adding DEF Ordered

\* A callback orders the release of a UE whose handler is not about to send, nor to
\* reset NGAPProc.
LEMMA OrderRelease ==
  ASSUME HandlerInv, ReleaseInv, NEW u \in Ues, UpdateUe(u, Released(ue[u])), UNCHANGED todo,
         ~Sending(u), ~Clearing(u)
  PROVE  \A w \in Ues : Ordered(w)
<1>1. PICK c \in Ctx : c = ue[u]
  BY DEF HandlerInv
<1>2. PICK v \in Ctx : v = Released(c) /\ v.proc = "release" /\ v.setups = c.setups /\ v.ics = c.ics
  BY ReleasedCtx
<1>3. ue'[u] = v /\ \A w \in Ues \ {u} : ue'[w] = ue[w]
  BY <1>1, <1>2 DEF UpdateUe, HandlerInv
<1>4. \A w \in Ues : First(w)' = First(w) /\ (Clearing(w)' <=> Clearing(w))
  BY DEF First, Clearing
<1>5. First(u) \notin Sends
  BY DEF Sending, First, FirstOf, Sends
<1>6. Checked(u)'
  BY <1>2, <1>3, <1>4, <1>5 DEF Checked
<1>7. v.setups <= ue[u].setups /\ v.ics = ue[u].ics
  BY <1>1, <1>2, CtxFields, NgapAssumption
<1>. QED
  BY <1>3, <1>4, <1>6, <1>7, Adding, OrderFrame DEF Ordered

LEMMA OrderStep ==
  ASSUME "late" \notin Env, "race" \notin Env, IInv, HandlerInv, ReleaseInv, [Next]_vars
  PROVE  \A w \in Ues : Ordered(w)
<1>1. ASSUME UNCHANGED <<todo, ue>> PROVE \A w \in Ues : Ordered(w)
  <2>1. \A w \in Ues : First(w)' = First(w) /\ ue'[w] = ue[w] /\ (Clearing(w)' <=> Clearing(w))
    BY <1>1 DEF First, Clearing
  <2>. QED
    BY <2>1, OrderFrame
<1>2. CASE UNCHANGED vars \/ LinkDown \/ LinkUp \/ \E timers \in SUBSET armed : Expire(timers)
  BY <1>1, <1>2 DEF vars, LinkDown, LinkUp, Expire
<1>3. ASSUME NEW u \in Ues, GmmTimeout(u) PROVE \A w \in Ues : Ordered(w)
  BY <1>3, OrderRelease DEF GmmTimeout, MayRelease
<1>4. CASE TimeoutSends
  <2>1. PICK h \in Ues : h = held[1]
    BY <1>4 DEF IInv, Shape, HeldIsDue, TimeoutSends, Objs
  <2>2. UNCHANGED todo /\ ~Sending(h) /\ ~Clearing(h)
    BY <1>4, <2>1 DEF TimeoutSends, MayRelease
  <2>3. UpdateUe(h, Released(ue[h])) \/ UNCHANGED ue
    BY <1>4, <2>1 DEF TimeoutSends
  <2>. QED
    BY <1>1, <2>2, <2>3, OrderRelease
<1>5. CASE Tick /\ ~TimeoutSends
  <2>1. UNCHANGED <<todo, ue>>
    BY <1>5 DEF Tick, Deliver, TimeoutBegins, TimeoutFires, TimeoutReturns
  <2>. QED
    BY <1>1, <2>1
<1>. QED
  BY <1>2, <1>3, <1>4, <1>5, OrderCalls, OrderMessages DEF Next

LEMMA ReleaseInit == Init => ReleaseInv
<1> SUFFICES ASSUME Init, NEW u \in Ues PROVE Checked(u)
  BY DEF ReleaseInv
<1>1. ue[u].conn = "none" /\ First(u) = "none"
  BY CleanCtx DEF Init, First, FirstOf
<1>. QED
  BY <1>1 DEF Checked, Sends

\* Once the AMF has ordered the release of a connection, no context and no session is set
\* up on it before it ends, whatever handlers and callbacks overlap, if no answer of the
\* gNB crosses the release and no callback comes between a sender's check and its send, or
\* before the handler of a release request or a new connection has reset NGAPProc.
THEOREM NoSetupReleased ==
  ASSUME "late" \notin Env, "race" \notin Env
  PROVE  Spec => NoSetupDuringRelease
<1>1. IInv /\ HandlerInv /\ ReleaseInv /\ [Next]_vars => ReleaseInv'
  BY OrderStep DEF ReleaseInv, Ordered
<1>2. IInv /\ HandlerInv /\ [Next]_vars /\ ReleaseInv =>
        [\A u \in Ues :
            ue[u].conn = "releasing" /\ ue'[u].conn = "releasing" =>
                ue'[u].setups <= ue[u].setups /\ (ue'[u].ics => ue[u].ics)]_vars
  BY OrderStep DEF Ordered, AddsNothing
<1>. QED
  BY <1>1, <1>2, ReleaseInit, Inductive, HandlerHolds, PTL DEF Spec, NoSetupDuringRelease
=============================================================================
