--------------------------- MODULE GmmCalls_proofs ---------------------------
(***************************************************************************)
(* Proofs about Gmm, continued: what the handlers make of the context of    *)
(* the UE and of its FSM.  The invariant is built in layers, each with the   *)
(* environment it needs: the types and the calls a handler still has to      *)
(* make (any environment); RM and the FSM (no pass of the tick goroutine     *)
(* overlaps a handler); rejections (and no message crosses a release); the   *)
(* guards (and no request collides with a procedure); what is retransmitted  *)
(* (and no send fails).                                                     *)
(***************************************************************************)
EXTENDS Gmm_proofs, SequenceTheorems

-----------------------------------------------------------------------------
(* The context of the UE: its fields and their updates.                     *)

N2s == {"connected", "releasing", "idle"}
Rms == {"REGISTERED", "DEREGISTERED"}
Procs == {"none", "registration", "deregistration"}
Pdus == {"none", "idreq", "authreq", "smc", "accept"}
Calm == {"DEREGISTERED", "REGISTERED"}
KeyKinds == {"none", "operative", "unconfirmed"}

\* A name the provers do not look into.
No == FALSE

\* v is c but for what the invariants do not mention, and for the fields listed.
Changes(c, v, fields) ==
    /\ v \in Ctx
    /\ "present" \in fields \/ v.present = c.present
    /\ "n2" \in fields \/ v.n2 = c.n2
    /\ "rm" \in fields \/ v.rm = c.rm
    /\ "proc" \in fields \/ v.proc = c.proc
    /\ "retx" \in fields \/ v.retx = c.retx
    /\ "authRetry" \in fields \/ v.authRetry = c.authRetry
    /\ "hardRemove" \in fields \/ v.hardRemove = c.hardRemove

LEMMA Chain ==
  ASSUME NEW c, NEW v, NEW w, NEW S, NEW T, Changes(c, v, S), Changes(v, w, T)
  PROVE  Changes(c, w, S \union T)
BY DEF Changes

LEMMA CtxFields ==
  ASSUME NEW c \in Ctx
  PROVE  /\ c.n2 \in N2s /\ c.rm \in Rms /\ c.proc \in Procs /\ c.retx \in Pdus
         /\ c.authRetry \in 0..MaxAuthRetries
         /\ c.present \in BOOLEAN /\ c.hardRemove \in BOOLEAN
         /\ Changes(c, c, {})
BY DEF Ctx, N2s, Rms, Procs, Pdus, Changes

WithPresent(c, x) == [c EXCEPT !.present = x]
WithN2(c, x) == [c EXCEPT !.n2 = x]
WithRm(c, x) == [c EXCEPT !.rm = x]
WithProc(c, x) == [c EXCEPT !.proc = x]
WithRetx(c, x) == [c EXCEPT !.retx = x]
WithRetry(c, x) == [c EXCEPT !.authRetry = x]
WithHard(c, x) == [c EXCEPT !.hardRemove = x]
WithLast(c, x) == [c EXCEPT !.last = x]
WithIndexed(c, x) == [c EXCEPT !.indexed = x]
WithDone(c, x) == [c EXCEPT !.authDone = x]
WithKeys(c, x) == [c EXCEPT !.keys = x]
WithPending(c, x) == [c EXCEPT !.pending = x]
WithActivated(c, x) == [c EXCEPT !.activated = x]

LEMMA PresentUpdate ==
  ASSUME NEW c \in Ctx, NEW x \in BOOLEAN
  PROVE  Changes(c, WithPresent(c, x), {"present"}) /\ WithPresent(c, x).present = x
BY DEF Ctx, Changes, WithPresent

LEMMA N2Update ==
  ASSUME NEW c \in Ctx, NEW x \in N2s
  PROVE  Changes(c, WithN2(c, x), {"n2"}) /\ WithN2(c, x).n2 = x
BY DEF Ctx, Changes, WithN2, N2s

LEMMA RmUpdate ==
  ASSUME NEW c \in Ctx, NEW x \in Rms
  PROVE  Changes(c, WithRm(c, x), {"rm"}) /\ WithRm(c, x).rm = x
BY DEF Ctx, Changes, WithRm, Rms

LEMMA ProcUpdate ==
  ASSUME NEW c \in Ctx, NEW x \in Procs
  PROVE  Changes(c, WithProc(c, x), {"proc"}) /\ WithProc(c, x).proc = x
BY DEF Ctx, Changes, WithProc, Procs

LEMMA RetxUpdate ==
  ASSUME NEW c \in Ctx, NEW x \in Pdus
  PROVE  Changes(c, WithRetx(c, x), {"retx"}) /\ WithRetx(c, x).retx = x
BY DEF Ctx, Changes, WithRetx, Pdus

LEMMA RetryUpdate ==
  ASSUME NEW c \in Ctx, NEW x \in 0..MaxAuthRetries
  PROVE  Changes(c, WithRetry(c, x), {"authRetry"}) /\ WithRetry(c, x).authRetry = x
BY DEF Ctx, Changes, WithRetry

LEMMA HardUpdate ==
  ASSUME NEW c \in Ctx, NEW x \in BOOLEAN
  PROVE  Changes(c, WithHard(c, x), {"hardRemove"}) /\ WithHard(c, x).hardRemove = x
BY DEF Ctx, Changes, WithHard

LEMMA LastUpdate ==
  ASSUME NEW c \in Ctx, NEW x \in Requests \union {"none"}
  PROVE  Changes(c, WithLast(c, x), {})
BY DEF Ctx, Changes, WithLast

LEMMA IndexedUpdate ==
  ASSUME NEW c \in Ctx, NEW x \in BOOLEAN
  PROVE  Changes(c, WithIndexed(c, x), {})
BY DEF Ctx, Changes, WithIndexed

LEMMA DoneUpdate ==
  ASSUME NEW c \in Ctx, NEW x \in BOOLEAN
  PROVE  Changes(c, WithDone(c, x), {})
BY DEF Ctx, Changes, WithDone

LEMMA KeysUpdate ==
  ASSUME NEW c \in Ctx, NEW x \in KeyKinds
  PROVE  Changes(c, WithKeys(c, x), {})
BY DEF Ctx, Changes, WithKeys, KeyKinds

LEMMA PendingUpdate ==
  ASSUME NEW c \in Ctx, NEW x \in BOOLEAN
  PROVE  Changes(c, WithPending(c, x), {})
BY DEF Ctx, Changes, WithPending

LEMMA ActivatedUpdate ==
  ASSUME NEW c \in Ctx, NEW x \in BOOLEAN
  PROVE  Changes(c, WithActivated(c, x), {})
BY DEF Ctx, Changes, WithActivated

-----------------------------------------------------------------------------
(* What a handler still has to call: at most two calls.                     *)

FirstOf(s) == IF s = <<>> THEN "none" ELSE s[1]
ThenOf(s) == IF Len(s) > 1 THEN s[2] ELSE "none"

First == FirstOf(todo)
Then == ThenOf(todo)

Calling(s, a, b) == s \in Seq(Said) /\ Len(s) <= 2 /\ FirstOf(s) = a /\ ThenOf(s) = b

LEMMA SaidNames ==
  /\ "none" \notin Said /\ Ops \subseteq Said
  /\ Said \intersect Expiries = {} /\ "ConfigUpdateCommandSent" \notin Said
BY DEF Said, Ops, Expiries, TimerOf

LEMMA Tuples ==
  /\ Calling(<<>>, "none", "none")
  /\ \A a \in Said : Calling(<<a>>, a, "none")
  /\ \A a, b \in Said : Calling(<<a, b>>, a, b)
<1>1. Calling(<<>>, "none", "none")
  BY EmptySeq DEF Calling, FirstOf, ThenOf
<1>2. ASSUME NEW a \in Said PROVE Calling(<<a>>, a, "none")
  <2>1. <<a>> \in Seq(Said) /\ Len(<<a>>) = 1 /\ <<a>>[1] = a /\ <<a>> # <<>>
    OBVIOUS
  <2>. QED
    BY <2>1 DEF Calling, FirstOf, ThenOf
<1>3. ASSUME NEW a \in Said, NEW b \in Said PROVE Calling(<<a, b>>, a, b)
  <2>1. /\ <<a, b>> \in Seq(Said) /\ Len(<<a, b>>) = 2 /\ <<a, b>> # <<>>
        /\ <<a, b>>[1] = a /\ <<a, b>>[2] = b
    OBVIOUS
  <2>. QED
    BY <2>1 DEF Calling, FirstOf, ThenOf
<1>. QED
  BY <1>1, <1>2, <1>3

LEMMA Lengths ==
  ASSUME NEW s \in Seq(Said)
  PROVE  /\ Len(s) \in Nat /\ (s = <<>> <=> Len(s) = 0)
         /\ \A i \in 1..Len(s) : s[i] \in Said
         /\ Len(s) <= 2 => Len(s) = 0 \/ Len(s) = 1 \/ Len(s) = 2
<1>1. Len(s) \in Nat
  BY LenProperties
<1>2. s = <<>> <=> Len(s) = 0
  BY EmptySeq
<1>3. \A i \in 1..Len(s) : s[i] \in Said
  BY ElementOfSeq
<1>4. \A n \in Nat : n <= 2 => n = 0 \/ n = 1 \/ n = 2
  OBVIOUS
<1>5. Len(s) <= 2 => Len(s) = 0 \/ Len(s) = 1 \/ Len(s) = 2
  BY <1>1, <1>4
<1>. QED
  BY <1>1, <1>2, <1>3, <1>5, Zenon

\* A call is taken off.
LEMMA Popped ==
  ASSUME NEW s \in Seq(Said), Len(s) <= 2, s # <<>>
  PROVE  /\ FirstOf(s) = Head(s) /\ Head(s) \in Said
         /\ Calling(Tail(s), ThenOf(s), "none") /\ Len(Tail(s)) <= 1
         /\ ThenOf(s) # "none" => ThenOf(s) \in Said
         /\ ThenOf(s) = "none" <=> Tail(s) = <<>>
<1>1. PICK r \in Seq(Said) :
        r = Tail(s) /\ Len(r) = Len(s) - 1 /\ \A i \in 1..Len(r) : r[i] = s[i + 1]
  BY HeadTailProperties
<1>2. /\ Len(s) = 1 \/ Len(s) = 2
      /\ Head(s) = s[1] /\ s[1] \in Said
  BY Lengths
<1>3. FirstOf(s) = Head(s)
  BY <1>2 DEF FirstOf
<1>4. CASE Len(s) = 1
  <2>1. Len(r) = 0 /\ ThenOf(s) = "none"
    BY <1>1, <1>4 DEF ThenOf
  <2>2. r = <<>>
    BY <2>1, Lengths
  <2>3. Calling(r, "none", "none") /\ Len(r) <= 1
    BY <2>1, <2>2, Tuples
  <2>. QED
    BY <1>1, <1>2, <1>3, <2>1, <2>2, <2>3
<1>5. CASE Len(s) = 2
  <2>1. Len(r) = 1 /\ ThenOf(s) = s[2]
    BY <1>1, <1>5 DEF ThenOf
  <2>2. r[1] = s[2]
    BY <1>1, <2>1
  <2>3. r # <<>> /\ r[1] \in Said
    BY <2>1, Lengths
  <2>4. Calling(r, s[2], "none")
    BY <2>1, <2>2, <2>3 DEF Calling, FirstOf, ThenOf
  <2>. QED
    BY <1>1, <1>2, <1>3, <2>1, <2>2, <2>3, <2>4, SaidNames
<1>. QED
  BY <1>2, <1>4, <1>5

\* Calls are put before another one, or before none.
LEMMA Joined ==
  ASSUME NEW s, NEW t, NEW a, NEW b, NEW c, Calling(s, a, b), Calling(t, c, "none"), Len(t) <= 1,
         a # "none", b = "none" \/ c = "none", c = "none" <=> t = <<>>
  PROVE  Calling(s \o t, a, IF b = "none" THEN c ELSE b)
<1>0. s \in Seq(Said) /\ t \in Seq(Said) /\ Len(s) <= 2 /\ s # <<>> /\ s[1] = a
  BY DEF Calling, FirstOf
<1>1. /\ s \in Seq(Said) /\ t \in Seq(Said) /\ Len(s) \in {1, 2} /\ s # <<>> /\ s[1] = a
      /\ Len(t) \in {0, 1}
  <2>1. Len(s) = 1 \/ Len(s) = 2
    BY <1>0, Lengths
  <2>2. \A n \in Nat : n <= 1 => n = 0 \/ n = 1
    OBVIOUS
  <2>3. Len(t) = 0 \/ Len(t) = 1
    BY <1>0, <2>2, Lengths
  <2>. QED
    BY <1>0, <2>1, <2>3
<1>2. /\ s \o t \in Seq(Said) /\ Len(s \o t) = Len(s) + Len(t)
      /\ \A i \in 1..(Len(s) + Len(t)) : (s \o t)[i] = IF i <= Len(s) THEN s[i] ELSE t[i - Len(s)]
  BY <1>1, ConcatProperties
<1>3. PICK w : w = s \o t
  OBVIOUS
<1>4. w \in Seq(Said) /\ Len(w) = Len(s) + Len(t) /\ w[1] = a /\ w # <<>>
  BY <1>1, <1>2, <1>3
<1>5. CASE Len(s) = 2
  <2>1. s[2] \in Said /\ ThenOf(s) = s[2]
    BY <1>1, <1>5, Lengths DEF ThenOf
  <2>2. b # "none" /\ s[2] = b /\ c = "none" /\ Len(t) = 0
    BY <1>1, <2>1, SaidNames, Lengths DEF Calling
  <2>3. Len(w) = 2 /\ w[2] = b
    BY <1>1, <1>2, <1>3, <1>4, <1>5, <2>2
  <2>. QED
    BY <1>3, <1>4, <2>2, <2>3 DEF Calling, FirstOf, ThenOf
<1>6. CASE Len(s) = 1
  <2>1. b = "none"
    BY <1>6 DEF Calling, ThenOf
  <2>2. CASE Len(t) = 0
    <3>1. c = "none" /\ Len(w) = 1
      BY <1>1, <1>4, <1>6, <2>2, Lengths
    <3>. QED
      BY <1>3, <1>4, <2>1, <3>1 DEF Calling, FirstOf, ThenOf
  <2>3. CASE Len(t) = 1
    <3>1. t[1] = c /\ Len(w) = 2 /\ w[2] = c
      BY <1>1, <1>2, <1>3, <1>4, <1>6, <2>3, Lengths DEF Calling, FirstOf
    <3>. QED
      BY <1>3, <1>4, <2>1, <3>1 DEF Calling, FirstOf, ThenOf
  <2>. QED
    BY <1>1, <2>2, <2>3
<1>. QED
  BY <1>1, <1>5, <1>6

-----------------------------------------------------------------------------
(* What the operators make of the context.                                  *)

\* The N2 connection after a release command.
N2Released(x) == IF x = "idle" THEN "idle" ELSE "releasing"

LEMMA ReleasingCtx ==
  ASSUME NEW c \in Ctx
  PROVE  Changes(c, Releasing(c), {"n2"}) /\ Releasing(c).n2 = N2Released(c.n2)
<1>1. PICK x \in N2s : x = N2Released(c.n2)
  BY DEF N2Released, N2s
<1>2. Releasing(c) = WithN2(c, IF c.n2 = "idle" THEN c.n2 ELSE "releasing")
  BY Zenon DEF Releasing, WithN2
<1>3. Releasing(c) = WithN2(c, x)
  BY <1>1, <1>2 DEF N2Released
<1>. QED
  BY <1>1, <1>3, N2Update

LEMMA ClearedCtx ==
  ASSUME NEW c \in Ctx
  PROVE  /\ Changes(c, Cleared(c), {"rm", "proc", "retx"})
         /\ Cleared(c).rm = "DEREGISTERED" /\ Cleared(c).proc = "none" /\ Cleared(c).retx = "none"
<1>1. PICK v1 \in Ctx : v1 = WithRm(c, "DEREGISTERED") /\ Changes(c, v1, {"rm"}) /\ v1.rm = "DEREGISTERED"
  BY RmUpdate DEF Rms, Changes
<1>2. PICK v2 \in Ctx : v2 = WithProc(v1, "none") /\ Changes(v1, v2, {"proc"}) /\ v2.proc = "none"
  BY ProcUpdate DEF Procs, Changes
<1>3. PICK v3 \in Ctx : v3 = WithRetx(v2, "none") /\ Changes(v2, v3, {"retx"}) /\ v3.retx = "none"
  BY RetxUpdate DEF Pdus, Changes
<1>4. PICK v4 \in Ctx : v4 = WithLast(v3, "none") /\ Changes(v3, v4, {})
  BY LastUpdate DEF Changes
<1>5. Cleared(c) = WithLast(WithRetx(WithProc(WithRm(c, "DEREGISTERED"), "none"), "none"), "none")
  BY Zenon DEF Cleared, WithRm, WithProc, WithRetx, WithLast
<1>6. Cleared(c) = v4
  BY <1>1, <1>2, <1>3, <1>4, <1>5
<1>. QED
  BY <1>1, <1>2, <1>3, <1>4, <1>6 DEF Changes

\* The procedure an FSM state belongs to.
Serving(s) ==
    IF s \in Calm THEN "none"
    ELSE IF s \in {"DEREGISTRATION_INITIATED", "MT_DEREG_PENDING"} THEN "deregistration"
    ELSE "registration"

LEMMA MirrorCtx ==
  ASSUME NEW c \in Ctx, NEW s \in States
  PROVE  /\ Changes(c, Mirror(c, s), {"rm", "proc"})
         /\ Mirror(c, s).proc = Serving(s)
         /\ Mirror(c, s).rm = IF s \in Calm THEN s ELSE c.rm
<1>1. ASSUME s \in Calm PROVE Mirror(c, s) = WithProc(WithRm(c, s), "none")
  <2>1. CASE s = "DEREGISTERED"
    BY <2>1, Zenon DEF Mirror, WithProc, WithRm
  <2>2. CASE s = "REGISTERED"
    BY <2>2, Zenon DEF Mirror, WithProc, WithRm
  <2>. QED
    BY <1>1, <2>1, <2>2 DEF Calm
<1>2. CASE s \in Calm
  <2>1. PICK v1 \in Ctx : v1 = WithRm(c, s) /\ Changes(c, v1, {"rm"}) /\ v1.rm = s
    BY <1>2, RmUpdate DEF Rms, Calm, Changes
  <2>2. PICK v2 \in Ctx : v2 = WithProc(v1, "none") /\ Changes(v1, v2, {"proc"}) /\ v2.proc = "none"
    BY ProcUpdate DEF Procs, Changes
  <2>3. Mirror(c, s) = v2
    BY <1>1, <1>2, <2>1, <2>2
  <2>. QED
    BY <1>2, <2>1, <2>2, <2>3 DEF Changes, Serving
<1>3. ASSUME s \notin Calm PROVE Mirror(c, s) = WithProc(c, Serving(s))
  <2>1. CASE s \in {"DEREGISTRATION_INITIATED", "MT_DEREG_PENDING"}
    <3>1. Serving(s) = "deregistration" /\ s # "DEREGISTERED" /\ s # "REGISTERED"
      BY <1>3, <2>1 DEF Serving, Calm
    <3>2. Mirror(c, s) = [c EXCEPT !.proc = "deregistration"]
      BY <2>1, <3>1, Zenon DEF Mirror
    <3>. QED
      BY <3>1, <3>2, Zenon DEF WithProc
  <2>2. CASE s \notin {"DEREGISTRATION_INITIATED", "MT_DEREG_PENDING"}
    <3>1. Serving(s) = "registration" /\ s # "DEREGISTERED" /\ s # "REGISTERED"
      BY <1>3, <2>2 DEF Serving, Calm
    <3>2. Mirror(c, s) = [c EXCEPT !.proc = "registration"]
      BY <2>2, <3>1, Zenon DEF Mirror
    <3>. QED
      BY <3>1, <3>2, Zenon DEF WithProc
  <2>. QED
    BY <2>1, <2>2
<1>4. CASE s \notin Calm
  <2>1. PICK x \in Procs : x = Serving(s)
    BY DEF Serving, Procs
  <2>2. Mirror(c, s) = WithProc(c, x)
    BY <1>3, <1>4, <2>1
  <2>. QED
    BY <1>4, <2>1, <2>2, ProcUpdate DEF Changes
<1>. QED
  BY <1>2, <1>4

\* A row taken: what its action and the mirror make of the context.
LEMMA TakenCtx ==
  ASSUME NEW c \in Ctx, NEW r, r.to \in States, Clears(r) => r.to = "DEREGISTERED"
  PROVE  LET v == Mirror(Acted(c, r), r.to)
         IN  /\ Changes(c, v, {"n2", "rm", "proc", "retx"})
             /\ v.n2 = IF GivesUp(r) THEN N2Released(c.n2) ELSE c.n2
             /\ v.rm = IF r.to \in Calm THEN r.to ELSE c.rm
             /\ v.proc = Serving(r.to)
             /\ Clears(r) \/ v.retx = c.retx
<1>1. PICK v1 \in Ctx : /\ v1 = (IF GivesUp(r) THEN Releasing(c) ELSE c) /\ Changes(c, v1, {"n2"})
                        /\ v1.n2 = (IF GivesUp(r) THEN N2Released(c.n2) ELSE c.n2)
  <2>1. CASE GivesUp(r)
    BY <2>1, ReleasingCtx DEF Changes
  <2>2. CASE ~GivesUp(r)
    BY <2>2, CtxFields DEF Changes
  <2>. QED
    BY <2>1, <2>2
<1>2. PICK v2 \in Ctx : /\ v2 = (IF Clears(r) THEN Cleared(v1) ELSE v1)
                        /\ Changes(v1, v2, {"rm", "proc", "retx"})
                        /\ Clears(r) \/ v2 = v1
  <2>1. CASE Clears(r)
    BY <2>1, ClearedCtx DEF Changes
  <2>2. CASE ~Clears(r)
    BY <2>2, CtxFields DEF Changes
  <2>. QED
    BY <2>1, <2>2
<1>3. Acted(c, r) = v2
  BY <1>1, <1>2 DEF Acted
<1>4. /\ Changes(v2, Mirror(v2, r.to), {"rm", "proc"})
      /\ Mirror(v2, r.to).proc = Serving(r.to)
      /\ Mirror(v2, r.to).rm = IF r.to \in Calm THEN r.to ELSE v2.rm
  BY MirrorCtx
<1>5. r.to \notin Calm => v2 = v1
  BY <1>2 DEF Calm
<1>. QED
  BY <1>1, <1>2, <1>3, <1>4, <1>5 DEF Changes

-----------------------------------------------------------------------------
(* The first layer, for every environment: types, calls and retries.        *)

Challenges == {"RegistrationRequest", "IdentityResponse", "AuthRetry"}

\* The call that may follow a call.
After(op) ==
    IF op = "startAuthentication" THEN Challenges
    ELSE IF op = "startSecurityMode" THEN {"AuthResponseValid"}
    ELSE IF op = "abortRegistration" THEN Challenges \union {"AuthResponseValid"}
    ELSE IF op \in {"IdentityResponseFail", "SecurityModeReject"} THEN {"abortRegistration"}
    ELSE IF op = "AuthResponseInvalid" THEN {"abortRegistration", "authenticationReject"}
    ELSE IF op = "AuthenticationFailure" THEN {"authenticationReject"}
    ELSE IF op \in {"DeregistrationRequestMO", "DeregistrationAcceptMT"} THEN {"clearVolatile"}
    ELSE {}

Planned == todo \in Seq(Said) /\ Len(todo) <= 2

Ordered ==
    /\ Then # "none" => Then \in After(First)
    /\ First = "startSecurityMode" => Then # "none"

\* Only a handler that is about to reject the UE has counted the last retry.
RetriesLeft ==
    ue.present /\ ue.authRetry = MaxAuthRetries => "authenticationReject" \in {First, Then}

CallInv ==
    /\ Planned /\ Ordered
    /\ ue \in Ctx
    /\ First # "none" => ue.n2 # "idle"
    /\ RetriesLeft

LEMMA AfterSaid == \A op : After(op) \subseteq Said /\ "none" \notin After(op)
  BY SaidNames DEF After, Challenges, Said, Ops

LEMMA ThenSaid ==
  ASSUME Planned
  PROVE  /\ First \in Said \union {"none"} /\ Then \in Said \union {"none"}
         /\ (First = "none" <=> todo = <<>>) /\ (First = "none" => Then = "none")
<1>1. CASE todo = <<>>
  BY <1>1, Tuples DEF Calling, First, Then
<1>2. CASE todo # <<>>
  BY <1>2, Popped, SaidNames DEF Planned, First, Then
<1>. QED
  BY <1>1, <1>2

Moves(a, b) == Planned' /\ First' = a /\ Then' = b

LEMMA CallFirst == ASSUME Planned, NEW op, NEW cont, Call(op, cont) PROVE First = op
<1>1. todo \in Seq(Said) /\ Len(todo) <= 2 /\ todo # <<>> /\ Head(todo) = op
  BY DEF Planned, Call
<1>. QED
  BY <1>1, Popped DEF First

\* A handler makes its next call, which may leave other calls to make.
LEMMA CallMoves ==
  ASSUME Planned, NEW op, NEW cont, NEW a, NEW b, Calling(cont, a, b), Call(op, cont),
         b = "none" \/ Then = "none"
  PROVE  /\ First = op /\ op \in Said
         /\ a = "none" => Moves(Then, "none")
         /\ a # "none" => Moves(a, IF b = "none" THEN Then ELSE b)
<1>1. todo \in Seq(Said) /\ Len(todo) <= 2 /\ todo # <<>> /\ Head(todo) = op
  BY DEF Planned, Call
<1>2. PICK t : t = Tail(todo)
  OBVIOUS
<1>3. /\ First = op /\ op \in Said
      /\ Calling(t, Then, "none") /\ Len(t) <= 1 /\ (Then = "none" <=> t = <<>>)
  BY <1>1, <1>2, Popped DEF First, Then
<1>4. todo' = cont \o t
  BY <1>2 DEF Call
<1>5. CASE a = "none"
  <2>1. cont = <<>>
    BY <1>5, Lengths, SaidNames DEF Calling, FirstOf
  <2>2. todo' = t
    BY <1>3, <1>4, <2>1, ConcatEmptySeq DEF Calling
  <2>. QED
    BY <1>3, <1>5, <2>2 DEF Moves, Planned, First, Then, Calling
<1>6. CASE a # "none"
  <2>1. Calling(todo', a, IF b = "none" THEN Then ELSE b)
    BY <1>3, <1>4, <1>6, Joined
  <2>. QED
    BY <1>3, <1>6, <2>1 DEF Moves, Planned, First, Then, Calling
<1>. QED
  BY <1>5, <1>6

LEMMA FireMoves ==
  ASSUME Planned, WorkerFires
  PROVE  First \in Events /\ First \in Said /\ Fire(First) /\ Moves(Then, "none") /\ due' = due
<1>1. todo \in Seq(Said) /\ Len(todo) <= 2 /\ todo # <<>> /\ todo' = Tail(todo)
  BY DEF Planned, WorkerFires
<1>2. First = Head(todo) /\ First \in Said /\ Calling(todo', Then, "none")
  BY <1>1, Popped DEF First, Then
<1>3. First \in Events /\ Fire(First) /\ due' = due
  BY <1>2 DEF WorkerFires
<1>. QED
  BY <1>2, <1>3 DEF Moves, Planned, First, Then, Calling

LEMMA HandleMoves ==
  ASSUME NEW calls, NEW a, NEW b, Calling(calls, a, b), todo' = calls
  PROVE  Moves(a, b)
BY DEF Calling, Moves, Planned, First, Then

LEMMA KeepsMoves ==
  ASSUME Planned, UNCHANGED todo
  PROVE  Moves(First, Then)
BY DEF Moves, Planned, First, Then

LEMMA StateKept == ASSUME UNCHANGED <<fsm, fstate>> PROVE State' = State
  BY DEF State

LEMMA StateDropped == ASSUME fsm' = None PROVE State' = "DEREGISTERED"
  BY DEF State

-----------------------------------------------------------------------------
(* What a step of the worker may do, for every environment: v is the new     *)
(* context, a and b are the calls that are left.                            *)

\* The message that an event guards is cached before the event is fired.
Preparing == [
    IdentityRequestSent |-> "idreq", RegistrationRequest |-> "authreq",
    IdentityResponse |-> "authreq", AuthRetry |-> "authreq", AuthResponseValid |-> "smc",
    SecurityModeComplete |-> "accept", RegRequestContextValid |-> "accept"]

\* Calls that serve a new request, and the events of an answer, with its state.
Beginning == {"IdentityRequestSent", "RegistrationRequest", "RegRequestContextValid",
              "acceptReused", "acceptMigrated", "startAuthentication"}

Awaits == [
    IdentityResponse |-> "IDENTIFICATION", AuthRetry |-> "AUTHENTICATION",
    AuthResponseValid |-> "AUTHENTICATION", SecurityModeComplete |-> "SECURITY_MODE",
    RegistrationComplete |-> "REGISTERED_INITIATED"]

\* The last call of a handler is what it is for.
Goal(a, b) == IF b = "none" THEN a ELSE b

Expected(op) ==
    /\ op \in Beginning => State \in Calm
    /\ op \in DOMAIN Awaits => State \in {Awaits[op], "DEREGISTERED"}

Leaves(v, a, b) == v \in Ctx /\ ue' = v /\ Moves(a, b)

\* The FSM is dropped and its timers are cancelled.
Clearing(v, a, b) ==
    /\ Leaves(v, a, b)
    /\ fsm' = None /\ armed' = {} /\ UNCHANGED <<fstate, due>>
    /\ ~v.present \/ v.rm = "DEREGISTERED"
    /\ (a = "none" /\ b = "none") \/ (a = First /\ b = Then /\ v.retx = ue.retx /\ v.n2 = ue.n2)
    /\ v.present =>
          \/ v.authRetry = 0 /\ v.hardRemove = No
          \/ /\ ue.present /\ v.authRetry = ue.authRetry
             /\ First \in {"clearVolatile", "lowerLayerFailure", "none"} /\ Then = "none"
             /\ v.hardRemove = No \/ (v.hardRemove = ue.hardRemove /\ First # "none")

\* The FSM is set back to REGISTERED.
Resetting(v, a, b) ==
    /\ Leaves(v, a, b) /\ Changes(ue, v, {"proc", "retx"}) /\ v.proc = "none"
    /\ First = "lowerLayerFailure" /\ Then = "none" /\ a = "none" /\ b = "none"
    /\ ue.rm = "REGISTERED"
    /\ armed' = {} /\ UNCHANGED due
    /\ \E o \in Objs : fsm' = o /\ fstate' = [fstate EXCEPT ![o] = "REGISTERED"]

\* What the handler of a NAS message notes fits the calls it leaves.
Fits(v, a, b) ==
    /\ b # "none" => b \in After(a)
    /\ a \notin {"lowerLayerFailure", "dispatch", "clearVolatile"}
    /\ a \in {"startAuthentication", "startSecurityMode"} => b # "none"
    /\ \/ v.authRetry = ue.authRetry
       \/ v.authRetry = ue.authRetry + 1 /\ (v.authRetry < MaxAuthRetries \/ b = "authenticationReject")
    /\ \/ v.rm = ue.rm
       \/ v.rm = "REGISTERED" /\ a = "RegistrationComplete" /\ State = "REGISTERED_INITIATED"
    /\ \/ v.proc = ue.proc \/ v.proc = "registration" \/ "collision" \in Env
       \/ a = "RegistrationComplete" /\ State = "REGISTERED_INITIATED"
    /\ \/ Expected(Goal(a, b)) \/ "collision" \in Env
       \/ ue.proc = "none" /\ Goal(a, b) \notin DOMAIN Awaits
    /\ \/ a \notin DOMAIN Preparing /\ v.retx = ue.retx
       \/ a \in DOMAIN Preparing /\ v.retx = Preparing[a]
       \/ a = "IdentityResponse" /\ State = "IDENTIFICATION" /\ ue.proc # "registration"
       \/ "collision" \in Env \/ "sendFails" \in Env

\* A NAS message is handled.
Served(v, a, b) ==
    /\ Leaves(v, a, b) /\ Changes(ue, v, {"rm", "proc", "retx", "authRetry"})
    /\ UNCHANGED <<fsm, fstate, due>>
    /\ armed' = armed \/ (armed' = {} /\ "collision" \in Env)
    /\ First \in {"none", "dispatch"} /\ Then = "none"
    /\ ue.present /\ (ue.n2 = "connected" \/ (ue.n2 = "releasing" /\ "crossing" \in Env))
    /\ Fits(v, a, b)

\* An Initial UE Message, or what is left of one.
Greeted(v, a, b) ==
    /\ Leaves(v, a, b) /\ UNCHANGED <<fsm, fstate, armed, due>>
    /\ b = "none"
    /\ \/ /\ a = "dispatch" /\ First = "none" /\ Changes(ue, v, {"n2", "proc", "retx"})
          /\ ue.present /\ (ue.n2 = "idle" \/ "crossing" \in Env)
          /\ v.n2 = "connected" /\ v.proc = "none"
       \/ a = "none" /\ v = ue /\ First = "dispatch" /\ Then = "none"

\* The gNB asks for the release.
Cut(v, a, b) ==
    /\ Leaves(v, a, b) /\ Changes(ue, v, {"n2"}) /\ v.n2 = "releasing"
    /\ UNCHANGED <<fsm, fstate, due>> /\ armed' = {}
    /\ First = "none" /\ ue.present /\ ue.n2 = "connected" /\ b = "none"
    /\ a = IF ue.proc = "none" THEN "none" ELSE "lowerLayerFailure"

\* The UE or the network ends the registration.
Deregistered(v, a, b) ==
    /\ Leaves(v, a, b) /\ Changes(ue, v, {"n2", "rm", "proc", "retx"})
    /\ v.n2 = "releasing" /\ v.rm = "DEREGISTERED"
    /\ UNCHANGED <<fsm, fstate, due>> /\ armed' \subseteq armed
    /\ ue.present /\ (ue.n2 = "connected" \/ (ue.n2 = "releasing" /\ "crossing" \in Env))
    /\ First \in {"none", "dispatch"} /\ Then = "none"
    /\ a \in {"DeregistrationRequestMO", "DeregistrationAcceptMT"} /\ b = "clearVolatile"

\* The connection of a registered UE is released.
Completed(v, a, b) ==
    /\ Leaves(v, a, b) /\ Changes(ue, v, {"n2"}) /\ v.n2 = "idle"
    /\ UNCHANGED <<fsm, fstate, armed, due>>
    /\ First = "none" /\ a = "none" /\ b = "none"
    /\ ue.present /\ ue.n2 = "releasing" /\ ue.rm = "REGISTERED"

\* A handler sends a challenge, a command or an accept, or fails to.
Started(v, a, b) ==
    /\ Leaves(v, a, b) /\ Changes(ue, v, {"proc", "retx"})
    /\ UNCHANGED <<fsm, fstate, armed, due>>
    /\ First \in {"startAuthentication", "startSecurityMode", "acceptReused", "acceptMigrated"}
    /\ b # "none" => b \in After(a)
    /\ a \notin {"lowerLayerFailure", "dispatch", "clearVolatile", "startSecurityMode"}
    /\ v.proc = ue.proc \/ v.proc = "registration"
    /\ \/ Goal(a, b) = Goal(First, Then)
       \/ Goal(a, b) \notin Beginning \union DOMAIN Awaits
       \/ Goal(First, Then) \in Beginning /\ Goal(a, b) \notin DOMAIN Awaits
    /\ \/ a \in DOMAIN Preparing /\ v.retx = Preparing[a]
       \/ a \notin DOMAIN Preparing /\ v.retx = ue.retx
       \/ First = "startAuthentication" /\ Then = "none"
       \/ "sendFails" \in Env
    /\ a # "startAuthentication" \/ b # "none" \/ "sendFails" \in Env

\* The registration is refused and the release ordered.
Aborted(v, a, b) ==
    /\ Leaves(v, a, b) /\ Changes(ue, v, {"n2", "rm", "proc", "hardRemove"})
    /\ v.n2 = N2Released(ue.n2) /\ v.rm = "DEREGISTERED"
    /\ UNCHANGED <<fsm, fstate, due>> /\ armed' = {}
    /\ First = "abortRegistration" /\ a = Then /\ b = "none"

Effect(v, a, b) ==
    \/ Clearing(v, a, b)
    \/ Resetting(v, a, b)
    \/ Served(v, a, b)
    \/ Greeted(v, a, b)
    \/ Cut(v, a, b)
    \/ Deregistered(v, a, b)
    \/ Completed(v, a, b)
    \/ Started(v, a, b)
    \/ Aborted(v, a, b)

-----------------------------------------------------------------------------
(* The calls have one of these effects.                                     *)

LEMMA UeType == ASSUME CallInv PROVE \E c \in Ctx : c = ue
  BY DEF CallInv

\* A handler of a present UE has nothing but its last call left.
LEMMA LastCall ==
  ASSUME CallInv, First \in {"clearVolatile", "lowerLayerFailure", "authenticationReject",
                             "acceptReused", "acceptMigrated", "dispatch"}
  PROVE  Then = "none"
BY ThenSaid DEF CallInv, Ordered, After

LEMMA CacheCtx ==
  ASSUME NEW c \in Ctx, NEW pdu \in Pdus, NEW outcome
  PROVE  /\ Changes(c, Cache(c, pdu, outcome), {"retx"})
         /\ Cache(c, pdu, outcome).retx = IF outcome = "sent" THEN pdu ELSE c.retx
<1>1. CASE outcome = "sent"
  <2>1. Cache(c, pdu, outcome) = WithRetx(c, pdu)
    BY <1>1, Zenon DEF Cache, WithRetx
  <2>. QED
    BY <1>1, <2>1, RetxUpdate
<1>2. CASE outcome # "sent"
  <2>1. Cache(c, pdu, outcome) = c
    BY <1>2 DEF Cache
  <2>. QED
    BY <1>2, <2>1, CtxFields DEF Changes
<1>. QED
  BY <1>1, <1>2

LEMMA Outcomes == \A outcome \in SendOutcomes : outcome = "sent" \/ "sendFails" \in Env
  BY DEF SendOutcomes

LEMMA StartAuthenticationEffect ==
  ASSUME CallInv, StartAuthentication
  PROVE  \E v, a, b : Started(v, a, b)
<1>0. PICK c \in Ctx : c = ue
  BY UeType
<1>1. PICK d \in Ctx : d = WithDone(c, No) /\ Changes(c, d, {})
  BY DoneUpdate DEF Changes, No
<1>2. CASE \E outcome \in SendOutcomes :
            /\ Call("startAuthentication", <<>>)
            /\ UpdateUe(Cache([ue EXCEPT !.authDone = FALSE, !.keys = "unconfirmed",
                                         !.proc = "registration"], "authreq", outcome))
  <2>1. PICK outcome \in SendOutcomes :
            /\ Call("startAuthentication", <<>>)
            /\ UpdateUe(Cache([ue EXCEPT !.authDone = FALSE, !.keys = "unconfirmed",
                                         !.proc = "registration"], "authreq", outcome))
    BY <1>2
  <2>2. PICK e \in Ctx : e = WithKeys(d, "unconfirmed") /\ Changes(d, e, {})
    BY KeysUpdate DEF Changes, KeyKinds
  <2>3. PICK f \in Ctx : f = WithProc(e, "registration") /\ Changes(e, f, {"proc"}) /\ f.proc = "registration"
    BY ProcUpdate DEF Changes, Procs
  <2>4. PICK v \in Ctx : /\ v = Cache(f, "authreq", outcome) /\ Changes(f, v, {"retx"})
                         /\ v.retx = IF outcome = "sent" THEN "authreq" ELSE f.retx
    BY CacheCtx DEF Changes, Pdus
  <2>5. [ue EXCEPT !.authDone = FALSE, !.keys = "unconfirmed", !.proc = "registration"] = f
    BY <1>0, <1>1, <2>2, <2>3, Zenon DEF WithDone, WithKeys, WithProc, No
  <2>6. Call("startAuthentication", <<>>) /\ ue' = v /\ UNCHANGED <<fsm, fstate, armed, due>>
    BY <2>1, <2>4, <2>5 DEF UpdateUe
  <2>7. First = "startAuthentication" /\ Moves(Then, "none")
    BY <2>6, CallMoves, Tuples DEF CallInv
  <2>8. Changes(ue, v, {"proc", "retx"}) /\ v.proc = "registration"
    BY <1>0, <1>1, <2>2, <2>3, <2>4 DEF Changes
  <2>9. Then = "none" \/ Then \in Challenges
    BY <2>7 DEF CallInv, Ordered, After
  <2>10. Started(v, Then, "none")
    <3>1. Leaves(v, Then, "none")
      BY <2>6, <2>7 DEF Leaves
    <3>2. Then \in Challenges => Then \in DOMAIN Preparing /\ Preparing[Then] = "authreq"
      BY DEF Challenges, Preparing
    <3>3. v.retx = "authreq" \/ "sendFails" \in Env
      BY <2>4, Outcomes
    <3>4. Then \notin {"lowerLayerFailure", "dispatch", "clearVolatile", "startAuthentication",
                       "startSecurityMode"}
      BY <2>9 DEF Challenges
    <3>5. \/ Goal(Then, "none") = Goal(First, Then)
          \/ Goal(Then, "none") \notin Beginning \union DOMAIN Awaits
      BY <2>9 DEF Goal, Beginning, Awaits
    <3>. QED
      BY <2>6, <2>7, <2>8, <2>9, <3>1, <3>2, <3>3, <3>4, <3>5 DEF Started
  <2>. QED
    BY <2>10
<1>3. CASE /\ Call("startAuthentication", <<"abortRegistration">>)
           /\ UpdateUe([ue EXCEPT !.authDone = FALSE])
  <2>1. ue' = d /\ UNCHANGED <<fsm, fstate, armed, due>>
    BY <1>0, <1>1, <1>3, Zenon DEF UpdateUe, WithDone, No
  <2>2. "abortRegistration" \in Said /\ "abortRegistration" # "none"
    BY SaidNames DEF Ops
  <2>3. First = "startAuthentication" /\ Moves("abortRegistration", Then)
    BY <1>3, <2>2, CallMoves, Tuples DEF CallInv
  <2>4. Then = "none" \/ Then \in Challenges
    BY <2>3 DEF CallInv, Ordered, After
  <2>5. /\ "abortRegistration" \notin DOMAIN Preparing \union Beginning \union DOMAIN Awaits
        /\ Then \in Challenges => Then \in After("abortRegistration")
    BY DEF Preparing, Beginning, Awaits, After
  <2>6. Started(d, "abortRegistration", Then)
    <3>1. Leaves(d, "abortRegistration", Then)
      BY <2>1, <2>3 DEF Leaves
    <3>2. \/ Goal("abortRegistration", Then) = Goal(First, Then)
          \/ Goal("abortRegistration", Then) \notin Beginning \union DOMAIN Awaits
      BY <2>5 DEF Goal
    <3>3. Changes(ue, d, {"proc", "retx"}) /\ d.retx = ue.retx /\ d.proc = ue.proc
      BY <1>0, <1>1 DEF Changes
    <3>. QED
      BY <2>1, <2>3, <2>4, <2>5, <3>1, <3>2, <3>3 DEF Started
  <2>. QED
    BY <2>6
<1>. QED
  BY <1>2, <1>3 DEF StartAuthentication

LEMMA StartSecurityModeEffect ==
  ASSUME CallInv, StartSecurityMode
  PROVE  \E v, a, b : Started(v, a, b)
<1>0. PICK c \in Ctx : c = ue
  BY UeType
<1>1. CASE \E outcome \in SendOutcomes :
            /\ Call("startSecurityMode", <<>>)
            /\ UpdateUe(Cache([ue EXCEPT !.pending = TRUE], "smc", outcome))
  <2>1. PICK outcome \in SendOutcomes :
            /\ Call("startSecurityMode", <<>>)
            /\ UpdateUe(Cache([ue EXCEPT !.pending = TRUE], "smc", outcome))
    BY <1>1
  <2>2. PICK yes \in BOOLEAN : yes = TRUE
    OBVIOUS
  <2>3. PICK d \in Ctx : d = WithPending(c, yes) /\ Changes(c, d, {})
    BY PendingUpdate DEF Changes
  <2>4. PICK v \in Ctx : /\ v = Cache(d, "smc", outcome) /\ Changes(d, v, {"retx"})
                         /\ v.retx = IF outcome = "sent" THEN "smc" ELSE d.retx
    BY CacheCtx DEF Changes, Pdus
  <2>5. [ue EXCEPT !.pending = TRUE] = d
    BY <1>0, <2>2, <2>3, Zenon DEF WithPending
  <2>6. Call("startSecurityMode", <<>>) /\ ue' = v /\ UNCHANGED <<fsm, fstate, armed, due>>
    BY <2>1, <2>4, <2>5 DEF UpdateUe
  <2>7. First = "startSecurityMode" /\ Moves(Then, "none")
    BY <2>6, CallMoves, Tuples DEF CallInv
  <2>8. Changes(ue, v, {"proc", "retx"}) /\ v.proc = ue.proc
    BY <1>0, <2>3, <2>4 DEF Changes
  <2>9. Then = "AuthResponseValid"
    BY <2>7 DEF CallInv, Ordered, After
  <2>10. Started(v, Then, "none")
    <3>1. Leaves(v, Then, "none")
      BY <2>6, <2>7 DEF Leaves
    <3>2. "AuthResponseValid" \in DOMAIN Preparing /\ Preparing["AuthResponseValid"] = "smc"
      BY DEF Preparing
    <3>3. v.retx = "smc" \/ "sendFails" \in Env
      BY <2>4, Outcomes
    <3>4. Goal(Then, "none") = Goal(First, Then)
      BY <2>9 DEF Goal
    <3>. QED
      BY <2>6, <2>7, <2>8, <2>9, <3>1, <3>2, <3>3, <3>4 DEF Started
  <2>. QED
    BY <2>10
<1>2. CASE Call("startSecurityMode", <<"abortRegistration">>) /\ UpdateUe(ue)
  <2>1. ue' = c /\ UNCHANGED <<fsm, fstate, armed, due>>
    BY <1>0, <1>2 DEF UpdateUe
  <2>2. "abortRegistration" \in Said /\ "abortRegistration" # "none"
    BY SaidNames DEF Ops
  <2>3. First = "startSecurityMode" /\ Moves("abortRegistration", Then)
    BY <1>2, <2>2, CallMoves, Tuples DEF CallInv
  <2>4. Then = "none" \/ Then = "AuthResponseValid"
    BY <2>3 DEF CallInv, Ordered, After
  <2>5. /\ "abortRegistration" \notin DOMAIN Preparing \union Beginning \union DOMAIN Awaits
        /\ "AuthResponseValid" \in After("abortRegistration")
    BY DEF Preparing, Beginning, Awaits, After
  <2>6. Started(c, "abortRegistration", Then)
    <3>1. Leaves(c, "abortRegistration", Then)
      BY <2>1, <2>3 DEF Leaves
    <3>2. \/ Goal("abortRegistration", Then) = Goal(First, Then)
          \/ Goal("abortRegistration", Then) \notin Beginning \union DOMAIN Awaits
      BY <2>5 DEF Goal
    <3>3. Changes(ue, c, {"proc", "retx"}) /\ c.retx = ue.retx /\ c.proc = ue.proc
      BY <1>0 DEF Changes
    <3>. QED
      BY <2>1, <2>3, <2>4, <2>5, <3>1, <3>2, <3>3 DEF Started
  <2>. QED
    BY <2>6
<1>. QED
  BY <1>1, <1>2 DEF StartSecurityMode

LEMMA AcceptReusedEffect ==
  ASSUME CallInv, AcceptReused
  PROVE  \E v, a, b : Started(v, a, b)
<1>0. PICK c \in Ctx : c = ue
  BY UeType
<1>1. PICK op \in {"acceptReused", "acceptMigrated"} :
        \/ \E outcome \in SendOutcomes :
            /\ Call(op, <<"RegRequestContextValid">>)
            /\ UpdateUe(Cache(ue, "accept", outcome))
        \/ /\ "sendFails" \in Env
           /\ Call(op, IF op = "acceptReused" THEN <<"startAuthentication", "RegistrationRequest">>
                                              ELSE <<"startAuthentication">>)
           /\ UpdateUe(ue)
  BY DEF AcceptReused
<1>2. /\ "RegRequestContextValid" \in Said /\ "startAuthentication" \in Said
      /\ "RegistrationRequest" \in Said /\ "none" \notin Said
  BY SaidNames DEF Said, Ops
<1>3. ASSUME First = op PROVE Then = "none" /\ Goal(First, Then) = op /\ op \in Beginning
  BY <1>3, LastCall DEF Goal, Beginning
<1>4. ASSUME NEW outcome \in SendOutcomes,
             Call(op, <<"RegRequestContextValid">>), UpdateUe(Cache(ue, "accept", outcome))
      PROVE  \E v, a, b : Started(v, a, b)
  <2>1. PICK v \in Ctx : /\ v = Cache(c, "accept", outcome) /\ Changes(c, v, {"retx"})
                         /\ v.retx = IF outcome = "sent" THEN "accept" ELSE c.retx
    BY CacheCtx DEF Changes, Pdus
  <2>2. ue' = v /\ UNCHANGED <<fsm, fstate, armed, due>>
    BY <1>0, <1>4, <2>1 DEF UpdateUe
  <2>3. First = op
    BY <1>4, <1>2, CallMoves, Tuples DEF CallInv
  <2>4. Then = "none"
    BY <2>3, <1>3
  <2>5. Moves("RegRequestContextValid", "none")
    BY <1>4, <1>2, <2>4, CallMoves, Tuples DEF CallInv
  <2>6. /\ "RegRequestContextValid" \in DOMAIN Preparing /\ Preparing["RegRequestContextValid"] = "accept"
        /\ "RegRequestContextValid" \notin DOMAIN Awaits
    BY DEF Preparing, Awaits
  <2>7. Started(v, "RegRequestContextValid", "none")
    <3>1. Leaves(v, "RegRequestContextValid", "none")
      BY <2>2, <2>5 DEF Leaves
    <3>2. v.retx = "accept" \/ "sendFails" \in Env
      BY <2>1, Outcomes
    <3>3. Changes(ue, v, {"proc", "retx"}) /\ v.proc = ue.proc
      BY <1>0, <2>1 DEF Changes
    <3>4. Goal("RegRequestContextValid", "none") = "RegRequestContextValid"
      BY DEF Goal
    <3>. QED
      BY <1>3, <2>2, <2>3, <2>6, <3>1, <3>2, <3>3, <3>4 DEF Started
  <2>. QED
    BY <2>7
<1>5. ASSUME "sendFails" \in Env, UpdateUe(ue), NEW b \in {"RegistrationRequest", "none"}, First = op,
             Moves("startAuthentication", b)
      PROVE  \E v, a, b2 : Started(v, a, b2)
  <2>1. ue' = c /\ UNCHANGED <<fsm, fstate, armed, due>>
    BY <1>0, <1>5 DEF UpdateUe
  <2>2. Started(c, "startAuthentication", b)
    <3>1. Leaves(c, "startAuthentication", b)
      BY <1>5, <2>1 DEF Leaves
    <3>2. Changes(ue, c, {"proc", "retx"}) /\ c.proc = ue.proc
      BY <1>0 DEF Changes
    <3>3. b # "none" => b \in After("startAuthentication")
      BY <1>5 DEF After, Challenges
    <3>4. Goal("startAuthentication", b) \notin DOMAIN Awaits
      BY <1>5 DEF Goal, Awaits
    <3>. QED
      BY <1>3, <1>5, <2>1, <3>1, <3>2, <3>3, <3>4 DEF Started
  <2>. QED
    BY <2>2
<1>6. ASSUME "sendFails" \in Env, UpdateUe(ue),
             Call(op, IF op = "acceptReused" THEN <<"startAuthentication", "RegistrationRequest">>
                                             ELSE <<"startAuthentication">>)
      PROVE  \E v, a, b : Started(v, a, b)
  <2>1. CASE op = "acceptReused"
    <3>1. Call(op, <<"startAuthentication", "RegistrationRequest">>)
      BY <1>6, <2>1
    <3>2. Calling(<<"startAuthentication", "RegistrationRequest">>, "startAuthentication", "RegistrationRequest")
      BY <1>2, Tuples
    <3>3. First = op
      BY <3>1, CallFirst DEF CallInv
    <3>. QED
      BY <1>3, <1>5, <1>6, <3>1, <3>2, <3>3, CallMoves, <1>2 DEF CallInv
  <2>2. CASE op # "acceptReused"
    <3>1. Call(op, <<"startAuthentication">>)
      BY <1>6, <2>2
    <3>2. Calling(<<"startAuthentication">>, "startAuthentication", "none")
      BY <1>2, Tuples
    <3>3. First = op
      BY <3>1, <3>2, CallMoves DEF CallInv
    <3>. QED
      BY <1>3, <1>5, <1>6, <3>1, <3>2, <3>3, CallMoves, <1>2 DEF CallInv
  <2>. QED
    BY <2>1, <2>2
<1>. QED
  BY <1>1, <1>4, <1>6

LEMMA AbortRegistrationEffect ==
  ASSUME CallInv, AbortRegistration
  PROVE  \E v, a, b : Aborted(v, a, b)
<1>0. PICK c \in Ctx : c = ue
  BY UeType
<1>1. PICK d \in Ctx : d = Releasing(c) /\ Changes(c, d, {"n2"}) /\ d.n2 = N2Released(c.n2)
  BY ReleasingCtx DEF Changes
<1>2. PICK yes \in BOOLEAN : yes = TRUE
  OBVIOUS
<1>3. PICK e \in Ctx : e = WithHard(d, yes) /\ Changes(d, e, {"hardRemove"})
  BY HardUpdate DEF Changes
<1>4. PICK f \in Ctx : f = WithProc(e, "none") /\ Changes(e, f, {"proc"})
  BY ProcUpdate DEF Changes, Procs
<1>5. PICK v \in Ctx : v = WithRm(f, "DEREGISTERED") /\ Changes(f, v, {"rm"}) /\ v.rm = "DEREGISTERED"
  BY RmUpdate DEF Changes, Rms
<1>6. [Releasing(ue) EXCEPT !.hardRemove = TRUE, !.proc = "none", !.rm = "DEREGISTERED"] = v
  BY <1>0, <1>1, <1>2, <1>3, <1>4, <1>5, Zenon DEF WithHard, WithProc, WithRm
<1>7. ue' = v /\ armed' = {} /\ UNCHANGED <<fsm, fstate, due>> /\ Call("abortRegistration", <<>>)
  BY <1>6 DEF AbortRegistration
<1>8. First = "abortRegistration" /\ Moves(Then, "none")
  BY <1>7, CallMoves, Tuples DEF CallInv
<1>9. Changes(ue, v, {"n2", "rm", "proc", "hardRemove"}) /\ v.n2 = N2Released(ue.n2)
  BY <1>0, <1>1, <1>3, <1>4, <1>5 DEF Changes
<1>10. Aborted(v, Then, "none")
  BY <1>5, <1>7, <1>8, <1>9 DEF Aborted, Leaves
<1>. QED
  BY <1>10

\* A context that is removed, or whose volatile part is cleared.
LEMMA RemoveEffect ==
  ASSUME NEW u \in Ctx, Remove(u), NEW a, NEW b, Moves(a, b),
         (a = "none" /\ b = "none") \/ (a = First /\ b = Then /\ u.retx = ue.retx /\ u.n2 = ue.n2)
  PROVE  \E v \in Ctx : Clearing(v, a, b)
<1>1. PICK d \in Ctx : d = WithPresent(u, No) /\ Changes(u, d, {"present"}) /\ d.present = No
  BY PresentUpdate DEF Changes, No
<1>2. PICK v \in Ctx : v = WithIndexed(d, No) /\ Changes(d, v, {})
  BY IndexedUpdate DEF Changes, No
<1>3. [u EXCEPT !.present = FALSE, !.indexed = FALSE] = v
  BY <1>1, <1>2, Zenon DEF WithPresent, WithIndexed, No
<1>4. ue' = v /\ fsm' = None /\ armed' = {} /\ UNCHANGED <<fstate, due>>
  BY <1>3 DEF Remove
<1>5. ~v.present /\ v.retx = u.retx /\ v.n2 = u.n2
  BY <1>1, <1>2 DEF Changes, No
<1>6. Clearing(v, a, b)
  BY <1>4, <1>5 DEF Clearing, Leaves
<1>. QED
  BY <1>6

LEMMA ClearEffect ==
  ASSUME NEW u \in Ctx, ClearVolatile(u), Moves("none", "none"),
         u.present =>
            /\ ue.present /\ u.authRetry = ue.authRetry
            /\ First \in {"clearVolatile", "lowerLayerFailure", "none"} /\ Then = "none"
            /\ u.hardRemove = No \/ (u.hardRemove = ue.hardRemove /\ First # "none")
  PROVE  \E v \in Ctx : Clearing(v, "none", "none")
<1>1. PICK v \in Ctx : v = Cleared(u) /\ Changes(u, v, {"rm", "proc", "retx"}) /\ v.rm = "DEREGISTERED"
  BY ClearedCtx DEF Changes
<1>2. ue' = v /\ fsm' = None /\ armed' = {} /\ UNCHANGED <<fstate, due>>
  BY <1>1 DEF ClearVolatile
<1>3. v.present = u.present /\ v.authRetry = u.authRetry /\ v.hardRemove = u.hardRemove
  BY <1>1 DEF Changes
<1>4. Clearing(v, "none", "none")
  BY <1>1, <1>2, <1>3 DEF Clearing, Leaves
<1>. QED
  BY <1>4

LEMMA AuthenticationRejectEffect ==
  ASSUME CallInv, SendAuthenticationReject
  PROVE  \E v, a, b : Clearing(v, a, b)
<1>0. PICK c \in Ctx : c = ue
  BY UeType
<1>1. PICK d \in Ctx : d = Releasing(c)
  BY ReleasingCtx DEF Changes
<1>2. PICK e \in Ctx : e = WithDone(d, No)
  BY DoneUpdate DEF Changes, No
<1>3. PICK f \in Ctx : f = WithPending(e, No)
  BY PendingUpdate DEF Changes, No
<1>4. PICK u \in Ctx : u = WithProc(f, "none")
  BY ProcUpdate DEF Changes, Procs
<1>5. [Releasing(ue) EXCEPT !.authDone = FALSE, !.pending = FALSE, !.proc = "none"] = u
  BY <1>0, <1>1, <1>2, <1>3, <1>4, Zenon DEF WithDone, WithPending, WithProc, No
<1>6. Call("authenticationReject", <<>>) /\ Remove(u)
  BY <1>5 DEF SendAuthenticationReject
<1>7. First = "authenticationReject" /\ Moves(Then, "none")
  BY <1>6, CallMoves, Tuples DEF CallInv
<1>8. Then = "none"
  BY <1>7, LastCall
<1>. QED
  BY <1>6, <1>7, <1>8, RemoveEffect

LEMMA FinishDeregistrationEffect ==
  ASSUME CallInv, FinishDeregistration
  PROVE  \E v, a, b : Clearing(v, a, b)
<1>0. PICK c \in Ctx : c = ue
  BY UeType
<1>1. Call("clearVolatile", <<>>) /\ ClearVolatile(c)
  BY <1>0 DEF FinishDeregistration
<1>2. First = "clearVolatile" /\ Moves(Then, "none")
  BY <1>1, CallMoves, Tuples DEF CallInv
<1>3. Then = "none"
  BY <1>2, LastCall
<1>. QED
  BY <1>0, <1>1, <1>2, <1>3, ClearEffect

LEMMA LowerLayerFailureEffect ==
  ASSUME CallInv, Base, LowerLayerFailure
  PROVE  \E v, a, b : Clearing(v, a, b) \/ Resetting(v, a, b)
<1>0. PICK c \in Ctx : c = ue
  BY UeType
<1>1. PICK d \in Ctx : d = WithProc(c, "none") /\ Changes(c, d, {"proc"}) /\ d.proc = "none"
  BY ProcUpdate DEF Changes, Procs
<1>2. PICK e \in Ctx : e = WithRetx(d, "none") /\ Changes(d, e, {"retx"})
  BY RetxUpdate DEF Changes, Pdus
<1>3. PICK v \in Ctx : v = WithPending(e, No) /\ Changes(e, v, {})
  BY PendingUpdate DEF Changes, No
<1>4. [ue EXCEPT !.proc = "none", !.retx = "none", !.pending = FALSE] = v
  BY <1>0, <1>1, <1>2, <1>3, Zenon DEF WithProc, WithRetx, WithPending, No
<1>5. /\ ue' = v /\ armed' = {} /\ UNCHANGED due /\ Call("lowerLayerFailure", <<>>)
  BY <1>4 DEF LowerLayerFailure
<1>6. First = "lowerLayerFailure" /\ Moves(Then, "none")
  BY <1>5, CallMoves, Tuples DEF CallInv
<1>7. Then = "none"
  BY <1>6, LastCall
<1>8. Changes(ue, v, {"proc", "retx"}) /\ v.proc = "none"
  BY <1>0, <1>1, <1>2, <1>3 DEF Changes
<1>9. CASE ue.rm = "REGISTERED"
  <2>1. \E o \in Objs : fsm' = o /\ fstate' = [fstate EXCEPT ![o] = "REGISTERED"]
    BY <1>9 DEF LowerLayerFailure, Base, Shape
  <2>2. Resetting(v, "none", "none")
    BY <1>5, <1>6, <1>7, <1>8, <1>9, <2>1 DEF Resetting, Leaves
  <2>. QED
    BY <2>2
<1>10. CASE ue.rm # "REGISTERED"
  <2>1. fsm' = None /\ UNCHANGED fstate
    BY <1>10 DEF LowerLayerFailure
  <2>2. /\ v.rm = "DEREGISTERED" /\ v.present = ue.present /\ v.authRetry = ue.authRetry
        /\ v.hardRemove = ue.hardRemove
    BY <1>0, <1>8, <1>10, CtxFields DEF Changes, Rms
  <2>3. Clearing(v, "none", "none")
    BY <1>5, <1>6, <1>7, <2>1, <2>2 DEF Clearing, Leaves
  <2>. QED
    BY <2>3
<1>. QED
  BY <1>9, <1>10

-----------------------------------------------------------------------------
(* The messages have one of these effects.                                  *)

LEMMA UplinkFacts ==
  ASSUME CallInv, Uplink
  PROVE  /\ First \in {"none", "dispatch"} /\ Then = "none"
         /\ ue.present /\ (ue.n2 = "connected" \/ (ue.n2 = "releasing" /\ "crossing" \in Env))
<1>1. CASE Idle
  BY <1>1, ThenSaid DEF CallInv, Idle, Uplink
<1>2. CASE todo = <<"dispatch">>
  <2>1. Calling(todo, "dispatch", "none")
    BY <1>2, SaidNames, Tuples DEF Ops
  <2>. QED
    BY <2>1 DEF Calling, First, Then, Uplink
<1>. QED
  BY <1>1, <1>2 DEF Uplink

LEMMA AdmittedCtx ==
  ASSUME CallInv, Admits
  PROVE  /\ Changes(ue, Admitted, {"proc", "retx"})
         /\ Admitted.proc = "none"
         /\ Admitted.retx = ue.retx \/ "collision" \in Env
         /\ ue.proc = "none" \/ "collision" \in Env
<1>0. PICK c \in Ctx : c = ue
  BY UeType
<1>1. CASE Collides
  <2>1. PICK d \in Ctx : d = WithProc(c, "none") /\ Changes(c, d, {"proc"}) /\ d.proc = "none"
    BY ProcUpdate DEF Changes, Procs
  <2>2. PICK e \in Ctx : e = WithRetx(d, "none") /\ Changes(d, e, {"retx"})
    BY RetxUpdate DEF Changes, Pdus
  <2>3. PICK v \in Ctx : v = WithPending(e, No) /\ Changes(e, v, {})
    BY PendingUpdate DEF Changes, No
  <2>4. [ue EXCEPT !.proc = "none", !.retx = "none", !.pending = FALSE] = v
    BY <1>0, <2>1, <2>2, <2>3, Zenon DEF WithProc, WithRetx, WithPending, No
  <2>5. Admitted = v
    BY <1>1, <2>4 DEF Admitted
  <2>. QED
    BY <1>0, <1>1, <2>1, <2>2, <2>3, <2>5 DEF Changes, Admits
<1>2. CASE ~Collides
  <2>1. Admitted = c
    BY <1>0, <1>2 DEF Admitted
  <2>. QED
    BY <1>0, <1>2, <2>1 DEF Changes, Collides
<1>. QED
  BY <1>1, <1>2

LEMMA HandleAdmittedMoves ==
  ASSUME Admits, NEW v, NEW calls, NEW a, NEW b, Calling(calls, a, b), HandleAdmitted(v, calls)
  PROVE  /\ ue' = v /\ Moves(a, b) /\ UNCHANGED <<fsm, fstate, due>>
         /\ armed' = armed \/ (armed' = {} /\ "collision" \in Env)
<1>1. todo' = calls /\ ue' = v /\ UNCHANGED <<fsm, fstate, due>>
  BY DEF HandleAdmitted, Handle, HandleQuietly
<1>2. armed' = armed \/ (armed' = {} /\ "collision" \in Env)
  BY DEF HandleAdmitted, Handle, HandleQuietly, Admits
<1>. QED
  BY <1>1, <1>2, HandleMoves

LEMMA DuplicateRequestEffect ==
  ASSUME CallInv, NEW request, DuplicateRequest(request)
  PROVE  \E v, a, b : Served(v, a, b)
<1>0. Admits /\ HandleAdmitted(Admitted, <<>>)
  BY DEF DuplicateRequest
<1>1. PICK v \in Ctx : v = Admitted
  BY <1>0, AdmittedCtx DEF Changes
<1>2. /\ Changes(ue, v, {"proc", "retx"}) /\ v.proc = "none"
      /\ v.retx = ue.retx \/ "collision" \in Env
      /\ ue.proc = "none" \/ "collision" \in Env
  BY <1>0, <1>1, AdmittedCtx
<1>3. /\ ue' = v /\ Moves("none", "none") /\ UNCHANGED <<fsm, fstate, due>>
      /\ armed' = armed \/ (armed' = {} /\ "collision" \in Env)
  BY <1>0, <1>1, HandleAdmittedMoves, Tuples
<1>4. Uplink
  BY <1>0 DEF Admits
<1>5. "none" \notin DOMAIN Preparing /\ Goal("none", "none") \notin DOMAIN Awaits
  BY DEF Preparing, Awaits, Goal
<1>6. Served(v, "none", "none")
  <2>1. Leaves(v, "none", "none") /\ Changes(ue, v, {"rm", "proc", "retx", "authRetry"})
    BY <1>2, <1>3 DEF Leaves, Changes
  <2>2. v.rm = ue.rm /\ v.authRetry = ue.authRetry
    BY <1>2 DEF Changes
  <2>. QED
    BY <1>2, <1>3, <1>4, <1>5, <2>1, <2>2, UplinkFacts DEF Served, Fits
<1>. QED
  BY <1>6

\* The handler of a request goes on, with the context as asked for.
LEMMA RequestServed ==
  ASSUME CallInv, Admits, NEW u, Changes(Admitted, u, {"proc"}), u.proc = "registration",
         NEW v \in Ctx, NEW calls, NEW a \in Said, NEW b \in Said \union {"none"},
         Calling(calls, a, b), HandleAdmitted(v, calls),
         \/ Changes(u, v, {}) /\ a \in {"abortRegistration", "acceptReused", "acceptMigrated"} /\ b = "none"
         \/ Changes(u, v, {}) /\ a = "startAuthentication" /\ b = "RegistrationRequest"
         \/ Changes(u, v, {"retx"}) /\ v.retx = "idreq" /\ a = "IdentityRequestSent" /\ b = "none"
  PROVE  Served(v, a, b)
<1>1. /\ Changes(ue, Admitted, {"proc", "retx"})
      /\ Admitted.retx = ue.retx \/ "collision" \in Env
      /\ ue.proc = "none" \/ "collision" \in Env
  BY AdmittedCtx
<1>2. /\ ue' = v /\ Moves(a, b) /\ UNCHANGED <<fsm, fstate, due>>
      /\ armed' = armed \/ (armed' = {} /\ "collision" \in Env)
  BY HandleAdmittedMoves
<1>3. Uplink
  BY DEF Admits
<1>4. Leaves(v, a, b) /\ Changes(ue, v, {"rm", "proc", "retx", "authRetry"})
  BY <1>1, <1>2 DEF Leaves, Changes
<1>5. v.rm = ue.rm /\ v.authRetry = ue.authRetry /\ v.proc = "registration"
  BY <1>1 DEF Changes
<1>6. \/ a \notin DOMAIN Preparing /\ v.retx = ue.retx
      \/ a \in DOMAIN Preparing /\ v.retx = Preparing[a]
      \/ "collision" \in Env
  BY <1>1 DEF Preparing, Changes
<1>7. Goal(a, b) \notin DOMAIN Awaits
  BY DEF Goal, Awaits
<1>8. b # "none" => b \in After(a)
  BY DEF After, Challenges
<1>. QED
  BY <1>1, <1>2, <1>3, <1>4, <1>5, <1>6, <1>7, <1>8, UplinkFacts DEF Served, Fits

LEMMA RegistrationRequestEffect ==
  ASSUME CallInv, NEW request \in Requests, RegistrationRequest(request)
  PROVE  \E v, a, b : Served(v, a, b)
<1>0. Admits
  BY DEF RegistrationRequest
<1>1. PICK d \in Ctx : d = Admitted
  BY <1>0, AdmittedCtx DEF Changes
<1>2. PICK u \in Ctx : u = WithProc(d, "registration") /\ Changes(d, u, {"proc"}) /\ u.proc = "registration"
  BY ProcUpdate DEF Changes, Procs
<1>3. PICK q \in Ctx : q = WithRetx(u, "idreq") /\ Changes(u, q, {"retx"}) /\ q.retx = "idreq"
  BY RetxUpdate DEF Changes, Pdus
<1>4. PICK k \in Ctx : k = WithLast(u, request) /\ Changes(u, k, {})
  BY LastUpdate DEF Changes
<1>5. PICK yes \in BOOLEAN : yes = TRUE
  OBVIOUS
<1>6. PICK l \in Ctx : l = WithIndexed(k, yes) /\ Changes(k, l, {})
  BY IndexedUpdate DEF Changes
<1>7. PICK m1 \in Ctx : m1 = WithDone(l, yes) /\ Changes(l, m1, {})
  BY DoneUpdate DEF Changes
<1>8. PICK m2 \in Ctx : m2 = WithKeys(m1, "operative") /\ Changes(m1, m2, {})
  BY KeysUpdate DEF Changes, KeyKinds
<1>9. PICK m \in Ctx : m = WithActivated(m2, yes) /\ Changes(m2, m, {})
  BY ActivatedUpdate DEF Changes
<1>10. Asked = u /\ Questioned = q /\ Known(request) = k /\ Listed(request) = l
  <2>1. Asked = u
    BY <1>1, <1>2, Zenon DEF Asked, WithProc
  <2>2. Questioned = q
    BY <2>1, <1>3, Zenon DEF Questioned, WithRetx
  <2>3. Known(request) = k
    BY <2>1, <1>4, Zenon DEF Known, WithLast
  <2>4. Listed(request) = l
    BY <2>3, <1>5, <1>6, Zenon DEF Listed, WithIndexed
  <2>. QED
    BY <2>1, <2>2, <2>3, <2>4
<1>11. Migrated(request) = m
  BY <1>10, <1>5, <1>7, <1>8, <1>9, Zenon DEF Migrated, WithDone, WithKeys, WithActivated
<1>12. Changes(u, l, {}) /\ Changes(u, k, {}) /\ Changes(u, m, {}) /\ Changes(u, u, {})
  BY <1>4, <1>6, <1>7, <1>8, <1>9 DEF Changes
<1>13. PICK outcome \in RegistrationOutcomes(request) : HandleAdmitted(outcome[1], outcome[2])
  BY DEF RegistrationRequest
<1>14. \/ outcome = <<l, <<"startAuthentication", "RegistrationRequest">>>>
       \/ outcome = <<q, <<"IdentityRequestSent">>>>
       \/ outcome = <<u, <<"abortRegistration">>>>
       \/ outcome = <<k, <<"abortRegistration">>>>
       \/ outcome = <<k, <<"acceptReused">>>>
       \/ outcome = <<m, <<"acceptMigrated">>>>
  BY <1>10, <1>11, Zenon DEF RegistrationOutcomes
<1>15. \/ HandleAdmitted(l, <<"startAuthentication", "RegistrationRequest">>)
       \/ HandleAdmitted(q, <<"IdentityRequestSent">>)
       \/ HandleAdmitted(u, <<"abortRegistration">>)
       \/ HandleAdmitted(k, <<"abortRegistration">>)
       \/ HandleAdmitted(k, <<"acceptReused">>)
       \/ HandleAdmitted(m, <<"acceptMigrated">>)
  BY <1>13, <1>14
<1>16. /\ "startAuthentication" \in Said /\ "RegistrationRequest" \in Said
       /\ "IdentityRequestSent" \in Said /\ "abortRegistration" \in Said
       /\ "acceptReused" \in Said /\ "acceptMigrated" \in Said
  BY DEF Said, Ops
<1>17. Changes(Admitted, u, {"proc"})
  BY <1>1, <1>2
<1>18. CASE HandleAdmitted(l, <<"startAuthentication", "RegistrationRequest">>)
  <2>1. Served(l, "startAuthentication", "RegistrationRequest")
    BY <1>0, <1>2, <1>12, <1>16, <1>17, <1>18, Tuples, RequestServed
  <2>. QED
    BY <2>1
<1>19. CASE HandleAdmitted(q, <<"IdentityRequestSent">>)
  <2>1. Served(q, "IdentityRequestSent", "none")
    BY <1>0, <1>2, <1>3, <1>16, <1>17, <1>19, Tuples, RequestServed
  <2>. QED
    BY <2>1
<1>20. ASSUME NEW v \in {u, k, m}, NEW a \in {"abortRegistration", "acceptReused", "acceptMigrated"},
              HandleAdmitted(v, <<a>>)
       PROVE  \E w, x, b : Served(w, x, b)
  <2>1. v \in Ctx /\ Changes(u, v, {}) /\ a \in Said
    BY <1>12, <1>16
  <2>2. Served(v, a, "none")
    BY <1>0, <1>2, <1>17, <1>20, <2>1, Tuples, RequestServed
  <2>. QED
    BY <2>2
<1>. QED
  BY <1>15, <1>18, <1>19, <1>20

LEMMA AnswerServed ==
  ASSUME CallInv, Uplink, NEW v \in Ctx, Changes(ue, v, {"rm", "proc", "retx", "authRetry"}),
         NEW calls, NEW a, NEW b, Calling(calls, a, b), Handle(v, calls), Fits(v, a, b)
  PROVE  Served(v, a, b)
BY HandleMoves, UplinkFacts DEF Handle, Served, Leaves

LEMMA IdentityResponseEffect ==
  ASSUME CallInv, IdentityResponse
  PROVE  \E v, a, b : Served(v, a, b)
<1>0. PICK c \in Ctx : c = ue /\ Changes(ue, c, {})
  BY UeType, CtxFields
<1>1. PICK yes \in BOOLEAN : yes = TRUE
  OBVIOUS
<1>2. PICK l \in Ctx : l = WithIndexed(c, yes) /\ Changes(ue, l, {})
  BY <1>0, IndexedUpdate DEF Changes
<1>3. [ue EXCEPT !.indexed = TRUE] = l
  BY <1>0, <1>1, <1>2, Zenon DEF WithIndexed
<1>4. /\ Uplink /\ State = "IDENTIFICATION"
      /\ \/ Handle(c, <<"IdentityResponseFail", "abortRegistration">>)
         \/ Handle(l, <<"abortRegistration">>)
         \/ Handle(l, <<"startAuthentication", "IdentityResponse">>)
         \/ ue.proc # "registration" /\ Handle(l, <<"IdentityResponse">>)
  BY <1>0, <1>3 DEF IdentityResponse
<1>5. /\ "IdentityResponseFail" \in Said /\ "abortRegistration" \in Said
      /\ "startAuthentication" \in Said /\ "IdentityResponse" \in Said
  BY DEF Said, Ops
<1>6. ASSUME NEW v \in {c, l}, NEW a, NEW b,
             \/ a = "IdentityResponseFail" /\ b = "abortRegistration"
             \/ a = "abortRegistration" /\ b = "none"
             \/ a = "startAuthentication" /\ b = "IdentityResponse"
             \/ a = "IdentityResponse" /\ b = "none" /\ ue.proc # "registration"
      PROVE  Fits(v, a, b) /\ v \in Ctx /\ Changes(ue, v, {"rm", "proc", "retx", "authRetry"})
  <2>1. v \in Ctx /\ Changes(ue, v, {"rm", "proc", "retx", "authRetry"})
        /\ v.rm = ue.rm /\ v.proc = ue.proc /\ v.retx = ue.retx /\ v.authRetry = ue.authRetry
    BY <1>0, <1>2, <1>6 DEF Changes
  <2>2. Expected(Goal(a, b))
    BY <1>4, <1>6 DEF Goal, Expected, Beginning, Awaits
  <2>3. \/ a \notin DOMAIN Preparing
        \/ a = "IdentityResponse" /\ State = "IDENTIFICATION" /\ ue.proc # "registration"
    BY <1>4, <1>6 DEF Preparing
  <2>4. b # "none" => b \in After(a)
    BY <1>6 DEF After, Challenges
  <2>. QED
    BY <1>6, <2>1, <2>2, <2>3, <2>4 DEF Fits
<1>7. CASE Handle(c, <<"IdentityResponseFail", "abortRegistration">>)
  <2>1. Calling(<<"IdentityResponseFail", "abortRegistration">>, "IdentityResponseFail", "abortRegistration")
    BY <1>5, Tuples
  <2>2. Served(c, "IdentityResponseFail", "abortRegistration")
    BY <1>4, <1>6, <1>7, <2>1, AnswerServed
  <2>. QED
    BY <2>2
<1>8. CASE Handle(l, <<"abortRegistration">>)
  <2>1. Calling(<<"abortRegistration">>, "abortRegistration", "none")
    BY <1>5, Tuples
  <2>2. Served(l, "abortRegistration", "none")
    BY <1>4, <1>6, <1>8, <2>1, AnswerServed
  <2>. QED
    BY <2>2
<1>9. CASE Handle(l, <<"startAuthentication", "IdentityResponse">>)
  <2>1. Calling(<<"startAuthentication", "IdentityResponse">>, "startAuthentication", "IdentityResponse")
    BY <1>5, Tuples
  <2>2. Served(l, "startAuthentication", "IdentityResponse")
    BY <1>4, <1>6, <1>9, <2>1, AnswerServed
  <2>. QED
    BY <2>2
<1>10. CASE ue.proc # "registration" /\ Handle(l, <<"IdentityResponse">>)
  <2>1. Calling(<<"IdentityResponse">>, "IdentityResponse", "none")
    BY <1>5, Tuples
  <2>2. Served(l, "IdentityResponse", "none")
    BY <1>4, <1>6, <1>10, <2>1, AnswerServed
  <2>. QED
    BY <2>2
<1>. QED
  BY <1>4, <1>7, <1>8, <1>9, <1>10

LEMMA AuthenticationResponseEffect ==
  ASSUME CallInv, AuthenticationResponse
  PROVE  \E v, a, b : Served(v, a, b)
<1>0. PICK c \in Ctx : c = ue /\ Changes(ue, c, {})
  BY UeType, CtxFields
<1>1. PICK yes \in BOOLEAN : yes = TRUE
  OBVIOUS
<1>2. PICK d \in Ctx : d = WithDone(c, yes) /\ Changes(ue, d, {})
  BY <1>0, DoneUpdate DEF Changes
<1>3. [ue EXCEPT !.authDone = TRUE] = d
  BY <1>0, <1>1, <1>2, Zenon DEF WithDone
<1>4. /\ Uplink /\ State = "AUTHENTICATION"
      /\ \/ Handle(d, <<"startSecurityMode", "AuthResponseValid">>)
         \/ Handle(c, <<"AuthResponseInvalid", "abortRegistration">>)
         \/ Handle(c, <<"AuthResponseInvalid", "authenticationReject">>)
  BY <1>0, <1>3 DEF AuthenticationResponse
<1>5. /\ "startSecurityMode" \in Said /\ "AuthResponseValid" \in Said
      /\ "AuthResponseInvalid" \in Said /\ "abortRegistration" \in Said
      /\ "authenticationReject" \in Said
  BY DEF Said, Ops
<1>6. ASSUME NEW v \in {c, d}, NEW a \in Said, NEW b \in Said, Handle(v, <<a, b>>),
             \/ a = "startSecurityMode" /\ b = "AuthResponseValid"
             \/ a = "AuthResponseInvalid" /\ b \in {"abortRegistration", "authenticationReject"}
      PROVE  \E w, x, y : Served(w, x, y)
  <2>1. v \in Ctx /\ Changes(ue, v, {"rm", "proc", "retx", "authRetry"})
        /\ v.rm = ue.rm /\ v.proc = ue.proc /\ v.retx = ue.retx /\ v.authRetry = ue.authRetry
    BY <1>0, <1>2, <1>6 DEF Changes
  <2>2. Expected(Goal(a, b))
    BY <1>4, <1>6 DEF Goal, Expected, Beginning, Awaits
  <2>3. a \notin DOMAIN Preparing /\ b # "none" /\ b \in After(a)
    BY <1>6 DEF Preparing, After
  <2>4. Fits(v, a, b)
    BY <1>6, <2>1, <2>2, <2>3 DEF Fits
  <2>5. Served(v, a, b)
    BY <1>4, <1>6, <2>1, <2>4, Tuples, AnswerServed
  <2>. QED
    BY <2>5
<1>. QED
  BY <1>4, <1>5, <1>6

LEMMA AuthenticationFailureEffect ==
  ASSUME CallInv, AuthenticationFailure
  PROVE  \E v, a, b : Served(v, a, b)
<1>0. PICK c \in Ctx : c = ue /\ Changes(ue, c, {})
  BY UeType, CtxFields
<1>1. Uplink /\ State = "AUTHENTICATION"
  BY DEF AuthenticationFailure
<1>2. /\ c.authRetry \in Nat /\ c.authRetry \in 0..MaxAuthRetries /\ MaxAuthRetries \in Nat
      /\ c.authRetry = MaxAuthRetries => FALSE
  <2>1. First \in {"none", "dispatch"} /\ Then = "none" /\ ue.present
    BY <1>1, UplinkFacts
  <2>. QED
    BY <1>0, <2>1, CtxFields, GmmAssumption DEF CallInv, RetriesLeft
<1>3. PICK n \in 0..MaxAuthRetries : n = c.authRetry + 1
  BY <1>2
<1>4. PICK g \in Ctx : g = WithRetry(c, n) /\ Changes(ue, g, {"authRetry"}) /\ g.authRetry = ue.authRetry + 1
  BY <1>0, <1>3, RetryUpdate DEF Changes
<1>5. [ue EXCEPT !.authRetry = @ + 1] = g
  <2>1. [c EXCEPT !.authRetry = c.authRetry + 1] = g
    BY <1>3, <1>4 DEF WithRetry
  <2>. QED
    BY <1>0, <2>1
<1>6. PICK h \in Ctx : h = WithRetx(g, "authreq") /\ Changes(g, h, {"retx"}) /\ h.retx = "authreq"
  BY RetxUpdate DEF Changes, Pdus
<1>7. Changes(ue, h, {"authRetry", "retx"}) /\ h.authRetry = g.authRetry
  BY <1>4, <1>6 DEF Changes
<1>8. [g EXCEPT !.retx = "authreq"] = h
  BY <1>6, Zenon DEF WithRetx
<1>9. \/ Handle(c, <<"AuthenticationFailure">>)
      \/ Handle(g, <<"AuthenticationFailure", "authenticationReject">>)
      \/ /\ g.authRetry < MaxAuthRetries
         /\ \/ Handle(g, <<"startAuthentication", "AuthRetry">>)
            \/ Handle(h, <<"AuthRetry">>)
            \/ Handle(g, <<"AuthenticationFailure">>)
  BY <1>0, <1>5, <1>8 DEF AuthenticationFailure
<1>10. /\ "AuthenticationFailure" \in Said /\ "authenticationReject" \in Said
       /\ "startAuthentication" \in Said /\ "AuthRetry" \in Said
  BY DEF Said, Ops
<1>11. ASSUME NEW v \in {c, g, h}, NEW a, NEW b,
              \/ v = c /\ a = "AuthenticationFailure" /\ b = "none"
              \/ v = g /\ a = "AuthenticationFailure" /\ b = "authenticationReject"
              \/ v = g /\ a = "startAuthentication" /\ b = "AuthRetry" /\ g.authRetry < MaxAuthRetries
              \/ v = h /\ a = "AuthRetry" /\ b = "none" /\ g.authRetry < MaxAuthRetries
              \/ v = g /\ a = "AuthenticationFailure" /\ b = "none" /\ g.authRetry < MaxAuthRetries
       PROVE  Fits(v, a, b) /\ v \in Ctx /\ Changes(ue, v, {"rm", "proc", "retx", "authRetry"})
  <2>1. v \in Ctx /\ Changes(ue, v, {"rm", "proc", "retx", "authRetry"})
        /\ v.rm = ue.rm /\ v.proc = ue.proc
    BY <1>0, <1>4, <1>7, <1>11 DEF Changes
  <2>2. \/ v.authRetry = ue.authRetry
        \/ v.authRetry = ue.authRetry + 1 /\ (v.authRetry < MaxAuthRetries \/ b = "authenticationReject")
    BY <1>0, <1>4, <1>7, <1>11
  <2>3. Expected(Goal(a, b))
    BY <1>1, <1>11 DEF Goal, Expected, Beginning, Awaits
  <2>4. \/ a \notin DOMAIN Preparing /\ v.retx = ue.retx
        \/ a \in DOMAIN Preparing /\ v.retx = Preparing[a]
    BY <1>0, <1>4, <1>6, <1>11 DEF Preparing, Changes
  <2>5. b # "none" => b \in After(a)
    BY <1>11 DEF After, Challenges
  <2>. QED
    BY <1>11, <2>1, <2>2, <2>3, <2>4, <2>5 DEF Fits
<1>12. CASE Handle(c, <<"AuthenticationFailure">>)
  <2>1. Served(c, "AuthenticationFailure", "none")
    BY <1>1, <1>10, <1>11, <1>12, Tuples, AnswerServed
  <2>. QED
    BY <2>1
<1>13. CASE Handle(g, <<"AuthenticationFailure", "authenticationReject">>)
  <2>1. Served(g, "AuthenticationFailure", "authenticationReject")
    BY <1>1, <1>10, <1>11, <1>13, Tuples, AnswerServed
  <2>. QED
    BY <2>1
<1>14. CASE g.authRetry < MaxAuthRetries /\ Handle(g, <<"startAuthentication", "AuthRetry">>)
  <2>1. Served(g, "startAuthentication", "AuthRetry")
    BY <1>1, <1>10, <1>11, <1>14, Tuples, AnswerServed
  <2>. QED
    BY <2>1
<1>15. CASE g.authRetry < MaxAuthRetries /\ Handle(h, <<"AuthRetry">>)
  <2>1. Served(h, "AuthRetry", "none")
    BY <1>1, <1>10, <1>11, <1>15, Tuples, AnswerServed
  <2>. QED
    BY <2>1
<1>16. CASE g.authRetry < MaxAuthRetries /\ Handle(g, <<"AuthenticationFailure">>)
  <2>1. Served(g, "AuthenticationFailure", "none")
    BY <1>1, <1>10, <1>11, <1>16, Tuples, AnswerServed
  <2>. QED
    BY <2>1
<1>. QED
  BY <1>9, <1>12, <1>13, <1>14, <1>15, <1>16

LEMMA SecurityModeCompleteEffect ==
  ASSUME CallInv, SecurityModeComplete
  PROVE  \E v, a, b : Served(v, a, b)
<1>0. PICK c \in Ctx : c = ue /\ Changes(ue, c, {})
  BY UeType, CtxFields
<1>1. PICK yes \in BOOLEAN : yes = TRUE
  OBVIOUS
<1>2. PICK d \in Ctx : d = WithPending(c, No) /\ Changes(ue, d, {})
  BY <1>0, PendingUpdate DEF Changes, No
<1>3. PICK e \in Ctx : e = WithDone(d, yes) /\ Changes(ue, e, {})
  BY <1>2, DoneUpdate DEF Changes
<1>4. PICK f \in Ctx : f = WithActivated(e, yes) /\ Changes(ue, f, {})
  BY <1>3, ActivatedUpdate DEF Changes
<1>5. PICK s \in Ctx : s = WithKeys(f, "operative") /\ Changes(ue, s, {})
  BY <1>4, KeysUpdate DEF Changes, KeyKinds
<1>6. PICK p \in Ctx : p = WithProc(s, "registration") /\ Changes(ue, p, {"proc"}) /\ p.proc = "registration"
  BY <1>5, ProcUpdate DEF Changes, Procs
<1>7. [ue EXCEPT !.pending = FALSE, !.authDone = TRUE, !.activated = TRUE, !.keys = "operative"] = s
  BY <1>0, <1>1, <1>2, <1>3, <1>4, <1>5, Zenon DEF WithPending, WithDone, WithActivated, WithKeys, No
<1>8. [s EXCEPT !.proc = "registration"] = p
  BY <1>6, Zenon DEF WithProc
<1>9. /\ Uplink /\ State = "SECURITY_MODE"
      /\ \/ \E outcome \in SendOutcomes :
              Handle(Cache(s, "accept", outcome), <<"SecurityModeComplete">>)
         \/ Handle(p, <<"abortRegistration">>)
  BY <1>7, <1>8 DEF SecurityModeComplete
<1>10. "SecurityModeComplete" \in Said /\ "abortRegistration" \in Said
  BY DEF Said, Ops
<1>11. ASSUME NEW outcome \in SendOutcomes,
              Handle(Cache(s, "accept", outcome), <<"SecurityModeComplete">>)
       PROVE  \E v, a, b : Served(v, a, b)
  <2>1. PICK v \in Ctx : /\ v = Cache(s, "accept", outcome) /\ Changes(ue, v, {"retx"})
                         /\ v.retx = IF outcome = "sent" THEN "accept" ELSE s.retx
    BY <1>5, CacheCtx DEF Changes, Pdus
  <2>2. v.retx = "accept" \/ "sendFails" \in Env
    BY <2>1, Outcomes
  <2>3. /\ "SecurityModeComplete" \in DOMAIN Preparing /\ Preparing["SecurityModeComplete"] = "accept"
        /\ Expected(Goal("SecurityModeComplete", "none"))
    BY <1>9 DEF Preparing, Expected, Goal, Beginning, Awaits
  <2>4. v.rm = ue.rm /\ v.proc = ue.proc /\ v.authRetry = ue.authRetry
        /\ Changes(ue, v, {"rm", "proc", "retx", "authRetry"})
    BY <2>1 DEF Changes
  <2>5. Fits(v, "SecurityModeComplete", "none")
    BY <2>2, <2>3, <2>4 DEF Fits
  <2>6. Served(v, "SecurityModeComplete", "none")
    BY <1>9, <1>10, <1>11, <2>1, <2>4, <2>5, Tuples, AnswerServed
  <2>. QED
    BY <2>6
<1>12. CASE Handle(p, <<"abortRegistration">>)
  <2>1. p.rm = ue.rm /\ p.authRetry = ue.authRetry /\ p.retx = ue.retx
        /\ Changes(ue, p, {"rm", "proc", "retx", "authRetry"})
    BY <1>6 DEF Changes
  <2>2. /\ "abortRegistration" \notin DOMAIN Preparing
        /\ Expected(Goal("abortRegistration", "none"))
    BY DEF Preparing, Expected, Goal, Beginning, Awaits
  <2>3. Fits(p, "abortRegistration", "none")
    BY <1>6, <2>1, <2>2 DEF Fits
  <2>4. Served(p, "abortRegistration", "none")
    BY <1>9, <1>10, <1>12, <2>1, <2>3, Tuples, AnswerServed
  <2>. QED
    BY <2>4
<1>. QED
  BY <1>9, <1>11, <1>12

LEMMA SecurityModeRejectEffect ==
  ASSUME CallInv, SecurityModeReject
  PROVE  \E v, a, b : Served(v, a, b)
<1>0. PICK c \in Ctx : c = ue /\ Changes(ue, c, {})
  BY UeType, CtxFields
<1>1. PICK v \in Ctx : v = WithPending(c, No) /\ Changes(ue, v, {})
  BY <1>0, PendingUpdate DEF Changes, No
<1>2. [ue EXCEPT !.pending = FALSE] = v
  BY <1>0, <1>1, Zenon DEF WithPending, No
<1>3. Uplink /\ Handle(v, <<"SecurityModeReject", "abortRegistration">>)
  BY <1>2 DEF SecurityModeReject
<1>4. v.rm = ue.rm /\ v.authRetry = ue.authRetry /\ v.retx = ue.retx /\ v.proc = ue.proc
      /\ Changes(ue, v, {"rm", "proc", "retx", "authRetry"})
  BY <1>1 DEF Changes
<1>5. /\ "SecurityModeReject" \in Said /\ "abortRegistration" \in Said
      /\ "SecurityModeReject" \notin DOMAIN Preparing
      /\ Expected(Goal("SecurityModeReject", "abortRegistration"))
      /\ "abortRegistration" \in After("SecurityModeReject")
  BY DEF Said, Ops, Preparing, Expected, Goal, Beginning, Awaits, After
<1>6. Fits(v, "SecurityModeReject", "abortRegistration")
  BY <1>4, <1>5 DEF Fits
<1>7. Served(v, "SecurityModeReject", "abortRegistration")
  BY <1>3, <1>4, <1>5, <1>6, Tuples, AnswerServed
<1>. QED
  BY <1>7

LEMMA RegistrationCompleteEffect ==
  ASSUME CallInv, RegistrationComplete
  PROVE  \E v, a, b : Served(v, a, b)
<1>0. PICK c \in Ctx : c = ue /\ Changes(ue, c, {})
  BY UeType, CtxFields
<1>1. PICK d \in Ctx : d = WithRm(c, "REGISTERED") /\ Changes(ue, d, {"rm"}) /\ d.rm = "REGISTERED"
  BY <1>0, RmUpdate DEF Changes, Rms
<1>2. PICK v \in Ctx : v = WithProc(d, "none") /\ Changes(d, v, {"proc"})
  BY ProcUpdate DEF Changes, Procs
<1>3. [ue EXCEPT !.rm = "REGISTERED", !.proc = "none"] = v
  BY <1>0, <1>1, <1>2, Zenon DEF WithRm, WithProc
<1>4. Uplink /\ State = "REGISTERED_INITIATED" /\ Handle(v, <<"RegistrationComplete">>)
  BY <1>3 DEF RegistrationComplete
<1>5. v.rm = "REGISTERED" /\ v.authRetry = ue.authRetry /\ v.retx = ue.retx
      /\ Changes(ue, v, {"rm", "proc", "retx", "authRetry"})
  BY <1>1, <1>2 DEF Changes
<1>6. /\ "RegistrationComplete" \in Said /\ "RegistrationComplete" \notin DOMAIN Preparing
      /\ Expected(Goal("RegistrationComplete", "none"))
  BY <1>4 DEF Said, Preparing, Expected, Goal, Beginning, Awaits
<1>7. Fits(v, "RegistrationComplete", "none")
  BY <1>4, <1>5, <1>6 DEF Fits
<1>8. Served(v, "RegistrationComplete", "none")
  BY <1>4, <1>5, <1>6, <1>7, Tuples, AnswerServed
<1>. QED
  BY <1>8

LEMMA ServicesEffect ==
  ASSUME CallInv, ServiceRequest \/ ULNASTransport
  PROVE  \E v, a, b : Served(v, a, b)
<1>0. PICK c \in Ctx : c = ue /\ Changes(ue, c, {})
  BY UeType, CtxFields
<1>1. PICK a \in {"ServiceRequest", "ULNASTransport"} : Uplink /\ Handle(c, <<a>>)
  BY <1>0 DEF ServiceRequest, ULNASTransport
<1>2. a \in Said /\ a \notin DOMAIN Preparing /\ Expected(Goal(a, "none"))
  BY DEF Said, Preparing, Expected, Goal, Beginning, Awaits
<1>3. Changes(ue, c, {"rm", "proc", "retx", "authRetry"})
  BY <1>0 DEF Changes
<1>4. Fits(c, a, "none")
  BY <1>0, <1>2 DEF Fits
<1>5. Served(c, a, "none")
  BY <1>1, <1>2, <1>3, <1>4, Tuples, AnswerServed
<1>. QED
  BY <1>5

LEMMA DeregistrationEffect ==
  ASSUME CallInv, DeregistrationRequestMO \/ DeregistrationAcceptMT
  PROVE  \E v, a, b : Deregistered(v, a, b)
<1>0. Uplink
  BY DEF DeregistrationRequestMO, DeregistrationAcceptMT, Admits
<1>1. /\ ue.present /\ (ue.n2 = "connected" \/ (ue.n2 = "releasing" /\ "crossing" \in Env))
      /\ First \in {"none", "dispatch"} /\ Then = "none"
  BY <1>0, UplinkFacts
<1>2. PICK a \in {"DeregistrationRequestMO", "DeregistrationAcceptMT"} :
        IF a = "DeregistrationRequestMO" THEN DeregistrationRequestMO ELSE DeregistrationAcceptMT
  OBVIOUS
<1>3. PICK c \in Ctx : /\ c = (IF a = "DeregistrationRequestMO" THEN Admitted ELSE ue)
                       /\ Changes(ue, c, {"proc", "retx"})
  <2>1. CASE a = "DeregistrationRequestMO"
    BY <1>2, <2>1, AdmittedCtx DEF DeregistrationRequestMO, Changes
  <2>2. CASE a # "DeregistrationRequestMO"
    BY <2>2, UeType, CtxFields DEF Changes
  <2>. QED
    BY <2>1, <2>2
<1>4. PICK d \in Ctx : d = Releasing(c) /\ Changes(c, d, {"n2"}) /\ d.n2 = N2Released(c.n2)
  BY ReleasingCtx DEF Changes
<1>5. PICK e \in Ctx : e = WithRm(d, "DEREGISTERED") /\ Changes(d, e, {"rm"}) /\ e.rm = "DEREGISTERED"
  BY RmUpdate DEF Changes, Rms
<1>6. PICK v \in Ctx : v = WithProc(e, "none") /\ Changes(e, v, {"proc"})
  BY ProcUpdate DEF Changes, Procs
<1>7. [Releasing(c) EXCEPT !.rm = "DEREGISTERED", !.proc = "none"] = v
  BY <1>4, <1>5, <1>6, Zenon DEF WithRm, WithProc
<1>8. v.n2 = "releasing" /\ v.rm = "DEREGISTERED" /\ Changes(ue, v, {"n2", "rm", "proc", "retx"})
  <2>1. c.n2 = ue.n2 /\ v.n2 = d.n2 /\ v.rm = e.rm
    BY <1>3, <1>5, <1>6 DEF Changes
  <2>2. N2Released(ue.n2) = "releasing"
    BY <1>1 DEF N2Released
  <2>3. Changes(ue, v, {"n2", "rm", "proc", "retx"})
    BY <1>3, <1>4, <1>5, <1>6 DEF Changes
  <2>. QED
    BY <1>4, <1>5, <2>1, <2>2, <2>3
<1>9. ue' = v /\ UNCHANGED <<fsm, fstate, due>> /\ armed' \subseteq armed /\ todo' = <<a, "clearVolatile">>
  <2>1. CASE a = "DeregistrationRequestMO"
    BY <1>2, <1>3, <1>7, <2>1 DEF DeregistrationRequestMO, HandleQuietly
  <2>2. CASE a = "DeregistrationAcceptMT"
    BY <1>2, <1>3, <1>7, <2>2 DEF DeregistrationAcceptMT
  <2>. QED
    BY <2>1, <2>2
<1>10. a \in Said /\ "clearVolatile" \in Said
  BY DEF Said, Ops
<1>11. Moves(a, "clearVolatile")
  BY <1>9, <1>10, Tuples, HandleMoves
<1>12. Deregistered(v, a, "clearVolatile")
  BY <1>1, <1>8, <1>9, <1>11 DEF Deregistered, Leaves
<1>. QED
  BY <1>12

LEMMA InitialUEMessageEffect ==
  ASSUME CallInv, InitialUEMessage
  PROVE  \E v, a, b : Greeted(v, a, b)
<1>0. PICK c \in Ctx : c = ue /\ Changes(ue, c, {})
  BY UeType, CtxFields
<1>1. PICK d \in Ctx : d = WithN2(c, "connected") /\ Changes(ue, d, {"n2"}) /\ d.n2 = "connected"
  BY <1>0, N2Update DEF Changes, N2s
<1>2. PICK e \in Ctx : e = WithProc(d, "none") /\ Changes(d, e, {"proc"}) /\ e.proc = "none"
  BY ProcUpdate DEF Changes, Procs
<1>3. PICK v \in Ctx : v = WithRetx(e, "none") /\ Changes(e, v, {"retx"})
  BY RetxUpdate DEF Changes, Pdus
<1>4. [ue EXCEPT !.n2 = "connected", !.proc = "none", !.retx = "none"] = v
  BY <1>0, <1>1, <1>2, <1>3, Zenon DEF WithN2, WithProc, WithRetx
<1>5. v.n2 = "connected" /\ v.proc = "none" /\ Changes(ue, v, {"n2", "proc", "retx"})
  BY <1>1, <1>2, <1>3 DEF Changes
<1>6. "dispatch" \in Said
  BY DEF Said, Ops
<1>7. /\ ue' = v /\ Moves("dispatch", "none") /\ UNCHANGED <<fsm, fstate, armed, due>>
      /\ ue.present /\ (ue.n2 = "idle" \/ "crossing" \in Env) /\ Idle
  BY <1>4, <1>6, Tuples, HandleMoves DEF InitialUEMessage, Handle
<1>8. First = "none"
  BY <1>7, ThenSaid DEF CallInv, Idle
<1>9. Greeted(v, "dispatch", "none")
  BY <1>5, <1>7, <1>8 DEF Greeted, Leaves
<1>. QED
  BY <1>9

LEMMA DropMessageEffect ==
  ASSUME CallInv, DropMessage
  PROVE  \E v, a, b : Greeted(v, a, b)
<1>0. PICK c \in Ctx : c = ue
  BY UeType
<1>1. "dispatch" \in Said
  BY DEF Said, Ops
<1>2. First = "dispatch" /\ Then = "none"
  BY <1>1, Tuples DEF DropMessage, Calling, First, Then
<1>3. ue' = c /\ Moves("none", "none") /\ UNCHANGED <<fsm, fstate, armed, due>>
  BY <1>0, Tuples, HandleMoves DEF DropMessage, Handle
<1>4. Greeted(c, "none", "none")
  BY <1>0, <1>2, <1>3 DEF Greeted, Leaves
<1>. QED
  BY <1>4

LEMMA ReleaseRequestEffect ==
  ASSUME CallInv, ReleaseRequest
  PROVE  \E v, a, b : Cut(v, a, b)
<1>0. PICK c \in Ctx : c = ue
  BY UeType
<1>1. ue.present /\ ue.n2 = "connected" /\ Idle
  BY DEF ReleaseRequest
<1>2. PICK v \in Ctx : v = Releasing(c) /\ Changes(c, v, {"n2"}) /\ v.n2 = "releasing"
  BY <1>0, <1>1, ReleasingCtx DEF Changes, N2Released
<1>3. "lowerLayerFailure" \in Said
  BY DEF Said, Ops
<1>4. PICK a : a = IF ue.proc = "none" THEN "none" ELSE "lowerLayerFailure"
  OBVIOUS
<1>5. ue' = v /\ UNCHANGED <<fsm, fstate, due>> /\ armed' = {} /\ Moves(a, "none")
  <2>1. /\ ue' = v /\ UNCHANGED <<fsm, fstate, due>> /\ armed' = {}
        /\ todo' = IF ue.proc = "none" THEN <<>> ELSE <<"lowerLayerFailure">>
    BY <1>0, <1>2 DEF ReleaseRequest, HandleQuietly
  <2>2. CASE ue.proc = "none"
    BY <1>4, <2>1, <2>2, Tuples, HandleMoves
  <2>3. CASE ue.proc # "none"
    BY <1>3, <1>4, <2>1, <2>3, Tuples, HandleMoves
  <2>. QED
    BY <2>1, <2>2, <2>3
<1>6. First = "none"
  BY <1>1, ThenSaid DEF CallInv, Idle
<1>7. Cut(v, a, "none")
  BY <1>0, <1>1, <1>2, <1>4, <1>5, <1>6 DEF Cut, Leaves
<1>. QED
  BY <1>7

LEMMA ReleaseCompleteEffect ==
  ASSUME CallInv, ReleaseComplete
  PROVE  \E v, a, b : Clearing(v, a, b) \/ Completed(v, a, b)
<1>0. PICK c \in Ctx : c = ue
  BY UeType
<1>1. PICK u \in Ctx : u = WithN2(c, "idle") /\ Changes(c, u, {"n2"}) /\ u.n2 = "idle"
  BY N2Update DEF Changes, N2s
<1>2. [ue EXCEPT !.n2 = "idle"] = u
  BY <1>0, <1>1, Zenon DEF WithN2
<1>3. PICK w \in Ctx : w = WithHard(u, No)
  BY HardUpdate DEF Changes, No
<1>4. [u EXCEPT !.hardRemove = FALSE] = w
  BY <1>3, Zenon DEF WithHard, No
<1>5. /\ Idle /\ ue.present /\ ue.n2 = "releasing" /\ UNCHANGED todo
      /\ \/ Remove(w)
         \/ ~ue.hardRemove /\ ClearVolatile(u)
         \/ ue.rm = "REGISTERED" /\ UpdateUe(u)
  BY <1>2, <1>4 DEF ReleaseComplete
<1>6. First = "none" /\ Then = "none" /\ Moves("none", "none")
  BY <1>5, ThenSaid, KeepsMoves DEF CallInv, Idle
<1>7. CASE Remove(w)
  BY <1>6, <1>7, RemoveEffect
<1>8. CASE ~ue.hardRemove /\ ClearVolatile(u)
  <2>1. u.authRetry = ue.authRetry /\ u.hardRemove = ue.hardRemove /\ u.hardRemove \in BOOLEAN
    BY <1>0, <1>1, CtxFields DEF Changes
  <2>2. u.hardRemove = No
    BY <1>8, <2>1 DEF No
  <2>. QED
    BY <1>5, <1>6, <1>8, <2>1, <2>2, ClearEffect
<1>9. CASE ue.rm = "REGISTERED" /\ UpdateUe(u)
  <2>1. Completed(u, "none", "none")
    BY <1>0, <1>1, <1>5, <1>6, <1>9 DEF Completed, Leaves, UpdateUe
  <2>. QED
    BY <2>1
<1>. QED
  BY <1>5, <1>7, <1>8, <1>9

LEMMA SupersededEffect ==
  ASSUME CallInv, Superseded
  PROVE  \E v, a, b : Clearing(v, a, b)
<1>0. PICK c \in Ctx : c = ue
  BY UeType
<1>1. Remove(c) /\ UNCHANGED todo
  BY <1>0 DEF Superseded
<1>2. Moves(First, Then)
  BY <1>1, KeepsMoves DEF CallInv
<1>. QED
  BY <1>0, <1>1, <1>2, RemoveEffect

LEMMA FreshCtx ==
  /\ Fresh \in Ctx
  /\ Fresh.rm = "DEREGISTERED" /\ Fresh.authRetry = 0 /\ Fresh.hardRemove = No
  /\ Fresh.n2 = "connected" /\ Fresh.retx = "none" /\ Fresh.proc = "none"
BY GmmAssumption DEF Fresh, Ctx, No

LEMMA NewContextEffect ==
  ASSUME CallInv, NewContext
  PROVE  \E v, a, b : Clearing(v, a, b)
<1>1. ue' = Fresh /\ fsm' = None /\ armed' = {} /\ UNCHANGED <<fstate, due, todo>> /\ Idle
  BY DEF NewContext
<1>2. Moves("none", "none")
  BY <1>1, ThenSaid, KeepsMoves DEF CallInv, Idle
<1>3. Clearing(Fresh, "none", "none")
  BY <1>1, <1>2, FreshCtx DEF Clearing, Leaves
<1>. QED
  BY <1>3

\* Every step of the worker fires an event or has one of the effects.
LEMMA WorkerEffect ==
  ASSUME CallInv, Base, Worker
  PROVE  WorkerFires \/ \E v, a, b : Effect(v, a, b)
<1>1. CASE Calls
  BY <1>1, StartAuthenticationEffect, StartSecurityModeEffect, AbortRegistrationEffect,
     AuthenticationRejectEffect, FinishDeregistrationEffect, AcceptReusedEffect,
     LowerLayerFailureEffect DEF Calls, Effect
<1>2. CASE \/ \E request \in Requests : DuplicateRequest(request) \/ RegistrationRequest(request)
           \/ IdentityResponse \/ AuthenticationResponse \/ AuthenticationFailure
           \/ SecurityModeComplete \/ SecurityModeReject \/ RegistrationComplete
           \/ ServiceRequest \/ ULNASTransport
  BY <1>2, DuplicateRequestEffect, RegistrationRequestEffect, IdentityResponseEffect,
     AuthenticationResponseEffect, AuthenticationFailureEffect, SecurityModeCompleteEffect,
     SecurityModeRejectEffect, RegistrationCompleteEffect, ServicesEffect DEF Effect
<1>3. CASE \/ DeregistrationRequestMO \/ DeregistrationAcceptMT \/ InitialUEMessage
           \/ DropMessage \/ ReleaseRequest \/ ReleaseComplete \/ Superseded \/ NewContext
  BY <1>3, DeregistrationEffect, InitialUEMessageEffect, DropMessageEffect, ReleaseRequestEffect,
     ReleaseCompleteEffect, SupersededEffect, NewContextEffect DEF Effect
<1>. QED
  BY <1>1, <1>2, <1>3 DEF Worker, Messages

-----------------------------------------------------------------------------
(* A row of the table is taken.                                             *)

\* Rows that drop the FSM enter DEREGISTERED, in every group of the table.
LEMMA ClearingRows == \A r \in Rows : Clears(r) => r.to = "DEREGISTERED"
<1>1. \A r \in IdentificationRows \union AuthenticationRows \union SecurityModeRows : ~Clears(r)
  BY DEF IdentificationRows, AuthenticationRows, SecurityModeRows, Row, Clears
<1>2. \A r \in RegistrationRequestRows \union AcceptRows : ~Clears(r)
  BY DEF RegistrationRequestRows, AcceptRows, Row, Clears
<1>3. \A r \in RegisteredRows \union DeregistrationRows : Clears(r) => r.to = "DEREGISTERED"
  BY DEF RegisteredRows, DeregistrationRows, Row, Clears
<1>. QED
  BY <1>1, <1>2, <1>3 DEF Rows

\* What a row makes of the context.
Took(v, r) ==
    /\ v \in Ctx /\ ue' = v
    /\ Changes(ue, v, {"n2", "rm", "proc", "retx"})
    /\ v.n2 = IF GivesUp(r) THEN N2Released(ue.n2) ELSE ue.n2
    /\ v.rm = IF r.to \in Calm THEN r.to ELSE ue.rm
    /\ v.proc = Serving(r.to)
    /\ Clears(r) \/ v.retx = ue.retx

LEMMA Taken ==
  ASSUME CallInv, NEW o, NEW r \in Rows, NEW live, Take(o, r, live)
  PROVE  \E v : Took(v, r)
<1>0. PICK c \in Ctx : c = ue
  BY UeType
<1>1. r.to \in States /\ (Clears(r) => r.to = "DEREGISTERED")
  BY RowEnters, ClearingRows
<1>2. PICK v : v = Mirror(Acted(c, r), r.to)
  OBVIOUS
<1>3. ue' = v
  BY <1>0, <1>2 DEF Take
<1>4. /\ Changes(c, v, {"n2", "rm", "proc", "retx"})
      /\ v.n2 = IF GivesUp(r) THEN N2Released(c.n2) ELSE c.n2
      /\ v.rm = IF r.to \in Calm THEN r.to ELSE c.rm
      /\ v.proc = Serving(r.to)
      /\ Clears(r) \/ v.retx = c.retx
  BY <1>1, <1>2, TakenCtx
<1>5. Took(v, r)
  BY <1>0, <1>3, <1>4 DEF Took, Changes
<1>. QED
  BY <1>5

\* An event of the worker fires a row of object o.
Fired(r, o, v) ==
    /\ r \in Rows /\ r.from = State /\ r.on = First
    /\ o \in Objs /\ Take(o, r, o) /\ Took(v, r)
    /\ fsm = o \/ (fsm = None /\ o \notin InUse)

LEMMA WorkerFiresEffect ==
  ASSUME CallInv, Base, WorkerFires
  PROVE  /\ First \in Events /\ First \in Said /\ Moves(Then, "none") /\ due' = due
         /\ (Ignored /\ Match(State, First) = {}) \/ \E r, o, v : Fired(r, o, v)
<1>1. First \in Events /\ First \in Said /\ Fire(First) /\ Moves(Then, "none") /\ due' = due
  BY FireMoves DEF CallInv
<1>2. ASSUME ~(Ignored /\ Match(State, First) = {}) PROVE \E r, o, v : Fired(r, o, v)
  <2>1. PICK r \in Match(State, First), o \in Objs :
              Take(o, r, o) /\ (fsm = o \/ (fsm = None /\ o \notin InUse))
    BY <1>1, <1>2 DEF Fire, Base, Shape
  <2>2. r \in Rows /\ r.from = State /\ r.on = First
    BY <2>1 DEF Match
  <2>3. PICK v : Took(v, r)
    BY <2>1, <2>2, Taken
  <2>4. Fired(r, o, v)
    BY <2>1, <2>2, <2>3 DEF Fired
  <2>. QED
    BY <2>4
<1>. QED
  BY <1>1, <1>2

\* An expiry fires a row of the object that armed the timer.
Expired(t, r, v) ==
    /\ r \in Rows /\ r.from = fstate[t[1]] /\ r.on = t[2]
    /\ Take(t[1], r, fsm) /\ Took(v, r)

LEMMA DeliverEffect ==
  ASSUME CallInv, NEW t \in due, Deliver(t)
  PROVE  /\ Moves(First, Then) /\ due' = due \ {t}
         /\ \/ Ignored /\ Match(fstate[t[1]], t[2]) = {}
            \/ \E r, v : Expired(t, r, v)
<1>1. Moves(First, Then) /\ due' = due \ {t}
  BY KeepsMoves DEF Deliver, CallInv
<1>2. ASSUME NEW r \in Match(fstate[t[1]], t[2]), Take(t[1], r, fsm)
      PROVE  \E q, v : Expired(t, q, v)
  <2>1. r \in Rows /\ r.from = fstate[t[1]] /\ r.on = t[2]
    BY <1>2 DEF Match
  <2>2. PICK v : Took(v, r)
    BY <1>2, <2>1, Taken
  <2>3. Expired(t, r, v)
    BY <1>2, <2>1, <2>2 DEF Expired
  <2>. QED
    BY <2>3
<1>. QED
  BY <1>1, <1>2 DEF Deliver, FireTimer

-----------------------------------------------------------------------------
(* The first layer is inductive.                                            *)

LEMMA CallsAfter ==
  ASSUME NEW v, NEW a, NEW b, Leaves(v, a, b),
         b # "none" => b \in After(a), a = "startSecurityMode" => b # "none",
         a # "none" => v.n2 # "idle",
         v.present /\ v.authRetry = MaxAuthRetries => "authenticationReject" \in {a, b}
  PROVE  CallInv'
BY DEF Leaves, Moves, CallInv, Ordered, RetriesLeft

LEMMA EffectKeepsCalls ==
  ASSUME CallInv, NEW v, NEW a, NEW b, Effect(v, a, b)
  PROVE  CallInv'
<1>0. /\ MaxAuthRetries \in Nat \ {0} /\ "none" \notin Said
      /\ First = "none" => Then = "none"
  BY GmmAssumption, SaidNames, ThenSaid DEF CallInv
<1>1. First \in {"none", "dispatch", "clearVolatile", "lowerLayerFailure"} /\ Then = "none" /\ ue.present
         => ue.authRetry # MaxAuthRetries
  BY DEF CallInv, RetriesLeft
<1>2. CASE Clearing(v, a, b)
  <2>1. /\ Leaves(v, a, b)
        /\ (a = "none" /\ b = "none") \/ (a = First /\ b = Then /\ v.n2 = ue.n2)
    BY <1>2 DEF Clearing
  <2>2. v.present => v.authRetry # MaxAuthRetries
    BY <1>0, <1>1, <1>2 DEF Clearing
  <2>3. /\ b # "none" => b \in After(a)
        /\ a = "startSecurityMode" => b # "none"
        /\ a # "none" => v.n2 # "idle"
    BY <2>1 DEF CallInv, Ordered
  <2>. QED
    BY <2>1, <2>2, <2>3, CallsAfter
<1>3. CASE Resetting(v, a, b)
  <2>1. Leaves(v, a, b) /\ a = "none" /\ b = "none" /\ v.present = ue.present /\ v.authRetry = ue.authRetry
        /\ First = "lowerLayerFailure" /\ Then = "none"
    BY <1>3 DEF Resetting, Changes
  <2>. QED
    BY <1>1, <2>1, CallsAfter
<1>4. CASE Served(v, a, b)
  <2>1. /\ Leaves(v, a, b) /\ Fits(v, a, b) /\ v.present = ue.present /\ v.n2 = ue.n2
        /\ First \in {"none", "dispatch"} /\ Then = "none" /\ ue.present /\ ue.n2 # "idle"
    BY <1>4 DEF Served, Changes
  <2>2. ue.authRetry # MaxAuthRetries
    BY <1>1, <2>1
  <2>3. v.authRetry = MaxAuthRetries => b = "authenticationReject"
    BY <1>0, <2>1, <2>2 DEF Fits
  <2>4. /\ b # "none" => b \in After(a)
        /\ a = "startSecurityMode" => b # "none"
    BY <2>1 DEF Fits
  <2>. QED
    BY <2>1, <2>3, <2>4, CallsAfter
<1>5. CASE Greeted(v, a, b)
  <2>1. /\ Leaves(v, a, b) /\ v.present = ue.present /\ v.authRetry = ue.authRetry
        /\ First \in {"none", "dispatch"} /\ Then = "none" /\ b = "none"
        /\ a = "none" \/ (a = "dispatch" /\ v.n2 = "connected")
    BY <1>0, <1>5 DEF Greeted, Changes
  <2>. QED
    BY <1>1, <2>1, CallsAfter
<1>6. CASE Cut(v, a, b)
  <2>1. /\ Leaves(v, a, b) /\ v.present = ue.present /\ v.authRetry = ue.authRetry
        /\ First = "none" /\ Then = "none" /\ b = "none" /\ a \in {"none", "lowerLayerFailure"}
        /\ v.n2 = "releasing"
    BY <1>0, <1>6 DEF Cut, Changes
  <2>. QED
    BY <1>1, <2>1, CallsAfter
<1>7. CASE Deregistered(v, a, b)
  <2>1. /\ Leaves(v, a, b) /\ v.present = ue.present /\ v.authRetry = ue.authRetry
        /\ First \in {"none", "dispatch"} /\ Then = "none"
        /\ a \in {"DeregistrationRequestMO", "DeregistrationAcceptMT"} /\ b = "clearVolatile"
        /\ v.n2 = "releasing"
    BY <1>7 DEF Deregistered, Changes
  <2>2. b \in After(a)
    BY <2>1 DEF After
  <2>. QED
    BY <1>1, <2>1, <2>2, CallsAfter
<1>8. CASE Completed(v, a, b)
  <2>1. /\ Leaves(v, a, b) /\ v.present = ue.present /\ v.authRetry = ue.authRetry
        /\ First = "none" /\ Then = "none" /\ a = "none" /\ b = "none"
    BY <1>0, <1>8 DEF Completed, Changes
  <2>. QED
    BY <1>1, <2>1, CallsAfter
<1>9. CASE Started(v, a, b)
  <2>1. /\ Leaves(v, a, b) /\ v.present = ue.present /\ v.authRetry = ue.authRetry /\ v.n2 = ue.n2
        /\ First \in {"startAuthentication", "startSecurityMode", "acceptReused", "acceptMigrated"}
        /\ b # "none" => b \in After(a)
        /\ a # "startSecurityMode"
    BY <1>9 DEF Started, Changes
  <2>2. First # "authenticationReject" /\ Then # "authenticationReject"
    BY <2>1 DEF CallInv, Ordered, After, Challenges
  <2>3. v.n2 # "idle" /\ ~(v.present /\ v.authRetry = MaxAuthRetries)
    BY <2>1, <2>2 DEF CallInv, RetriesLeft
  <2>. QED
    BY <2>1, <2>3, CallsAfter
<1>10. CASE Aborted(v, a, b)
  <2>1. /\ Leaves(v, a, b) /\ v.present = ue.present /\ v.authRetry = ue.authRetry
        /\ v.n2 = N2Released(ue.n2) /\ First = "abortRegistration" /\ a = Then /\ b = "none"
    BY <1>10 DEF Aborted, Changes
  <2>2. a \in {"none", "AuthResponseValid"} \union Challenges
    BY <2>1 DEF CallInv, Ordered, After
  <2>3. a \notin {"authenticationReject", "startSecurityMode"}
    BY <2>2 DEF Challenges
  <2>4. v.n2 # "idle" /\ ~(v.present /\ v.authRetry = MaxAuthRetries)
    BY <2>1, <2>3 DEF CallInv, RetriesLeft, N2Released
  <2>. QED
    BY <2>1, <2>3, <2>4, CallsAfter
<1>. QED
  BY <1>2, <1>3, <1>4, <1>5, <1>6, <1>7, <1>8, <1>9, <1>10 DEF Effect

LEMMA NoOpIsEvent == Ops \intersect Events = {}
<1>1. \A r \in IdentificationRows \union AuthenticationRows \union SecurityModeRows : r.on \notin Ops
  BY DEF IdentificationRows, AuthenticationRows, SecurityModeRows, Row, Ops
<1>2. \A r \in RegistrationRequestRows \union AcceptRows : r.on \notin Ops
  BY DEF RegistrationRequestRows, AcceptRows, Row, Ops
<1>3. \A r \in RegisteredRows \union DeregistrationRows : r.on \notin Ops
  BY DEF RegisteredRows, DeregistrationRows, Row, Ops
<1>. QED
  BY <1>1, <1>2, <1>3 DEF Rows, Events

LEMMA WorkerFiresKeepsCalls ==
  ASSUME CallInv, Base, WorkerFires
  PROVE  CallInv'
<1>1. /\ First \in Events /\ First \in Said /\ Moves(Then, "none")
      /\ Ignored \/ \E r, o, v : Fired(r, o, v)
  BY WorkerFiresEffect
<1>2. First # "authenticationReject" /\ First # "none" /\ ue.n2 # "idle"
  BY <1>1, NoOpIsEvent, SaidNames DEF CallInv, Ops
<1>3. Then # "startSecurityMode"
  BY SaidNames DEF CallInv, Ordered, After, Challenges
<1>4. \E v \in Ctx : /\ ue' = v /\ v.present = ue.present /\ v.authRetry = ue.authRetry
                     /\ v.n2 # "idle"
  <2>1. CASE Ignored
    BY <1>2, <2>1 DEF Ignored, CallInv
  <2>2. CASE \E r, o, v : Fired(r, o, v)
    BY <1>2, <2>2 DEF Fired, Took, Changes, N2Released
  <2>. QED
    BY <1>1, <2>1, <2>2
<1>5. PICK v \in Ctx : /\ ue' = v /\ v.present = ue.present /\ v.authRetry = ue.authRetry
                       /\ v.n2 # "idle"
  BY <1>4
<1>6. Leaves(v, Then, "none")
  BY <1>1, <1>5 DEF Leaves
<1>7. v.present /\ v.authRetry = MaxAuthRetries => "authenticationReject" \in {Then, "none"}
  BY <1>2, <1>5 DEF CallInv, RetriesLeft
<1>. QED
  BY <1>3, <1>5, <1>6, <1>7, CallsAfter

LEMMA DeliverKeepsCalls ==
  ASSUME CallInv, NEW t \in due, Deliver(t)
  PROVE  CallInv'
<1>1. Moves(First, Then) /\ (Ignored \/ \E r, v : Expired(t, r, v))
  BY DeliverEffect
<1>2. \E v \in Ctx : /\ ue' = v /\ v.present = ue.present /\ v.authRetry = ue.authRetry
                     /\ v.n2 = "idle" => ue.n2 = "idle"
  <2>1. CASE Ignored
    BY <2>1 DEF Ignored, CallInv
  <2>2. CASE \E r, v : Expired(t, r, v)
    BY <2>2 DEF Expired, Took, Changes, N2Released
  <2>. QED
    BY <1>1, <2>1, <2>2
<1>3. PICK v \in Ctx : /\ ue' = v /\ v.present = ue.present /\ v.authRetry = ue.authRetry
                       /\ v.n2 = "idle" => ue.n2 = "idle"
  BY <1>2
<1>4. Leaves(v, First, Then)
  BY <1>1, <1>3 DEF Leaves
<1>. QED
  BY <1>3, <1>4, CallsAfter DEF CallInv, Ordered, RetriesLeft

LEMMA NextKeepsCalls == ASSUME CallInv, Base, [Next]_vars PROVE CallInv'
<1>1. CASE Worker
  BY <1>1, WorkerEffect, WorkerFiresKeepsCalls, EffectKeepsCalls
<1>2. CASE \E timers \in SUBSET armed : Expire(timers)
  BY <1>2 DEF Expire, CallInv, Planned, Ordered, RetriesLeft, First, Then
<1>3. CASE \E t \in due : Deliver(t)
  BY <1>3, DeliverKeepsCalls
<1>4. CASE UNCHANGED vars
  BY <1>4 DEF vars, CallInv, Planned, Ordered, RetriesLeft, First, Then
<1>. QED
  BY <1>1, <1>2, <1>3, <1>4 DEF Next

LEMMA InitCalls == Init => CallInv
<1> SUFFICES ASSUME Init PROVE CallInv
  OBVIOUS
<1>1. todo = <<>> /\ ue = Fresh
  BY DEF Init
<1>2. Planned /\ First = "none" /\ Then = "none"
  BY <1>1, Tuples DEF Calling, Planned, First, Then
<1>. QED
  BY <1>1, <1>2, FreshCtx, GmmAssumption DEF CallInv, Ordered, RetriesLeft

\* What a handler of gmm/*.go may still have to call, in every environment: at most
\* two calls, the second only after a first the code pairs it with; none once the
\* connection is idle; and no retry of the authentication beyond maxAuthRetries.
THEOREM CallsCorrect == Spec => [](Base /\ CallInv)
  BY InitBase, InitCalls, NextKeepsBase, NextKeepsCalls, PTL DEF Spec

\* Every event a handler fires is one of the table.
LEMMA SaidIsKnown == Said \subseteq Events \union Ops
<1> DEFINE OnRow(e) == \E r \in Rows : r.on = e
<1>1. \A e \in {"IdentityRequestSent", "IdentityResponse", "IdentityResponseFail"} :
        \E r \in IdentificationRows : r.on = e
  BY DEF IdentificationRows, Row
<1>2. \A e \in {"AuthResponseValid", "AuthResponseInvalid", "AuthRetry", "AuthenticationFailure"} :
        \E r \in AuthenticationRows : r.on = e
  BY DEF AuthenticationRows, Row
<1>3. \A e \in {"SecurityModeComplete", "SecurityModeReject"} : \E r \in SecurityModeRows : r.on = e
  BY DEF SecurityModeRows, Row
<1>4. \E r \in RegistrationRequestRows : r.on = "RegistrationRequest"
  <2>1. Row("DEREGISTERED", "RegistrationRequest", "AUTHENTICATION", {}, {"T3560AuthExpired"})
          \in RegistrationRequestRows
    BY Zenon DEF RegistrationRequestRows
  <2>. QED
    BY <2>1, Zenon DEF Row
<1>5. \A e \in {"RegRequestContextValid", "RegistrationComplete"} : \E r \in AcceptRows : r.on = e
  BY DEF AcceptRows, Row
<1>6. \A e \in {"ServiceRequest", "ULNASTransport"} : \E r \in RegisteredRows : r.on = e
  <2>1. ASSUME NEW e \in {"ServiceRequest", "ULNASTransport"}
        PROVE  Row("REGISTERED", e, "REGISTERED", {}, {}) \in RegisteredRows
    BY <2>1 DEF RegisteredRows
  <2>2. \A e : Row("REGISTERED", e, "REGISTERED", {}, {}).on = e
    BY DEF Row
  <2>. QED
    BY <2>1, <2>2
<1>7. \A e \in {"DeregistrationRequestMO", "DeregistrationAcceptMT"} :
        \E r \in DeregistrationRows : r.on = e
  BY DEF DeregistrationRows, Row
<1>8. \A e \in Said \ Ops : OnRow(e)
  BY <1>1, <1>2, <1>3, <1>4, <1>5, <1>6, <1>7 DEF Said, Rows
<1>. QED
  BY <1>8 DEF Events

LEMMA TypesFollow == Base /\ CallInv => TypeOK
<1> SUFFICES ASSUME Base, CallInv PROVE TypeOK
  OBVIOUS
<1>1. \A S, T : S \subseteq T => Seq(S) \subseteq Seq(T)
  OBVIOUS
<1>2. todo \in Seq(Events \union Ops)
  BY <1>1, SaidIsKnown DEF CallInv, Planned
<1>. QED
  BY <1>2 DEF Base, Shape, CallInv, TypeOK

\* The variables keep their types, whatever the environment does: in particular
\* the handler of an Authentication Failure never counts past maxAuthRetries
\* (auth.go), since a UE whose last retry is counted is on its way out.
THEOREM TypeCorrect == Spec => []TypeOK
  BY CallsCorrect, TypesFollow, PTL

-----------------------------------------------------------------------------
(* The second layer: no pass of the tick goroutine overlaps a handler.      *)

\* Every timer, running or due, was armed by the object in the registry.
Sole == \A t \in armed \union due : t[1] = fsm

KnowsRm == ue.present /\ ue.rm = "REGISTERED" => State # "DEREGISTERED"

FsmInv == IInv /\ CallInv /\ Sole /\ KnowsRm

LEMMA TakeState ==
  ASSUME Base, NEW o \in Objs, NEW r \in Rows, Take(o, r, o)
  PROVE  /\ State' = r.to
         /\ fsm' = IF Clears(r) THEN None ELSE o
         /\ armed' = IF Clears(r) THEN {} ELSE (armed \ Named(r.stop \union {TimerOf[e] : e \in r.start}))
                                               \union {<<o, e>> : e \in r.start}
<1>1. fsm' = IF Clears(r) THEN None ELSE o
  BY DEF Take
<1>2. armed' = Rearm(o, r) /\ fstate' = [fstate EXCEPT ![o] = r.to]
  BY DEF Take
<1>3. State' = r.to
  <2>1. CASE Clears(r)
    BY <1>1, <2>1, StateDropped, ClearingRows
  <2>2. CASE ~Clears(r)
    <3>1. fsm' = o /\ o # None /\ fstate'[o] = r.to
      BY <1>1, <1>2, <2>2, GmmAssumption DEF Base, Shape
    <3>. QED
      BY <3>1 DEF State
  <2>. QED
    BY <2>1, <2>2
<1>. QED
  BY <1>1, <1>2, <1>3 DEF Rearm

\* The one timer an object has is the one of its state.
LEMMA OneTimer ==
  ASSUME IInv, Sole, NEW t \in armed \union due, NEW u \in armed \union due
  PROVE  t = u
<1>1. /\ t \in Objs \X Expiries /\ u \in Objs \X Expiries /\ t[1] = u[1]
      /\ StateOf[t[2]] = StateOf[u[2]]
      /\ t[2] \in Expiries \ {"T3555Expired"} /\ u[2] \in Expiries \ {"T3555Expired"}
  BY DEF IInv, Base, Shape, Current, Timely, Sole
<1>2. t[2] = u[2]
  BY <1>1, OnePerState
<1>. QED
  BY <1>1, <1>2

LEMMA EffectKeepsFsm ==
  ASSUME FsmInv, due = {}, NEW v, NEW a, NEW b, Effect(v, a, b)
  PROVE  Sole' /\ KnowsRm'
<1>1. CASE Clearing(v, a, b)
  <2>1. ue' = v /\ armed' = {} /\ due' = {} /\ (~v.present \/ v.rm = "DEREGISTERED")
    BY <1>1 DEF Clearing, Leaves
  <2>. QED
    BY <2>1 DEF Sole, KnowsRm
<1>2. CASE Resetting(v, a, b)
  <2>1. armed' = {} /\ due' = {}
    BY <1>2 DEF Resetting
  <2>2. PICK o \in Objs : fsm' = o /\ fstate' = [fstate EXCEPT ![o] = "REGISTERED"]
    BY <1>2 DEF Resetting
  <2>3. State' = "REGISTERED"
    BY <2>2, GmmAssumption DEF State, FsmInv, IInv, Base, Shape
  <2>. QED
    BY <2>1, <2>3 DEF Sole, KnowsRm
<1>3. CASE Served(v, a, b) \/ Greeted(v, a, b) \/ Cut(v, a, b) \/ Completed(v, a, b) \/ Started(v, a, b)
           \/ Deregistered(v, a, b) \/ Aborted(v, a, b)
  <2>1. UNCHANGED <<fsm, fstate, due>> /\ armed' \subseteq armed
    BY <1>3 DEF Served, Greeted, Cut, Completed, Started, Deregistered, Aborted
  <2>2. State' = State
    BY <2>1, StateKept
  <2>3. /\ ue' = v /\ v.present = ue.present
        /\ v.rm = ue.rm \/ v.rm = "DEREGISTERED" \/ State = "REGISTERED_INITIATED"
    BY <1>3 DEF Served, Fits, Greeted, Cut, Completed, Started, Deregistered, Aborted, Leaves, Changes
  <2>. QED
    BY <2>1, <2>2, <2>3 DEF FsmInv, Sole, KnowsRm
<1>. QED
  BY <1>1, <1>2, <1>3 DEF Effect

LEMMA TookKnowsRm ==
  ASSUME NEW v, NEW r, Took(v, r), KnowsRm, State' = r.to
  PROVE  KnowsRm'
<1>1. ue' = v /\ v.present = ue.present /\ v.rm = IF r.to \in Calm THEN r.to ELSE ue.rm
  BY DEF Took, Changes
<1>. QED
  BY <1>1 DEF KnowsRm, Calm

LEMMA WorkerFiresKeepsFsm ==
  ASSUME FsmInv, due = {}, WorkerFires
  PROVE  Sole' /\ KnowsRm'
<1>0. due' = {} /\ (Ignored \/ \E r, o, v : Fired(r, o, v))
  BY WorkerFiresEffect DEF FsmInv, IInv
<1>1. CASE Ignored
  BY <1>0, <1>1 DEF Ignored, FsmInv, Sole, KnowsRm, State
<1>2. CASE \E r, o, v : Fired(r, o, v)
  <2>1. PICK r, o, v : Fired(r, o, v)
    BY <1>2
  <2>2. /\ r \in Rows /\ o \in Objs /\ Take(o, r, o) /\ Took(v, r)
        /\ fsm = o \/ (fsm = None /\ o \notin InUse)
    BY <2>1 DEF Fired
  <2>3. /\ State' = r.to /\ fsm' = IF Clears(r) THEN None ELSE o
        /\ armed' = IF Clears(r) THEN {} ELSE (armed \ Named(r.stop \union {TimerOf[e] : e \in r.start}))
                                              \union {<<o, e>> : e \in r.start}
    BY <2>2, TakeState DEF FsmInv, IInv
  <2>4. KnowsRm'
    BY <2>2, <2>3, TookKnowsRm DEF FsmInv
  <2>5. \A t \in armed : t[1] = o
    BY <2>2, GmmAssumption DEF FsmInv, IInv, Base, Shape, Sole
  <2>6. \A t \in armed' : t[1] = fsm'
    BY <2>3, <2>5
  <2>. QED
    BY <1>0, <2>4, <2>6 DEF Sole
<1>. QED
  BY <1>0, <1>1, <1>2

LEMMA DeliverKeepsFsm ==
  ASSUME FsmInv, NEW t \in due, Deliver(t)
  PROVE  Sole' /\ KnowsRm'
<1>0. due' = due \ {t} /\ (Ignored \/ \E r, v : Expired(t, r, v))
  BY DeliverEffect DEF FsmInv
<1>1. t[1] = fsm /\ fsm \in Objs /\ due' = {} /\ armed = {}
  BY <1>0, OneTimer DEF FsmInv, IInv, Base, Shape, Sole, Current
<1>2. CASE Ignored
  BY <1>1, <1>2 DEF Ignored, FsmInv, Sole, KnowsRm, State
<1>3. CASE \E r, v : Expired(t, r, v)
  <2>1. PICK r, v : Expired(t, r, v)
    BY <1>3
  <2>2. r \in Rows /\ Take(fsm, r, fsm) /\ Took(v, r)
    BY <1>1, <2>1 DEF Expired
  <2>3. /\ State' = r.to /\ fsm' = IF Clears(r) THEN None ELSE fsm
        /\ armed' = IF Clears(r) THEN {} ELSE (armed \ Named(r.stop \union {TimerOf[e] : e \in r.start}))
                                              \union {<<fsm, e>> : e \in r.start}
    BY <1>1, <2>2, TakeState DEF FsmInv, IInv
  <2>4. KnowsRm'
    BY <2>2, <2>3, TookKnowsRm DEF FsmInv
  <2>. QED
    BY <1>1, <2>3, <2>4 DEF Sole
<1>. QED
  BY <1>0, <1>2, <1>3

LEMMA NextKeepsFsm == ASSUME "race" \notin Env, FsmInv, [Next]_vars PROVE FsmInv'
<1>0. IInv' /\ CallInv'
  BY NextKeepsBase, NextKeepsCurrent, NextKeepsCalls DEF FsmInv, IInv
<1>1. CASE Worker
  <2>1. due = {} /\ (WorkerFires \/ \E v, a, b : Effect(v, a, b))
    BY <1>1, WorkerEffect DEF Worker, FsmInv, IInv
  <2>. QED
    BY <1>0, <2>1, EffectKeepsFsm, WorkerFiresKeepsFsm DEF FsmInv
<1>2. CASE \E timers \in SUBSET armed : Expire(timers)
  <2>1. UNCHANGED <<fsm, fstate, ue>> /\ armed' \union due' \subseteq armed \union due
    BY <1>2 DEF Expire
  <2>2. Sole' /\ KnowsRm'
    BY <2>1 DEF FsmInv, Sole, KnowsRm, State
  <2>. QED
    BY <1>0, <2>2 DEF FsmInv
<1>3. CASE \E t \in due : Deliver(t)
  BY <1>0, <1>3, DeliverKeepsFsm DEF FsmInv
<1>4. CASE UNCHANGED vars
  BY <1>0, <1>4 DEF vars, FsmInv, Sole, KnowsRm, State
<1>. QED
  BY <1>1, <1>2, <1>3, <1>4 DEF Next

LEMMA InitFsm == Init => FsmInv
<1>1. Init => IInv
  BY InitBase DEF Init, IInv, Current, Timely
<1>2. Init => Sole /\ KnowsRm
  BY FreshCtx DEF Init, Sole, KnowsRm
<1>. QED
  BY <1>1, <1>2, InitCalls DEF FsmInv

\* As long as no pass of the tick goroutine overlaps a handler, a UE the AMF
\* reports as RM-REGISTERED has an FSM that knows it: between two messages, and
\* also within a handler.
THEOREM RegisteredIsKnown == "race" \notin Env => (Spec => []RegisteredHasFsm)
<1> SUFFICES ASSUME "race" \notin Env PROVE Spec => []RegisteredHasFsm
  OBVIOUS
<1>1. FsmInv /\ [Next]_vars => FsmInv'
  BY NextKeepsFsm
<1>2. FsmInv => RegisteredHasFsm
  BY DEF FsmInv, KnowsRm, RegisteredHasFsm
<1>. QED
  BY InitFsm, <1>1, <1>2, PTL DEF Spec

-----------------------------------------------------------------------------
(* The third layer: no message crosses the release of the connection.       *)

\* What is left of the handler that rejected the UE.
Trailing == Challenges \union {"none", "AuthResponseValid"}

\* A rejected UE is being released, it is not registered, and no Registration
\* Accept is guarded whose expiry would register it after all.
Rejected ==
    ue.hardRemove /\ ue.present =>
        /\ ue.n2 = "releasing" /\ ue.rm = "DEREGISTERED"
        /\ Then = "none" /\ First \in Trailing
        /\ \A t \in armed \union due : t[2] # "T3550Expired"

Agrees == ue.present /\ State = "REGISTERED" /\ ue.n2 # "releasing" => ue.rm = "REGISTERED"

RejectInv == FsmInv /\ Rejected /\ Agrees

LEMMA TrailingRows ==
  \A r \in Rows : r.on \in Trailing => r.to \in {"AUTHENTICATION", "SECURITY_MODE"}
<1> DEFINE Good(r) == r.on \in Trailing => r.to \in {"AUTHENTICATION", "SECURITY_MODE"}
<1>1. \A r \in IdentificationRows \union AuthenticationRows \union SecurityModeRows : Good(r)
  BY DEF IdentificationRows, AuthenticationRows, SecurityModeRows, Row, Trailing, Challenges
<1>2. \A r \in RegistrationRequestRows \union AcceptRows : Good(r)
  BY DEF RegistrationRequestRows, AcceptRows, Row, Trailing, Challenges
<1>3. \A r \in RegisteredRows \union DeregistrationRows : Good(r)
  BY DEF RegisteredRows, DeregistrationRows, Row, Trailing, Challenges
<1>. QED
  BY <1>1, <1>2, <1>3 DEF Rows

\* An expiry ends the wait, and only those of T3550 and T3555 leave a registered UE.
LEMMA ExpiryRows ==
  \A r \in Rows : r.on \in Expiries =>
     r.to \in Calm /\ (r.to = "REGISTERED" => r.on \in {"T3550Expired", "T3555Expired"})
<1> DEFINE Good(r) == r.on \in Expiries =>
     r.to \in Calm /\ (r.to = "REGISTERED" => r.on \in {"T3550Expired", "T3555Expired"})
<1>1. \A r \in IdentificationRows \union AuthenticationRows \union SecurityModeRows : Good(r)
  BY DEF IdentificationRows, AuthenticationRows, SecurityModeRows, Row, Expiries, TimerOf, Calm
<1>2. \A r \in RegistrationRequestRows \union AcceptRows : Good(r)
  BY DEF RegistrationRequestRows, AcceptRows, Row, Expiries, TimerOf, Calm
<1>3. \A r \in RegisteredRows \union DeregistrationRows : Good(r)
  BY DEF RegisteredRows, DeregistrationRows, Row, Expiries, TimerOf, Calm
<1>. QED
  BY <1>1, <1>2, <1>3 DEF Rows

LEMMA RejectedAfter ==
  ASSUME NEW v, NEW a, NEW b, Leaves(v, a, b), v.hardRemove /\ v.present => FALSE
  PROVE  Rejected'
BY DEF Leaves, Rejected

LEMMA EffectKeepsRejected ==
  ASSUME "crossing" \notin Env, RejectInv, due = {}, NEW v, NEW a, NEW b, Effect(v, a, b)
  PROVE  Rejected' /\ Agrees'
<1>0. /\ ue.hardRemove /\ ue.present =>
            ue.n2 = "releasing" /\ ue.rm = "DEREGISTERED" /\ Then = "none" /\ First \in Trailing
      /\ \A x \in {"clearVolatile", "lowerLayerFailure", "dispatch", "startAuthentication",
                   "startSecurityMode", "acceptReused", "acceptMigrated"} : x \notin Trailing
      /\ CallInv
  BY DEF RejectInv, Rejected, Trailing, Challenges, FsmInv
<1>1. CASE Clearing(v, a, b)
  <2>1. Leaves(v, a, b) /\ fsm' = None /\ ue' = v
    BY <1>1 DEF Clearing, Leaves
  <2>2. v.hardRemove /\ v.present => FALSE
    BY <1>0, <1>1 DEF Clearing, No
  <2>3. State' = "DEREGISTERED"
    BY <2>1, StateDropped
  <2>. QED
    BY <2>1, <2>2, <2>3, RejectedAfter DEF Agrees
<1>2. CASE Resetting(v, a, b)
  <2>1. /\ Leaves(v, a, b) /\ ue' = v /\ v.hardRemove = ue.hardRemove /\ v.present = ue.present
        /\ v.rm = "REGISTERED" /\ First = "lowerLayerFailure"
    BY <1>2 DEF Resetting, Leaves, Changes
  <2>. QED
    BY <1>0, <2>1, RejectedAfter DEF Agrees
<1>3. CASE Served(v, a, b)
  <2>1. /\ Leaves(v, a, b) /\ ue' = v /\ v.hardRemove = ue.hardRemove /\ v.present = ue.present
        /\ ue.n2 = "connected" /\ v.n2 = ue.n2 /\ UNCHANGED <<fsm, fstate>>
        /\ v.rm = ue.rm \/ v.rm = "REGISTERED"
    BY <1>3 DEF Served, Fits, Leaves, Changes
  <2>. QED
    BY <1>0, <2>1, StateKept, RejectedAfter DEF RejectInv, Agrees
<1>4. CASE Greeted(v, a, b)
  <2>1. /\ Leaves(v, a, b) /\ ue' = v /\ v.hardRemove = ue.hardRemove /\ v.present = ue.present
        /\ v.rm = ue.rm /\ UNCHANGED <<fsm, fstate>>
        /\ (ue.n2 = "idle" /\ v.n2 = "connected") \/ (v = ue /\ First = "dispatch")
    BY <1>4 DEF Greeted, Leaves, Changes
  <2>. QED
    BY <1>0, <2>1, StateKept, RejectedAfter DEF RejectInv, Agrees
<1>5. CASE Cut(v, a, b) \/ Deregistered(v, a, b)
  <2>1. /\ Leaves(v, a, b) /\ ue' = v /\ v.hardRemove = ue.hardRemove /\ v.present = ue.present
        /\ ue.n2 = "connected" /\ v.n2 = "releasing"
    BY <1>5 DEF Cut, Deregistered, Leaves, Changes
  <2>. QED
    BY <1>0, <2>1, RejectedAfter DEF Agrees
<1>6. CASE Completed(v, a, b)
  <2>1. /\ Leaves(v, a, b) /\ ue' = v /\ v.hardRemove = ue.hardRemove /\ v.present = ue.present
        /\ v.rm = "REGISTERED" /\ ue.rm = "REGISTERED"
    BY <1>6 DEF Completed, Leaves, Changes
  <2>. QED
    BY <1>0, <2>1, RejectedAfter DEF Agrees
<1>7. CASE Started(v, a, b)
  <2>1. /\ Leaves(v, a, b) /\ ue' = v /\ v.hardRemove = ue.hardRemove /\ v.present = ue.present
        /\ v.n2 = ue.n2 /\ v.rm = ue.rm /\ UNCHANGED <<fsm, fstate>>
        /\ First \in {"startAuthentication", "startSecurityMode", "acceptReused", "acceptMigrated"}
    BY <1>7 DEF Started, Leaves, Changes
  <2>. QED
    BY <1>0, <2>1, StateKept, RejectedAfter DEF RejectInv, Agrees
<1>8. CASE Aborted(v, a, b)
  <2>1. /\ Leaves(v, a, b) /\ ue' = v /\ v.n2 = N2Released(ue.n2) /\ v.rm = "DEREGISTERED"
        /\ armed' = {} /\ due' = {} /\ First = "abortRegistration" /\ a = Then /\ b = "none"
    BY <1>8 DEF Aborted, Leaves
  <2>2. a \in Trailing
    BY <1>0, <2>1 DEF CallInv, Ordered, After, Trailing
  <2>3. v.n2 = "releasing"
    BY <1>0, <2>1 DEF CallInv, N2Released
  <2>. QED
    BY <2>1, <2>2, <2>3 DEF Leaves, Moves, Rejected, Agrees
<1>. QED
  BY <1>1, <1>2, <1>3, <1>4, <1>5, <1>6, <1>7, <1>8 DEF Effect

LEMMA TookAgrees ==
  ASSUME NEW v, NEW r, Took(v, r), State' = r.to
  PROVE  Agrees'
BY DEF Took, Agrees, Calm

\* No row that a rejected UE may still fire makes it registered.
LEMMA TookRejected ==
  ASSUME Rejected, NEW o \in Objs, NEW r \in Rows, Base, Take(o, r, o), NEW v, Took(v, r),
         due' \subseteq due, r.to \notin {"REGISTERED", "REGISTERED_INITIATED"}, NEW a \in Trailing,
         Moves(a, "none"), ue.hardRemove, ue.present
  PROVE  Rejected'
<1>1. /\ ue' = v /\ v.n2 = "releasing" /\ v.rm = "DEREGISTERED"
  BY DEF Rejected, Took, N2Released, Calm
<1>2. armed' \subseteq armed \union {<<o, e>> : e \in r.start}
  BY TakeState
<1>3. \A e \in r.start : e # "T3550Expired"
  <2>1. \A e \in r.start : StateOf[e] = r.to
    BY TableSound DEF SoundRow
  <2>. QED
    BY <2>1 DEF StateOf
<1>4. \A t \in armed' \union due' : t[2] # "T3550Expired"
  BY <1>2, <1>3 DEF Rejected
<1>. QED
  BY <1>1, <1>4 DEF Rejected, Moves

LEMMA WorkerFiresKeepsRejected ==
  ASSUME RejectInv, due = {}, WorkerFires
  PROVE  Rejected' /\ Agrees'
<1>0. /\ due' = due /\ First \in Said /\ Moves(Then, "none")
      /\ Ignored \/ \E r, o, v : Fired(r, o, v)
  BY WorkerFiresEffect DEF RejectInv, FsmInv, IInv
<1>1. CASE Ignored
  <2>1. UNCHANGED <<fsm, fstate, armed, ue>> /\ State' = State
    BY <1>1, StateKept DEF Ignored
  <2>2. Rejected'
    BY <1>0, <2>1 DEF RejectInv, Rejected, Moves, Trailing
  <2>. QED
    BY <2>1, <2>2 DEF RejectInv, Agrees
<1>2. CASE \E r, o, v : Fired(r, o, v)
  <2>1. PICK r, o, v : Fired(r, o, v)
    BY <1>2
  <2>2. r \in Rows /\ o \in Objs /\ Take(o, r, o) /\ Took(v, r) /\ r.on = First /\ State' = r.to
    BY <2>1, TakeState DEF Fired, RejectInv, FsmInv, IInv
  <2>3. CASE ue.hardRemove /\ ue.present
    <3>1. First \in Trailing /\ Then = "none" /\ "none" \in Trailing
      BY <2>3 DEF RejectInv, Rejected, Trailing
    <3>2. r.to \in {"AUTHENTICATION", "SECURITY_MODE"}
      BY <2>2, <3>1, TrailingRows
    <3>3. Rejected /\ Base
      BY DEF RejectInv, FsmInv, IInv
    <3>. QED
      BY <1>0, <2>2, <2>3, <3>1, <3>2, <3>3, TookRejected, TookAgrees
  <2>4. CASE ~(ue.hardRemove /\ ue.present)
    <3>1. ue' = v /\ v.hardRemove = ue.hardRemove /\ v.present = ue.present
      BY <2>2 DEF Took, Changes
    <3>. QED
      BY <2>2, <2>4, <3>1, TookAgrees DEF Rejected
  <2>. QED
    BY <2>3, <2>4
<1>. QED
  BY <1>0, <1>1, <1>2

LEMMA DeliverKeepsRejected ==
  ASSUME RejectInv, NEW t \in due, Deliver(t)
  PROVE  Rejected' /\ Agrees'
<1>0. /\ due' = due \ {t} /\ Moves(First, Then)
      /\ Ignored \/ \E r, v : Expired(t, r, v)
  BY DeliverEffect DEF RejectInv, FsmInv
<1>1. CASE Ignored
  <2>1. UNCHANGED <<fsm, fstate, armed, ue>> /\ State' = State
    BY <1>1, StateKept DEF Ignored
  <2>2. Rejected'
    BY <1>0, <2>1 DEF RejectInv, Rejected, Moves
  <2>. QED
    BY <2>1, <2>2 DEF RejectInv, Agrees
<1>2. CASE \E r, v : Expired(t, r, v)
  <2>1. PICK r, v : Expired(t, r, v)
    BY <1>2
  <2>2. t[1] = fsm /\ fsm \in Objs /\ t[2] \in Expiries /\ t[2] # "T3555Expired"
    BY DEF RejectInv, FsmInv, IInv, Base, Shape, Sole, Current, Timely
  <2>3. r \in Rows /\ Take(fsm, r, fsm) /\ Took(v, r) /\ r.on = t[2]
    BY <2>1, <2>2 DEF Expired
  <2>4. State' = r.to
    BY <2>2, <2>3, TakeState DEF RejectInv, FsmInv, IInv
  <2>5. CASE ue.hardRemove /\ ue.present
    <3>1. First \in Trailing /\ Then = "none" /\ t[2] # "T3550Expired"
      BY <2>5 DEF RejectInv, Rejected
    <3>2. r.to = "DEREGISTERED"
      BY <2>2, <2>3, <3>1, ExpiryRows DEF Calm
    <3>3. Rejected /\ Base /\ due' \subseteq due /\ Moves(First, "none")
      BY <1>0, <3>1 DEF RejectInv, FsmInv, IInv
    <3>. QED
      BY <2>2, <2>3, <2>4, <2>5, <3>1, <3>2, <3>3, TookRejected, TookAgrees
  <2>6. CASE ~(ue.hardRemove /\ ue.present)
    <3>1. ue' = v /\ v.hardRemove = ue.hardRemove /\ v.present = ue.present
      BY <2>3 DEF Took, Changes
    <3>. QED
      BY <2>3, <2>4, <2>6, <3>1, TookAgrees DEF Rejected
  <2>. QED
    BY <2>5, <2>6
<1>. QED
  BY <1>0, <1>1, <1>2

LEMMA NextKeepsRejected ==
  ASSUME "race" \notin Env, "crossing" \notin Env, RejectInv, [Next]_vars
  PROVE  RejectInv'
<1>0. FsmInv'
  BY NextKeepsFsm DEF RejectInv
<1>1. CASE Worker
  <2>1. due = {} /\ (WorkerFires \/ \E v, a, b : Effect(v, a, b))
    BY <1>1, WorkerEffect DEF Worker, RejectInv, FsmInv, IInv
  <2>. QED
    BY <1>0, <2>1, EffectKeepsRejected, WorkerFiresKeepsRejected DEF RejectInv
<1>2. CASE \E timers \in SUBSET armed : Expire(timers)
  <2>1. UNCHANGED <<fsm, fstate, ue, todo>> /\ armed' \union due' \subseteq armed \union due
    BY <1>2 DEF Expire
  <2>2. First' = First /\ Then' = Then /\ State' = State
    BY <2>1, StateKept DEF First, Then
  <2>3. Rejected' /\ Agrees'
    BY <2>1, <2>2 DEF RejectInv, Rejected, Agrees
  <2>. QED
    BY <1>0, <2>3 DEF RejectInv
<1>3. CASE \E t \in due : Deliver(t)
  BY <1>0, <1>3, DeliverKeepsRejected DEF RejectInv
<1>4. CASE UNCHANGED vars
  <2>1. First' = First /\ Then' = Then /\ State' = State
    BY <1>4, StateKept DEF vars, First, Then
  <2>2. Rejected' /\ Agrees'
    BY <1>4, <2>1 DEF vars, RejectInv, Rejected, Agrees
  <2>. QED
    BY <1>0, <2>2 DEF RejectInv
<1>. QED
  BY <1>1, <1>2, <1>3, <1>4 DEF Next

LEMMA InitRejected == Init => RejectInv
<1>1. Init => ue.hardRemove = No /\ State = "DEREGISTERED"
  BY FreshCtx DEF Init, State
<1>. QED
  BY <1>1, InitFsm DEF RejectInv, Rejected, Agrees, No

\* The context of a rejected UE does not outlive the connection, as long as no
\* message crosses the release and no pass of the tick goroutine overlaps a handler.
THEOREM RejectedRemoved ==
  "race" \notin Env /\ "crossing" \notin Env => (Spec => []RejectedIsRemoved)
<1> SUFFICES ASSUME "race" \notin Env, "crossing" \notin Env PROVE Spec => []RejectedIsRemoved
  OBVIOUS
<1>1. RejectInv /\ [Next]_vars => RejectInv'
  BY NextKeepsRejected
<1>2. RejectInv => RejectedIsRemoved
  BY DEF RejectInv, Rejected, RejectedIsRemoved
<1>. QED
  BY InitRejected, <1>1, <1>2, PTL DEF Spec

\* In the same environment, an FSM in REGISTERED means a UE in RM-REGISTERED, the
\* time of a release left aside.
THEOREM RegisteredAgree ==
  "race" \notin Env /\ "crossing" \notin Env => (Spec => []StateAgrees)
<1> SUFFICES ASSUME "race" \notin Env, "crossing" \notin Env PROVE Spec => []StateAgrees
  OBVIOUS
<1>1. RejectInv /\ [Next]_vars => RejectInv'
  BY NextKeepsRejected
<1>2. RejectInv => StateAgrees
  BY DEF RejectInv, Agrees, StateAgrees
<1>. QED
  BY InitRejected, <1>1, <1>2, PTL DEF Spec

-----------------------------------------------------------------------------
(* The fourth layer: no request collides with a procedure either.           *)

\* A handler finds the FSM where its last call expects it, and no handler runs
\* while an expiry is due.
AsExpected == Expected(Goal(First, Then)) /\ (due # {} => First = "none")

\* The release of a registered UE leaves nothing to wait for, but for the
\* clean-up of the procedure it interrupted.
ReleaseEndsWait ==
    /\ ue.present /\ ue.n2 = "releasing" /\ ue.rm = "REGISTERED" =>
          /\ First \in {"none", "lowerLayerFailure"} /\ Then = "none"
          /\ State \in Waiting => First = "lowerLayerFailure"
    /\ ue.present /\ ue.n2 = "idle" => State \notin Waiting

\* While the FSM waits, a timer is running or due, and a procedure is in progress.
WaitEnds ==
    ue.present /\ ue.n2 = "connected" /\ State \in Waiting =>
        /\ armed \union due # {}
        /\ ue.proc # "none" \/ First = "RegistrationComplete"
        /\ State = "IDENTIFICATION" => ue.proc = "registration"

WaitInv == AsExpected /\ ReleaseEndsWait /\ WaitEnds

GuardInv == FsmInv /\ WaitInv

LEMMA WaitingRows == \A r \in Rows : r.to \in Waiting => r.start # {}
<1> DEFINE Good(r) == r.to \in Waiting => r.start # {}
<1>1. \A r \in IdentificationRows \union AuthenticationRows \union SecurityModeRows : Good(r)
  BY DEF IdentificationRows, AuthenticationRows, SecurityModeRows, Row, Waiting
<1>2. \A r \in RegistrationRequestRows \union AcceptRows : Good(r)
  BY DEF RegistrationRequestRows, AcceptRows, Row, Waiting
<1>3. \A r \in RegisteredRows \union DeregistrationRows : Good(r)
  BY DEF RegisteredRows, DeregistrationRows, Row, Waiting
<1>. QED
  BY <1>1, <1>2, <1>3 DEF Rows

\* The events that are followed by another call end a registration.
Ending == {"IdentityResponseFail", "SecurityModeReject", "AuthResponseInvalid",
           "AuthenticationFailure", "DeregistrationRequestMO", "DeregistrationAcceptMT"}

LEMMA EndingRows == \A r \in Rows : r.on \in Ending => r.to # "REGISTERED"
<1> DEFINE Good(r) == r.on \in Ending => r.to # "REGISTERED"
<1>1. \A r \in IdentificationRows \union AuthenticationRows \union SecurityModeRows : Good(r)
  BY DEF IdentificationRows, AuthenticationRows, SecurityModeRows, Row, Ending
<1>2. \A r \in RegistrationRequestRows \union AcceptRows : Good(r)
  BY DEF RegistrationRequestRows, AcceptRows, Row, Ending
<1>3. \A r \in RegisteredRows \union DeregistrationRows : Good(r)
  BY DEF RegisteredRows, DeregistrationRows, Row, Ending
<1>. QED
  BY <1>1, <1>2, <1>3 DEF Rows

LEMMA ThenAfterEvent ==
  ASSUME CallInv, First \in Events
  PROVE  /\ Then \in {"none", "abortRegistration", "authenticationReject", "clearVolatile"}
         /\ Then # "none" => First \in Ending
<1>1. First \notin {"startAuthentication", "startSecurityMode", "abortRegistration"}
  BY NoOpIsEvent DEF Ops
<1>. QED
  BY <1>1 DEF CallInv, Ordered, After, Ending

\* No row is missing for an expiry, or for a Registration Complete.
LEMMA ExpiryMatches ==
  /\ \A e \in Expiries \ {"T3555Expired"} : Match(StateOf[e], e) # {}
  /\ Match("REGISTERED_INITIATED", "RegistrationComplete") # {}
<1>1. Row("IDENTIFICATION", "T3570Expired", "DEREGISTERED", {}, {}) \in Rows
  BY Zenon DEF Rows, IdentificationRows
<1>2. Row("AUTHENTICATION", "T3560AuthExpired", "DEREGISTERED", {}, {}) \in Rows
  BY Zenon DEF Rows, AuthenticationRows
<1>3. Row("SECURITY_MODE", "T3560SMCExpired", "DEREGISTERED", {}, {}) \in Rows
  BY Zenon DEF Rows, SecurityModeRows
<1>4. /\ Row("REGISTERED_INITIATED", "T3550Expired", "REGISTERED", {}, {"T3512Expired"}) \in Rows
      /\ Row("REGISTERED_INITIATED", "RegistrationComplete", "REGISTERED", {"T3550"}, {"T3512Expired"})
           \in Rows
  BY Zenon DEF Rows, AcceptRows
<1>5. Row("REGISTERED", "T3512Expired", "DEREGISTERED", {}, {}) \in Rows
  BY Zenon DEF Rows, RegisteredRows
<1>6. /\ Row("MT_DEREG_PENDING", "T3522Expired", "DEREGISTERED", {}, {}) \in Rows
      /\ Row("DEREGISTRATION_INITIATED", "TwaitExpired", "DEREGISTERED", {}, {}) \in Rows
  BY Zenon DEF Rows, DeregistrationRows
<1>7. \A from, on, to, stop, start :
        Row(from, on, to, stop, start) \in Rows => Match(from, on) # {}
  <2>1. \A from, on, to, stop, start :
          Row(from, on, to, stop, start).from = from /\ Row(from, on, to, stop, start).on = on
    BY DEF Row
  <2>. QED
    BY <2>1 DEF Match
<1>8. \A e \in Expiries \ {"T3555Expired"} :
        \/ e = "T3570Expired" /\ StateOf[e] = "IDENTIFICATION"
        \/ e = "T3560AuthExpired" /\ StateOf[e] = "AUTHENTICATION"
        \/ e = "T3560SMCExpired" /\ StateOf[e] = "SECURITY_MODE"
        \/ e = "T3550Expired" /\ StateOf[e] = "REGISTERED_INITIATED"
        \/ e = "T3512Expired" /\ StateOf[e] = "REGISTERED"
        \/ e = "T3522Expired" /\ StateOf[e] = "MT_DEREG_PENDING"
        \/ e = "TwaitExpired" /\ StateOf[e] = "DEREGISTRATION_INITIATED"
  BY DEF Expiries, TimerOf, StateOf
<1>9. \A e \in Expiries \ {"T3555Expired"} : Match(StateOf[e], e) # {}
  BY <1>1, <1>2, <1>3, <1>4, <1>5, <1>6, <1>7, <1>8
<1>10. Match("REGISTERED_INITIATED", "RegistrationComplete") # {}
  BY <1>4, <1>7
<1>. QED
  BY <1>9, <1>10

LEMMA StateKinds ==
  /\ Base => State \in States
  /\ \A s \in States : s \in Calm \/ s \in Waiting
  /\ Calm \intersect Waiting = {} /\ "DEREGISTERED" \in Calm /\ "REGISTERED" \in Calm
<1>1. Base => State \in States
  BY DEF Base, Shape, State, States
<1>. QED
  BY <1>1 DEF States, Calm, Waiting

\* When the FSM waits for nothing there is little to say.
LEMMA CalmKeepsWait ==
  ASSUME State' \in Calm, NEW v, NEW a, NEW b, Leaves(v, a, b), due' = {},
         State' = "DEREGISTERED" \/ Goal(a, b) \notin DOMAIN Awaits,
         v.present /\ v.n2 = "releasing" /\ v.rm = "REGISTERED" =>
            a \in {"none", "lowerLayerFailure"} /\ b = "none"
  PROVE  WaitInv'
<1>1. ue' = v /\ First' = a /\ Then' = b
  BY DEF Leaves, Moves
<1>2. State' \notin Waiting
  BY StateKinds
<1>3. Expected(Goal(a, b))'
  BY DEF Expected
<1>4. AsExpected'
  BY <1>1, <1>3 DEF AsExpected, Goal
<1>. QED
  BY <1>1, <1>2, <1>4 DEF WaitInv, ReleaseEndsWait, WaitEnds

\* A step that leaves the FSM where it is: what it must see to.
LEMMA SameStateKeepsWait ==
  ASSUME UNCHANGED <<fsm, fstate>>, due' = {}, NEW v, NEW a, NEW b, Leaves(v, a, b),
         Expected(Goal(a, b)),
         v.present /\ v.n2 = "releasing" /\ v.rm = "REGISTERED" =>
            /\ a \in {"none", "lowerLayerFailure"} /\ b = "none"
            /\ State \in Waiting => a = "lowerLayerFailure",
         v.present /\ v.n2 = "idle" => State \notin Waiting,
         v.present /\ v.n2 = "connected" /\ State \in Waiting =>
            /\ armed' # {}
            /\ v.proc # "none" \/ a = "RegistrationComplete"
            /\ State = "IDENTIFICATION" => v.proc = "registration"
  PROVE  WaitInv'
<1>1. ue' = v /\ First' = a /\ Then' = b /\ State' = State
  BY StateKept DEF Leaves, Moves
<1>2. Expected(Goal(a, b))'
  BY <1>1 DEF Expected
<1>3. AsExpected'
  BY <1>1, <1>2 DEF AsExpected, Goal
<1>. QED
  BY <1>1, <1>3 DEF WaitInv, ReleaseEndsWait, WaitEnds

LEMMA NothingExpected ==
  \A op : op \notin Beginning \union DOMAIN Awaits => Expected(op)
BY DEF Expected

LEMMA DroppingKeepsWait ==
  ASSUME FsmInv, due = {}, NEW v, NEW a, NEW b, Clearing(v, a, b) \/ Resetting(v, a, b)
  PROVE  WaitInv'
<1>1. CASE Clearing(v, a, b)
  <2>1. Leaves(v, a, b) /\ due' = {} /\ (~v.present \/ v.rm = "DEREGISTERED") /\ fsm' = None
    BY <1>1 DEF Clearing
  <2>2. State' = "DEREGISTERED" /\ "DEREGISTERED" \in Calm
    BY <2>1, StateDropped, StateKinds
  <2>. QED
    BY <2>1, <2>2, CalmKeepsWait
<1>2. CASE Resetting(v, a, b)
  <2>1. Leaves(v, a, b) /\ due' = {} /\ a = "none" /\ b = "none"
    BY <1>2 DEF Resetting
  <2>2. PICK o \in Objs : fsm' = o /\ fstate' = [fstate EXCEPT ![o] = "REGISTERED"]
    BY <1>2 DEF Resetting
  <2>3. State' = "REGISTERED" /\ State' \in Calm
    BY <2>2, GmmAssumption, StateKinds DEF State, FsmInv, IInv, Base, Shape
  <2>4. Goal(a, b) \notin DOMAIN Awaits
    BY <2>1 DEF Goal, Awaits
  <2>. QED
    BY <2>1, <2>3, <2>4, CalmKeepsWait
<1>. QED
  BY <1>1, <1>2

LEMMA ServedKeepsWait ==
  ASSUME "crossing" \notin Env, "collision" \notin Env, GuardInv, due = {},
         NEW v, NEW a, NEW b, Served(v, a, b)
  PROVE  WaitInv'
<1>1. /\ Leaves(v, a, b) /\ UNCHANGED <<fsm, fstate>> /\ due' = {} /\ armed' = armed
      /\ First \in {"none", "dispatch"} /\ ue.present /\ ue.n2 = "connected"
      /\ v.n2 = "connected" /\ Fits(v, a, b)
  BY DEF Served, Changes
<1>2. State \in Waiting =>
        armed # {} /\ ue.proc # "none" /\ (State = "IDENTIFICATION" => ue.proc = "registration")
  BY <1>1 DEF GuardInv, WaitInv, WaitEnds
<1>3. \/ v.proc = ue.proc \/ v.proc = "registration"
      \/ a = "RegistrationComplete" /\ State = "REGISTERED_INITIATED"
  BY <1>1 DEF Fits
<1>4. Expected(Goal(a, b)) \/ (ue.proc = "none" /\ Goal(a, b) \notin DOMAIN Awaits)
  BY <1>1 DEF Fits
<1>5. State \in Waiting \/ State \in Calm
  BY StateKinds DEF GuardInv, FsmInv, IInv
<1>6. Expected(Goal(a, b))
  BY <1>2, <1>4, <1>5 DEF Expected
<1>7. State \in Waiting =>
        /\ v.proc # "none" \/ a = "RegistrationComplete"
        /\ State = "IDENTIFICATION" => v.proc = "registration"
  BY <1>2, <1>3
<1>. QED
  BY <1>1, <1>2, <1>6, <1>7, SameStateKeepsWait

LEMMA ConnectionKeepsWait ==
  ASSUME "crossing" \notin Env, GuardInv, due = {}, NEW v, NEW a, NEW b,
         Greeted(v, a, b) \/ Cut(v, a, b) \/ Completed(v, a, b)
  PROVE  WaitInv'
<1>0. \A op \in {"none", "dispatch", "lowerLayerFailure"} : Expected(Goal(op, "none"))
  BY NothingExpected DEF Goal, Beginning, Awaits
<1>1. CASE Greeted(v, a, b)
  <2>1. /\ Leaves(v, a, b) /\ UNCHANGED <<fsm, fstate>> /\ due' = {} /\ armed' = armed /\ b = "none"
        /\ a \in {"none", "dispatch"}
    BY <1>1 DEF Greeted
  <2>2. CASE a = "dispatch" /\ First = "none"
    <3>1. v.n2 = "connected" /\ ue.present /\ ue.n2 = "idle"
      BY <1>1, <2>2 DEF Greeted
    <3>2. State \notin Waiting
      BY <3>1 DEF GuardInv, WaitInv, ReleaseEndsWait
    <3>. QED
      BY <1>0, <2>1, <3>1, <3>2, SameStateKeepsWait
  <2>3. CASE v = ue /\ First = "dispatch" /\ a = "none"
    <3>1. /\ v.present /\ v.n2 = "releasing" /\ v.rm = "REGISTERED" => State \notin Waiting
          /\ v.present /\ v.n2 = "idle" => State \notin Waiting
          /\ v.present /\ v.n2 = "connected" /\ State \in Waiting =>
                armed # {} /\ v.proc # "none" /\ (State = "IDENTIFICATION" => v.proc = "registration")
      BY <2>3 DEF GuardInv, WaitInv, ReleaseEndsWait, WaitEnds
    <3>. QED
      BY <1>0, <2>1, <2>3, <3>1, SameStateKeepsWait
  <2>. QED
    BY <1>1, <2>2, <2>3 DEF Greeted
<1>2. CASE Cut(v, a, b)
  <2>1. /\ Leaves(v, a, b) /\ UNCHANGED <<fsm, fstate>> /\ due' = {} /\ b = "none" /\ First = "none"
        /\ a = (IF ue.proc = "none" THEN "none" ELSE "lowerLayerFailure")
        /\ ue.present /\ ue.n2 = "connected" /\ v.n2 = "releasing"
    BY <1>2 DEF Cut
  <2>2. State \in Waiting => ue.proc # "none"
    BY <2>1 DEF GuardInv, WaitInv, WaitEnds
  <2>. QED
    BY <1>0, <2>1, <2>2, SameStateKeepsWait
<1>3. CASE Completed(v, a, b)
  <2>1. /\ Leaves(v, a, b) /\ UNCHANGED <<fsm, fstate>> /\ due' = {} /\ a = "none" /\ b = "none"
        /\ First = "none" /\ ue.present /\ ue.n2 = "releasing" /\ ue.rm = "REGISTERED" /\ v.n2 = "idle"
    BY <1>3 DEF Completed
  <2>2. State \notin Waiting
    BY <2>1 DEF GuardInv, WaitInv, ReleaseEndsWait
  <2>. QED
    BY <1>0, <2>1, <2>2, SameStateKeepsWait
<1>. QED
  BY <1>1, <1>2, <1>3

LEMMA HandlerKeepsWait ==
  ASSUME GuardInv, due = {}, NEW v, NEW a, NEW b,
         Deregistered(v, a, b) \/ Started(v, a, b) \/ Aborted(v, a, b)
  PROVE  WaitInv'
<1>1. CASE Deregistered(v, a, b)
  <2>1. /\ Leaves(v, a, b) /\ UNCHANGED <<fsm, fstate>> /\ due' = {} /\ b = "clearVolatile"
        /\ v.n2 = "releasing" /\ v.rm = "DEREGISTERED"
    BY <1>1 DEF Deregistered
  <2>2. Expected(Goal(a, b))
    BY <2>1, NothingExpected DEF Goal, Beginning, Awaits
  <2>. QED
    BY <2>1, <2>2, SameStateKeepsWait
<1>2. CASE Started(v, a, b)
  <2>1. /\ Leaves(v, a, b) /\ UNCHANGED <<fsm, fstate>> /\ due' = {} /\ armed' = armed
        /\ First \in {"startAuthentication", "startSecurityMode", "acceptReused", "acceptMigrated"}
        /\ v.present = ue.present /\ v.n2 = ue.n2 /\ v.rm = ue.rm
        /\ v.proc = ue.proc \/ v.proc = "registration"
        /\ \/ Goal(a, b) = Goal(First, Then)
           \/ Goal(a, b) \notin Beginning \union DOMAIN Awaits
           \/ Goal(First, Then) \in Beginning /\ Goal(a, b) \notin DOMAIN Awaits
    BY <1>2 DEF Started, Changes
  <2>2. Expected(Goal(First, Then))
    BY DEF GuardInv, WaitInv, AsExpected
  <2>3. Expected(Goal(a, b))
    BY <2>1, <2>2 DEF Expected
  <2>4. /\ v.present /\ v.n2 = "releasing" /\ v.rm = "REGISTERED" => FALSE
        /\ v.present /\ v.n2 = "idle" => State \notin Waiting
        /\ v.present /\ v.n2 = "connected" /\ State \in Waiting =>
                armed # {} /\ ue.proc # "none" /\ (State = "IDENTIFICATION" => ue.proc = "registration")
    BY <2>1 DEF GuardInv, WaitInv, ReleaseEndsWait, WaitEnds
  <2>5. v.present /\ v.n2 = "connected" /\ State \in Waiting =>
                armed' # {} /\ v.proc # "none" /\ (State = "IDENTIFICATION" => v.proc = "registration")
    BY <2>1, <2>4
  <2>. QED
    BY <2>1, <2>3, <2>4, <2>5, SameStateKeepsWait
<1>3. CASE Aborted(v, a, b)
  <2>1. /\ Leaves(v, a, b) /\ UNCHANGED <<fsm, fstate>> /\ due' = {} /\ b = "none" /\ a = Then
        /\ First = "abortRegistration" /\ v.n2 = N2Released(ue.n2) /\ v.rm = "DEREGISTERED"
    BY <1>3 DEF Aborted
  <2>2. v.n2 = "releasing"
    BY <2>1 DEF GuardInv, FsmInv, CallInv, N2Released
  <2>3. Expected(Goal(a, b))
    <3>1. Goal(a, b) = Then
      BY <2>1 DEF Goal
    <3>2. CASE Then = "none"
      BY <3>1, <3>2, NothingExpected DEF Beginning, Awaits
    <3>3. CASE Then # "none"
      BY <3>1, <3>3 DEF Goal, GuardInv, WaitInv, AsExpected
    <3>. QED
      BY <3>2, <3>3
  <2>. QED
    BY <2>1, <2>2, <2>3, SameStateKeepsWait
<1>. QED
  BY <1>1, <1>2, <1>3

LEMMA EffectKeepsWait ==
  ASSUME "crossing" \notin Env, "collision" \notin Env, GuardInv, due = {},
         NEW v, NEW a, NEW b, Effect(v, a, b)
  PROVE  WaitInv'
BY DroppingKeepsWait, ServedKeepsWait, ConnectionKeepsWait, HandlerKeepsWait DEF Effect, GuardInv

LEMMA WorkerFiresKeepsWait ==
  ASSUME GuardInv, due = {}, WorkerFires
  PROVE  WaitInv'
<1>0. /\ First \in Events /\ First \in Said /\ Moves(Then, "none") /\ due' = {}
      /\ (Ignored /\ Match(State, First) = {}) \/ \E r, o, v : Fired(r, o, v)
  BY WorkerFiresEffect DEF GuardInv, FsmInv, IInv
<1>1. /\ First \notin {"none", "lowerLayerFailure"} /\ ue.n2 # "idle"
      /\ Then \in {"none", "abortRegistration", "authenticationReject", "clearVolatile"}
      /\ Then # "none" => First \in Ending
  BY <1>0, NoOpIsEvent, SaidNames, ThenAfterEvent DEF GuardInv, FsmInv, CallInv, Ops
<1>2. Goal(Then, "none") = Then /\ Expected(Then) /\ Then \notin DOMAIN Awaits \union Beginning
  BY <1>1 DEF Goal, Expected, Beginning, Awaits
<1>3. ue.present /\ ue.n2 = "releasing" => ue.rm = "DEREGISTERED"
  <2>1. ue.rm \in Rms
    BY CtxFields DEF GuardInv, FsmInv, CallInv
  <2>. QED
    BY <1>1, <2>1 DEF GuardInv, WaitInv, ReleaseEndsWait, Rms
<1>4. CASE Ignored /\ Match(State, First) = {}
  <2>1. Leaves(ue, Then, "none") /\ UNCHANGED <<fsm, fstate, armed>>
    BY <1>0, <1>4 DEF Ignored, Leaves, GuardInv, FsmInv, CallInv
  <2>2. First = "RegistrationComplete" => State \notin Waiting
    <3>1. First = "RegistrationComplete" => Then = "none"
      BY <1>1 DEF Ending
    <3>2. First = "RegistrationComplete" => State \in {"REGISTERED_INITIATED", "DEREGISTERED"}
      BY <3>1 DEF GuardInv, WaitInv, AsExpected, Expected, Goal, Awaits
    <3>. QED
      BY <1>4, <3>2, ExpiryMatches DEF Waiting
  <2>3. ue.present /\ ue.n2 = "connected" /\ State \in Waiting =>
                armed # {} /\ ue.proc # "none" /\ (State = "IDENTIFICATION" => ue.proc = "registration")
    BY <2>2 DEF GuardInv, WaitInv, WaitEnds
  <2>. QED
    BY <1>0, <1>1, <1>2, <1>3, <2>1, <2>3, SameStateKeepsWait
<1>5. CASE \E r, o, v : Fired(r, o, v)
  <2>1. PICK r, o, v : Fired(r, o, v)
    BY <1>5
  <2>2. /\ r \in Rows /\ o \in Objs /\ Take(o, r, o) /\ Took(v, r) /\ r.on = First
        /\ State' = r.to
        /\ armed' = IF Clears(r) THEN {} ELSE (armed \ Named(r.stop \union {TimerOf[e] : e \in r.start}))
                                              \union {<<o, e>> : e \in r.start}
    BY <2>1, TakeState DEF Fired, GuardInv, FsmInv, IInv
  <2>3. Leaves(v, Then, "none")
    BY <1>0, <2>2 DEF Leaves, Took
  <2>4. GivesUp(r) => r.to = "DEREGISTERED"
    BY <1>0, <2>2, SaidNames, ClearingRows DEF GivesUp, Expiries, TimerOf
  <2>5. /\ v.present = ue.present
        /\ v.rm = IF r.to \in Calm THEN r.to ELSE ue.rm
        /\ v.n2 = IF GivesUp(r) THEN "releasing" ELSE ue.n2
        /\ v.proc = Serving(r.to)
    BY <1>1, <2>2 DEF Took, Changes, N2Released
  <2>6. r.to \in States
    BY <2>2, RowEnters
  <2>7. CASE r.to \in Calm
    <3>1. v.present /\ v.n2 = "releasing" /\ v.rm = "REGISTERED" => Then = "none"
      BY <1>1, <2>2, <2>5, <2>7, EndingRows
    <3>. QED
      BY <1>0, <1>2, <2>2, <2>3, <2>7, <3>1, CalmKeepsWait
  <2>8. CASE r.to \in Waiting
    <3>1. r.to \notin Calm /\ ~GivesUp(r) /\ ~Clears(r)
      BY <2>4, <2>8, StateKinds DEF GivesUp
    <3>2. v.present /\ v.n2 = "releasing" /\ v.rm = "REGISTERED" => FALSE
      BY <1>3, <2>5, <3>1
    <3>3. armed' # {}
      BY <2>2, <2>8, <3>1, WaitingRows
    <3>4. v.proc # "none" /\ (r.to = "IDENTIFICATION" => v.proc = "registration")
      BY <2>5, <3>1 DEF Serving
    <3>5. ue' = v /\ First' = Then /\ Then' = "none"
      BY <2>3 DEF Leaves, Moves
    <3>6. AsExpected'
      <4>1. PICK x : x = Then /\ x \notin DOMAIN Awaits \union Beginning /\ Goal(x, "none") = x
        BY <1>2
      <4>2. First' = x /\ Then' = "none"
        BY <3>5, <4>1
      <4>3. Expected(x)'
        BY <4>1 DEF Expected
      <4>. QED
        BY <1>0, <4>1, <4>2, <4>3 DEF AsExpected
    <3>. QED
      BY <1>1, <2>2, <2>5, <3>1, <3>2, <3>3, <3>4, <3>5, <3>6 DEF WaitInv, ReleaseEndsWait, WaitEnds
  <2>. QED
    BY <2>6, <2>7, <2>8, StateKinds
<1>. QED
  BY <1>0, <1>4, <1>5

LEMMA DeliverKeepsWait ==
  ASSUME GuardInv, NEW t \in due, Deliver(t)
  PROVE  WaitInv'
<1>0. /\ due' = due \ {t} /\ Moves(First, Then)
      /\ (Ignored /\ Match(fstate[t[1]], t[2]) = {}) \/ \E r, v : Expired(t, r, v)
  BY DeliverEffect DEF GuardInv, FsmInv
<1>1. /\ t[1] = fsm /\ fsm \in Objs /\ due' = {} /\ t[2] \in Expiries \ {"T3555Expired"}
      /\ fstate[t[1]] = StateOf[t[2]]
  BY <1>0, OneTimer DEF GuardInv, FsmInv, IInv, Base, Shape, Sole, Current, Timely
<1>2. First = "none" /\ Then = "none"
  BY ThenSaid DEF GuardInv, WaitInv, AsExpected, FsmInv, CallInv
<1>3. PICK r, v : Expired(t, r, v)
  BY <1>0, <1>1, ExpiryMatches
<1>4. r \in Rows /\ r.on \in Expiries /\ Take(fsm, r, fsm) /\ Took(v, r)
  BY <1>1, <1>3 DEF Expired
<1>5. State' = r.to /\ r.to \in Calm
  BY <1>1, <1>4, TakeState, ExpiryRows DEF GuardInv, FsmInv, IInv
<1>6. Leaves(v, "none", "none")
  BY <1>0, <1>2, <1>4 DEF Leaves, Took
<1>7. Goal("none", "none") \notin DOMAIN Awaits
  BY DEF Goal, Awaits
<1>. QED
  BY <1>1, <1>5, <1>6, <1>7, CalmKeepsWait

LEMMA NextKeepsGuard ==
  ASSUME "race" \notin Env, "crossing" \notin Env, "collision" \notin Env, GuardInv, [Next]_vars
  PROVE  GuardInv'
<1>0. FsmInv'
  BY NextKeepsFsm DEF GuardInv
<1>1. CASE Worker
  <2>1. due = {} /\ (WorkerFires \/ \E v, a, b : Effect(v, a, b))
    BY <1>1, WorkerEffect DEF Worker, GuardInv, FsmInv, IInv
  <2>. QED
    BY <1>0, <2>1, EffectKeepsWait, WorkerFiresKeepsWait DEF GuardInv
<1>2. CASE \E timers \in SUBSET armed : Expire(timers)
  <2>1. /\ UNCHANGED <<fsm, fstate, ue, todo>> /\ armed \union due \subseteq armed' \union due'
        /\ Idle
    BY <1>2 DEF Expire
  <2>2. First' = First /\ Then' = Then /\ State' = State /\ First = "none"
    BY <2>1, StateKept, ThenSaid DEF First, Then, GuardInv, FsmInv, CallInv, Idle
  <2>3. PICK x : x = Goal(First, Then)
    OBVIOUS
  <2>4. Expected(x)' /\ Goal(First', Then') = x
    BY <2>2, <2>3 DEF GuardInv, WaitInv, AsExpected, Expected
  <2>5. WaitInv'
    BY <2>1, <2>2, <2>4 DEF GuardInv, WaitInv, AsExpected, ReleaseEndsWait, WaitEnds
  <2>. QED
    BY <1>0, <2>5 DEF GuardInv
<1>3. CASE \E t \in due : Deliver(t)
  BY <1>0, <1>3, DeliverKeepsWait DEF GuardInv
<1>4. CASE UNCHANGED vars
  <2>1. First' = First /\ Then' = Then /\ State' = State
    BY <1>4, StateKept DEF vars, First, Then
  <2>2. PICK x : x = Goal(First, Then)
    OBVIOUS
  <2>3. Expected(x)' /\ Goal(First', Then') = x
    BY <2>1, <2>2 DEF GuardInv, WaitInv, AsExpected, Expected
  <2>4. WaitInv'
    BY <1>4, <2>1, <2>3 DEF vars, GuardInv, WaitInv, AsExpected, ReleaseEndsWait, WaitEnds
  <2>. QED
    BY <1>0, <2>4 DEF GuardInv
<1>. QED
  BY <1>1, <1>2, <1>3, <1>4 DEF Next

LEMMA InitGuard == Init => GuardInv
<1> SUFFICES ASSUME Init PROVE GuardInv
  OBVIOUS
<1>1. todo = <<>> /\ ue = Fresh /\ due = {} /\ State = "DEREGISTERED"
  BY DEF Init, State
<1>2. First = "none" /\ Then = "none"
  BY <1>1, Tuples DEF Calling, First, Then
<1>3. Expected(Goal(First, Then))
  BY <1>2, NothingExpected DEF Goal, Beginning, Awaits
<1>. QED
  BY <1>1, <1>2, <1>3, InitFsm, FreshCtx, StateKinds
     DEF GuardInv, WaitInv, AsExpected, ReleaseEndsWait, WaitEnds

LEMMA GuardInvGuards == GuardInv => WaitIsGuarded
<1> SUFFICES ASSUME GuardInv, Quiet, ue.present, State \in Waiting, ue.n2 # "releasing"
             PROVE  Guarded
  BY DEF WaitIsGuarded
<1>1. ue.n2 \in N2s
  BY CtxFields DEF GuardInv, FsmInv, CallInv
<1>2. ue.n2 = "connected"
  BY <1>1 DEF N2s, GuardInv, WaitInv, ReleaseEndsWait
<1>3. PICK t \in armed : TRUE
  BY <1>2 DEF GuardInv, WaitInv, WaitEnds, Quiet
<1>4. t[1] = fsm /\ fstate[t[1]] = StateOf[t[2]]
  BY DEF GuardInv, FsmInv, IInv, Current, Timely, Sole
<1>. QED
  BY <1>4 DEF Guarded

\* Between two messages an FSM that waits for the UE has the guard of its state
\* running, the time of a release left aside: as long as no message crosses a
\* release, no request collides with a procedure and no pass of the tick goroutine
\* overlaps a handler.  The gNB may release, sends may fail, and refusals happen.
THEOREM WaitGuarded ==
  "race" \notin Env /\ "crossing" \notin Env /\ "collision" \notin Env => (Spec => []WaitIsGuarded)
<1> SUFFICES ASSUME "race" \notin Env, "crossing" \notin Env, "collision" \notin Env
             PROVE  Spec => []WaitIsGuarded
  OBVIOUS
<1>1. GuardInv /\ [Next]_vars => GuardInv'
  BY NextKeepsGuard
<1>. QED
  BY InitGuard, <1>1, GuardInvGuards, PTL DEF Spec

-----------------------------------------------------------------------------
(* The fifth layer: every message is sent.                                  *)

\* While the UE is connected, the cached PDU is the one of the event about to be
\* fired, and the one of the timer that runs, but for the moment in between.
RightPdu ==
    ue.n2 = "connected" =>
        /\ First \in DOMAIN Preparing => ue.retx = Preparing[First]
        /\ \A t \in armed \union due :
              t[2] \in DOMAIN CachedBy => ue.retx = CachedBy[t[2]] \/ First \in DOMAIN Preparing

\* A challenge is followed by its event.
Asking == First = "startAuthentication" => Then # "none"

RetxInv == GuardInv /\ RightPdu /\ Asking

LEMMA PreparedRows ==
  \A r \in Rows : \A e \in DOMAIN CachedBy :
     StateOf[e] = r.to /\ r.on \notin Expiries =>
        r.on \in DOMAIN Preparing /\ Preparing[r.on] = CachedBy[e]
<1> DEFINE Good(r) == \A e \in DOMAIN CachedBy :
     StateOf[e] = r.to /\ r.on \notin Expiries =>
        r.on \in DOMAIN Preparing /\ Preparing[r.on] = CachedBy[e]
<1>1. \A r \in IdentificationRows : Good(r)
  BY DEF IdentificationRows, Row, StateOf, CachedBy, Preparing, Expiries, TimerOf
<1>2. \A r \in AuthenticationRows : Good(r)
  BY DEF AuthenticationRows, Row, StateOf, CachedBy, Preparing, Expiries, TimerOf
<1>3. \A r \in SecurityModeRows : Good(r)
  BY DEF SecurityModeRows, Row, StateOf, CachedBy, Preparing, Expiries, TimerOf
<1>4. \A r \in RegistrationRequestRows : Good(r)
  BY DEF RegistrationRequestRows, Row, StateOf, CachedBy, Preparing, Expiries, TimerOf
<1>5. \A r \in AcceptRows : Good(r)
  BY DEF AcceptRows, Row, StateOf, CachedBy, Preparing, Expiries, TimerOf
<1>6. \A r \in RegisteredRows : Good(r)
  BY DEF RegisteredRows, Row, StateOf, CachedBy
<1>7. \A r \in DeregistrationRows : Good(r)
  BY DEF DeregistrationRows, Row, StateOf, CachedBy
<1>. QED
  BY <1>1, <1>2, <1>3, <1>4, <1>5, <1>6, <1>7 DEF Rows

\* An answer the FSM waits for has a row.
LEMMA AnswerMatches == \A e \in DOMAIN Awaits \intersect DOMAIN Preparing : Match(Awaits[e], e) # {}
<1>1. Row("IDENTIFICATION", "IdentityResponse", "AUTHENTICATION", {"T3570"}, {"T3560AuthExpired"}) \in Rows
  BY Zenon DEF Rows, IdentificationRows
<1>2. /\ Row("AUTHENTICATION", "AuthResponseValid", "SECURITY_MODE", {"T3560"}, {"T3560SMCExpired"})
           \in Rows
      /\ Row("AUTHENTICATION", "AuthRetry", "AUTHENTICATION", {"T3560"}, {"T3560AuthExpired"}) \in Rows
  BY Zenon DEF Rows, AuthenticationRows
<1>3. Row("SECURITY_MODE", "SecurityModeComplete", "REGISTERED_INITIATED", {"T3560"}, {"T3550Expired"})
        \in Rows
  BY Zenon DEF Rows, SecurityModeRows
<1>4. \A from, on, to, stop, start :
        Row(from, on, to, stop, start) \in Rows => Match(from, on) # {}
  <2>1. \A from, on, to, stop, start :
          Row(from, on, to, stop, start).from = from /\ Row(from, on, to, stop, start).on = on
    BY DEF Row
  <2>. QED
    BY <2>1 DEF Match
<1>5. \A e \in DOMAIN Awaits \intersect DOMAIN Preparing :
        \/ e = "IdentityResponse" /\ Awaits[e] = "IDENTIFICATION"
        \/ e \in {"AuthRetry", "AuthResponseValid"} /\ Awaits[e] = "AUTHENTICATION"
        \/ e = "SecurityModeComplete" /\ Awaits[e] = "SECURITY_MODE"
  BY DEF Awaits, Preparing
<1>. QED
  BY <1>1, <1>2, <1>3, <1>4, <1>5

\* The timers are those of the state, and only a state that waits caches a PDU.
LEMMA TimersOfState ==
  ASSUME FsmInv
  PROVE  /\ \A t \in armed \union due : StateOf[t[2]] = State
         /\ State \in Calm => \A t \in armed \union due : t[2] \notin DOMAIN CachedBy
<1>1. \A t \in armed \union due : StateOf[t[2]] = State
  BY GmmAssumption DEF FsmInv, IInv, Base, Shape, Current, Timely, Sole, State
<1>2. \A e \in DOMAIN CachedBy : StateOf[e] \notin Calm
  BY DEF CachedBy, StateOf, Calm
<1>. QED
  BY <1>1, <1>2

LEMMA RetxAfter ==
  ASSUME NEW v, NEW a, NEW b, Leaves(v, a, b), a = "startAuthentication" => b # "none",
         v.n2 = "connected" =>
            /\ a \in DOMAIN Preparing => v.retx = Preparing[a]
            /\ \A t \in armed' \union due' :
                  t[2] \in DOMAIN CachedBy => v.retx = CachedBy[t[2]] \/ a \in DOMAIN Preparing
  PROVE  RightPdu' /\ Asking'
BY DEF Leaves, Moves, RightPdu, Asking

LEMMA EffectKeepsRetx ==
  ASSUME "crossing" \notin Env, "collision" \notin Env, "sendFails" \notin Env,
         RetxInv, due = {}, NEW v, NEW a, NEW b, Effect(v, a, b)
  PROVE  RightPdu' /\ Asking'
<1>0. /\ \A op \in {"none", "dispatch", "lowerLayerFailure", "startAuthentication", "startSecurityMode",
                    "acceptReused", "acceptMigrated"} : op \notin DOMAIN Preparing
      /\ CallInv
  BY DEF Preparing, RetxInv, GuardInv, FsmInv
<1>1. CASE Clearing(v, a, b)
  <2>1. /\ Leaves(v, a, b) /\ armed' = {} /\ due' = {}
        /\ (a = "none" /\ b = "none") \/ (a = First /\ b = Then /\ v.retx = ue.retx /\ v.n2 = ue.n2)
    BY <1>1 DEF Clearing
  <2>2. a = "startAuthentication" => b # "none"
    BY <2>1 DEF RetxInv, Asking
  <2>3. v.n2 = "connected" /\ a \in DOMAIN Preparing => v.retx = Preparing[a]
    BY <1>0, <2>1 DEF RetxInv, RightPdu
  <2>. QED
    BY <2>1, <2>2, <2>3, RetxAfter
<1>2. CASE Resetting(v, a, b)
  <2>1. Leaves(v, a, b) /\ armed' = {} /\ due' = {} /\ a = "none" /\ b = "none"
    BY <1>2 DEF Resetting
  <2>. QED
    BY <1>0, <2>1, RetxAfter
<1>3. CASE Served(v, a, b)
  <2>1. /\ Leaves(v, a, b) /\ Fits(v, a, b) /\ armed' = armed /\ due' = due
        /\ First \in {"none", "dispatch"} /\ ue.present /\ ue.n2 = "connected"
    BY <1>3 DEF Served
  <2>2. \A t \in armed \union due : t[2] \in DOMAIN CachedBy => ue.retx = CachedBy[t[2]]
    BY <1>0, <2>1 DEF RetxInv, RightPdu
  <2>3. State = "IDENTIFICATION" => ue.proc = "registration"
    BY <2>1 DEF RetxInv, GuardInv, WaitInv, WaitEnds, Waiting
  <2>4. \/ a \notin DOMAIN Preparing /\ v.retx = ue.retx
        \/ a \in DOMAIN Preparing /\ v.retx = Preparing[a]
    BY <2>1, <2>3 DEF Fits
  <2>5. a = "startAuthentication" => b # "none"
    BY <2>1 DEF Fits
  <2>. QED
    BY <2>1, <2>2, <2>4, <2>5, RetxAfter
<1>4. CASE Greeted(v, a, b)
  <2>1. Leaves(v, a, b) /\ UNCHANGED <<armed, due>> /\ b = "none"
    BY <1>4 DEF Greeted
  <2>2. CASE a = "dispatch" /\ First = "none"
    <3>1. ue.present /\ ue.n2 = "idle"
      BY <1>4, <2>2 DEF Greeted
    <3>2. State \in Calm
      BY <3>1, StateKinds DEF RetxInv, GuardInv, WaitInv, ReleaseEndsWait, FsmInv, IInv
    <3>3. \A t \in armed \union due : t[2] \notin DOMAIN CachedBy
      BY <3>2, TimersOfState DEF RetxInv, GuardInv
    <3>. QED
      BY <1>0, <2>1, <2>2, <3>3, RetxAfter
  <2>3. CASE v = ue /\ First = "dispatch" /\ a = "none"
    <3>1. v.n2 = "connected" =>
            \A t \in armed \union due : t[2] \in DOMAIN CachedBy => v.retx = CachedBy[t[2]]
      BY <1>0, <2>3 DEF RetxInv, RightPdu
    <3>. QED
      BY <1>0, <2>1, <2>3, <3>1, RetxAfter
  <2>. QED
    BY <1>4, <2>2, <2>3 DEF Greeted
<1>5. CASE Cut(v, a, b) \/ Deregistered(v, a, b) \/ Completed(v, a, b)
  <2>1. Leaves(v, a, b) /\ v.n2 # "connected" /\ a # "startAuthentication"
    BY <1>5 DEF Cut, Deregistered, Completed
  <2>. QED
    BY <2>1, RetxAfter
<1>6. CASE Started(v, a, b)
  <2>1. /\ Leaves(v, a, b) /\ UNCHANGED <<armed, due>> /\ v.n2 = ue.n2
        /\ First \in {"startAuthentication", "startSecurityMode", "acceptReused", "acceptMigrated"}
        /\ a = "startAuthentication" => b # "none"
        /\ \/ a \in DOMAIN Preparing /\ v.retx = Preparing[a]
           \/ a \notin DOMAIN Preparing /\ v.retx = ue.retx
    BY <1>6 DEF Started, Changes, RetxInv, Asking
  <2>2. ue.n2 = "connected" =>
          \A t \in armed \union due : t[2] \in DOMAIN CachedBy => ue.retx = CachedBy[t[2]]
    BY <1>0, <2>1 DEF RetxInv, RightPdu
  <2>. QED
    BY <2>1, <2>2, RetxAfter
<1>7. CASE Aborted(v, a, b)
  <2>1. /\ Leaves(v, a, b) /\ First = "abortRegistration" /\ a = Then /\ v.n2 = N2Released(ue.n2)
    BY <1>7 DEF Aborted
  <2>2. v.n2 # "connected" /\ a # "startAuthentication"
    BY <1>0, <2>1 DEF N2Released, CallInv, Ordered, After, Challenges
  <2>. QED
    BY <2>1, <2>2, RetxAfter
<1>. QED
  BY <1>1, <1>2, <1>3, <1>4, <1>5, <1>6, <1>7 DEF Effect

LEMMA WorkerFiresKeepsRetx ==
  ASSUME RetxInv, FsmInv', due = {}, WorkerFires
  PROVE  RightPdu' /\ Asking'
<1>0. /\ First \in Events /\ First \in Said /\ Moves(Then, "none") /\ due' = {}
      /\ (Ignored /\ Match(State, First) = {}) \/ \E r, o, v : Fired(r, o, v)
  BY WorkerFiresEffect DEF RetxInv, GuardInv, FsmInv, IInv
<1>1. /\ Then \in {"none", "abortRegistration", "authenticationReject", "clearVolatile"}
      /\ Then # "none" => First \in Ending
  BY <1>0, ThenAfterEvent DEF RetxInv, GuardInv, FsmInv
<1>2. Then # "startAuthentication" /\ Then \notin DOMAIN Preparing
  BY <1>1 DEF Preparing
<1>3. CASE Ignored /\ Match(State, First) = {}
  <2>1. Leaves(ue, Then, "none") /\ UNCHANGED armed
    BY <1>0, <1>3 DEF Ignored, Leaves, RetxInv, GuardInv, FsmInv, CallInv
  <2>2. First \in DOMAIN Preparing => State \in Calm
    <3>1. SUFFICES ASSUME First \in DOMAIN Preparing PROVE State \in Calm
      OBVIOUS
    <3>2. Then = "none"
      BY <1>1, <3>1 DEF Ending, Preparing
    <3>3. First \in Beginning \/ First \in DOMAIN Awaits
      BY <3>1 DEF Preparing, Beginning, Awaits
    <3>4. Expected(First)
      BY <3>2 DEF RetxInv, GuardInv, WaitInv, AsExpected, Goal
    <3>5. CASE First \in DOMAIN Awaits
      <4>1. State = Awaits[First] \/ State = "DEREGISTERED"
        BY <3>4, <3>5 DEF Expected
      <4>2. State # Awaits[First]
        BY <1>3, <3>1, <3>5, AnswerMatches
      <4>. QED
        BY <4>1, <4>2, StateKinds
    <3>6. CASE First \in Beginning
      BY <3>4, <3>6 DEF Expected
    <3>. QED
      BY <3>3, <3>5, <3>6
  <2>3. ue.n2 = "connected" =>
          \A t \in armed \union due : t[2] \in DOMAIN CachedBy => ue.retx = CachedBy[t[2]]
    BY <2>2, TimersOfState DEF RetxInv, RightPdu, GuardInv
  <2>. QED
    BY <1>0, <1>2, <2>1, <2>3, RetxAfter
<1>4. CASE \E r, o, v : Fired(r, o, v)
  <2>1. PICK r, o, v : Fired(r, o, v)
    BY <1>4
  <2>2. /\ r \in Rows /\ o \in Objs /\ Take(o, r, o) /\ Took(v, r) /\ r.on = First
        /\ State' = r.to /\ (Clears(r) => armed' = {})
    BY <2>1, TakeState DEF Fired, RetxInv, GuardInv, FsmInv, IInv
  <2>3. Leaves(v, Then, "none")
    BY <1>0, <2>2 DEF Leaves, Took
  <2>4. ASSUME v.n2 = "connected", NEW t \in armed' \union due', t[2] \in DOMAIN CachedBy
        PROVE  v.retx = CachedBy[t[2]]
    <3>1. StateOf[t[2]] = r.to
      <4>1. \A u \in armed' \union due' : StateOf[u[2]] = State'
        BY GmmAssumption DEF FsmInv, IInv, Base, Shape, Current, Timely, Sole, State
      <4>. QED
        BY <2>2, <2>4, <4>1
    <3>2. First \notin Expiries
      BY <1>0, SaidNames
    <3>3. First \in DOMAIN Preparing /\ Preparing[First] = CachedBy[t[2]]
      BY <2>2, <2>4, <3>1, <3>2, PreparedRows
    <3>4. ue.n2 = "connected" /\ v.retx = ue.retx
      <4>1. ~Clears(r)
        BY <1>0, <2>2, <2>4
      <4>2. v.retx = ue.retx /\ (v.n2 = N2Released(ue.n2) \/ v.n2 = ue.n2)
        BY <2>2, <4>1 DEF Took
      <4>. QED
        BY <2>4, <4>2 DEF N2Released
    <3>. QED
      BY <3>3, <3>4 DEF RetxInv, RightPdu
  <2>. QED
    BY <1>2, <2>3, <2>4, RetxAfter
<1>. QED
  BY <1>0, <1>3, <1>4

LEMMA DeliverKeepsRetx ==
  ASSUME RetxInv, FsmInv', NEW t \in due, Deliver(t)
  PROVE  RightPdu' /\ Asking'
<1>0. /\ due' = due \ {t} /\ Moves(First, Then)
      /\ (Ignored /\ Match(fstate[t[1]], t[2]) = {}) \/ \E r, v : Expired(t, r, v)
  BY DeliverEffect DEF RetxInv, GuardInv, FsmInv
<1>1. /\ t[1] = fsm /\ fsm \in Objs /\ t[2] \in Expiries \ {"T3555Expired"}
      /\ fstate[t[1]] = StateOf[t[2]]
  BY DEF RetxInv, GuardInv, FsmInv, IInv, Base, Shape, Sole, Current, Timely
<1>2. First = "none" /\ Then = "none"
  BY ThenSaid DEF RetxInv, GuardInv, WaitInv, AsExpected, FsmInv, CallInv
<1>3. PICK r, v : Expired(t, r, v)
  BY <1>0, <1>1, ExpiryMatches
<1>4. r \in Rows /\ r.on \in Expiries /\ Take(fsm, r, fsm) /\ Took(v, r)
  BY <1>1, <1>3 DEF Expired
<1>5. State' = r.to /\ r.to \in Calm
  BY <1>1, <1>4, TakeState, ExpiryRows DEF RetxInv, GuardInv, FsmInv, IInv
<1>6. Leaves(v, "none", "none")
  BY <1>0, <1>2, <1>4 DEF Leaves, Took
<1>7. \A u \in armed' \union due' : u[2] \notin DOMAIN CachedBy
  <2>1. \A u \in armed' \union due' : StateOf[u[2]] = State'
    BY GmmAssumption DEF FsmInv, IInv, Base, Shape, Current, Timely, Sole, State
  <2>2. \A e \in DOMAIN CachedBy : StateOf[e] \notin Calm
    BY DEF CachedBy, StateOf, Calm
  <2>. QED
    BY <1>5, <2>1, <2>2
<1>8. "none" \notin DOMAIN Preparing
  BY DEF Preparing
<1>. QED
  BY <1>6, <1>7, <1>8, RetxAfter

LEMMA NextKeepsRetx ==
  ASSUME "race" \notin Env, "crossing" \notin Env, "collision" \notin Env, "sendFails" \notin Env,
         RetxInv, [Next]_vars
  PROVE  RetxInv'
<1>0. GuardInv' /\ FsmInv'
  BY NextKeepsGuard DEF RetxInv, GuardInv
<1>1. CASE Worker
  <2>1. due = {} /\ (WorkerFires \/ \E v, a, b : Effect(v, a, b))
    BY <1>1, WorkerEffect DEF Worker, RetxInv, GuardInv, FsmInv, IInv
  <2>. QED
    BY <1>0, <2>1, EffectKeepsRetx, WorkerFiresKeepsRetx DEF RetxInv
<1>2. CASE \E timers \in SUBSET armed : Expire(timers)
  <2>1. UNCHANGED <<ue, todo>> /\ armed' \union due' \subseteq armed \union due
    BY <1>2 DEF Expire
  <2>2. First' = First /\ Then' = Then
    BY <2>1 DEF First, Then
  <2>3. RightPdu' /\ Asking'
    BY <2>1, <2>2 DEF RetxInv, RightPdu, Asking
  <2>. QED
    BY <1>0, <2>3 DEF RetxInv
<1>3. CASE \E t \in due : Deliver(t)
  BY <1>0, <1>3, DeliverKeepsRetx DEF RetxInv
<1>4. CASE UNCHANGED vars
  <2>1. First' = First /\ Then' = Then
    BY <1>4 DEF vars, First, Then
  <2>2. RightPdu' /\ Asking'
    BY <1>4, <2>1 DEF vars, RetxInv, RightPdu, Asking
  <2>. QED
    BY <1>0, <2>2 DEF RetxInv
<1>. QED
  BY <1>1, <1>2, <1>3, <1>4 DEF Next

LEMMA InitRetx == Init => RetxInv
<1> SUFFICES ASSUME Init PROVE RetxInv
  OBVIOUS
<1>1. todo = <<>> /\ armed = {} /\ due = {}
  BY DEF Init
<1>2. First = "none" /\ "none" \notin DOMAIN Preparing
  BY <1>1, Tuples DEF Calling, First, Then, Preparing
<1>. QED
  BY <1>1, <1>2, InitGuard DEF RetxInv, RightPdu, Asking

\* What a guard timer sends again is the message it guards: in the environment of
\* WaitGuarded, as long as no send fails.
THEOREM RetransmitsGuarded ==
  "race" \notin Env /\ "crossing" \notin Env /\ "collision" \notin Env /\ "sendFails" \notin Env
     => (Spec => []RetransmitsOwnMessage)
<1> SUFFICES ASSUME "race" \notin Env, "crossing" \notin Env, "collision" \notin Env,
                    "sendFails" \notin Env
             PROVE  Spec => []RetransmitsOwnMessage
  OBVIOUS
<1>1. RetxInv /\ [Next]_vars => RetxInv'
  BY NextKeepsRetx
<1>2. RetxInv => RetransmitsOwnMessage
  <2> SUFFICES ASSUME RetxInv, Quiet, ue.n2 = "connected", NEW t \in armed, t[2] \in DOMAIN CachedBy
               PROVE  ue.retx = CachedBy[t[2]]
    BY DEF RetransmitsOwnMessage
  <2>1. First = "none"
    BY ThenSaid DEF RetxInv, GuardInv, FsmInv, CallInv, Quiet, Idle
  <2>2. First \notin DOMAIN Preparing
    BY <2>1 DEF Preparing
  <2>. QED
    BY <2>2 DEF RetxInv, RightPdu
<1>. QED
  BY InitRetx, <1>1, <1>2, PTL DEF Spec
=============================================================================
