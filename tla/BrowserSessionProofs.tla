------------------------ MODULE BrowserSessionProofs ------------------------
(***************************************************************************)
(* Proofs about BrowserSession, for any number of tabs, requests, users    *)
(* and CDRs and any Ttl: what a cookie holds, also after a fold over the   *)
(* posted ids, what may change it, and that a browser of one request at a  *)
(* time is a register.                                                     *)
(***************************************************************************)
EXTENDS BrowserSession, CdrListsProofs, TLAPS

\* A cookie, wherever it is, was issued no later than the last one was.
Aged(c) == c \in {None, Bad} \/ (c.expires \in Int /\ c.expires <= stamped + Ttl)

Clock == now \in Nat /\ stamped \in Nat /\ stamped <= now

\* The answer to a change differs from the cookie it was made from in the
\* part it is about; no other request but login and logout changes the jar.
Fits(w) ==
  w.pc = "answered" =>
    /\ w.op = "select" => w.set \in {None, Bad, Keep} \/ (w.set.user = w.cookie.user /\ w.set.tz = w.cookie.tz)
    /\ w.op = "tz" => w.set \in {None, Bad, Keep} \/ (w.set.user = w.cookie.user /\ w.set.sel = w.cookie.sel)
    /\ w.op = "logout" => w.set \in {None, Bad, Keep}
    /\ w.op \notin {"tz", "select", "login", "logout"} => w.set \in {Keep, Bad}

WireOK(w) == /\ w.pc \in {"idle", "sent", "answered"}
             /\ Aged(w.cookie)
             /\ w.set = Keep \/ Aged(w.set)
             /\ Fits(w)

IInv == /\ Clock
        /\ Aged(jar)
        /\ \A r \in Req : WireOK(wire[r])
        /\ wire = [r \in Req |-> wire[r]]

-----------------------------------------------------------------------------

\* A message's fields are the ones it was made with.
LEMMA MessageFields ==
  ASSUME NEW pc, NEW op, NEW t, NEW c, NEW arg, NEW n, NEW status, NEW set
  PROVE  LET w == Message(pc, op, t, c, arg, n, status, set)
         IN w.pc = pc /\ w.op = op /\ w.cookie = c /\ w.set = set /\ w.tab = t
            /\ w.arg = arg /\ w.next = n /\ w.status = status
BY DEF Message

\* A cookie just issued is fresh, and says what it was made to say.
LEMMA IssuedFields ==
  ASSUME NEW u, NEW z, NEW ids
  PROVE  LET c == Issued(u, z, ids)
         IN c.user = u /\ c.expires = now + Ttl /\ c.tz = z /\ c.sel = ids
BY DEF Issued

\* When a message replaces one in flight and nothing gets older than it may
\* be, the invariant is kept.
LEMMA OneMessage ==
  ASSUME IInv, NEW r \in Req, NEW w, wire' = [wire EXCEPT ![r] = w],
         Clock', WireOK(w)', Aged(jar)', stamped <= stamped'
  PROVE  IInv'
<1>1. \A q \in Req : wire'[q] = IF q = r THEN w ELSE wire[q]
  BY DEF IInv
<1>2. wire' = [q \in Req |-> wire'[q]]
  BY DEF IInv
<1>3. ASSUME NEW c, Aged(c) PROVE c \in {None, Bad} \/ (c.expires \in Int /\ c.expires <= stamped' + Ttl)
  BY <1>3, TtlAssumption DEF Aged, IInv, Clock
<1>4. ASSUME NEW q \in Req PROVE WireOK(wire[q])'
  <2>1. CASE q = r
    <3>1. wire'[q] = w
      BY <1>1, <2>1
    <3> QED
      BY <3>1 DEF WireOK, Aged, Fits
  <2>2. CASE q # r
    <3>1. wire'[q] = wire[q] /\ WireOK(wire[q])
      BY <1>1, <2>2 DEF IInv
    <3> QED
      BY <3>1, <1>3 DEF WireOK, Aged, Fits
  <2> QED
    BY <2>1, <2>2
<1> QED
  BY <1>2, <1>4 DEF IInv

\* A request carries a cookie that is fresh enough.
LEMMA SendKeeps ==
  ASSUME IInv, NEW r \in Req, NEW op, NEW t, NEW c, NEW arg, NEW n,
         Send(r, Sent(op, t, c, arg, n)), Aged(c)
  PROVE  IInv'
<1> DEFINE w == Sent(op, t, c, arg, n)
<1>1. w.pc = "sent" /\ w.cookie = c /\ w.set = Keep
  BY MessageFields DEF Sent
<1>2. wire' = [wire EXCEPT ![r] = w] /\ jar' = jar /\ now' = now /\ stamped' = stamped
  BY DEF Send
<1> HIDE DEF w
<1>3. WireOK(w)'
  BY <1>1, <1>2 DEF WireOK, Aged, Fits
<1>4. Clock' /\ Aged(jar)'
  BY <1>2 DEF IInv, Clock, Aged
<1> QED
  BY <1>2, <1>3, <1>4, OneMessage DEF IInv, Clock

\* An answer that sets nothing, clears the cookie, or issues one.
LEMMA AnswerKeeps ==
  ASSUME IInv, NEW r \in Req, NEW status, NEW set, Answer(r, status, set),
         set \in {Keep, None} \/ set.expires = now + Ttl,
         Fits(Answered(wire[r], status, set))
  PROVE  IInv'
<1>0. PICK w : w = Answered(wire[r], status, set)
  OBVIOUS
<1>1. w.pc = "answered" /\ w.cookie = wire[r].cookie /\ w.set = set
  BY <1>0, MessageFields DEF Answered
<1>2. /\ wire' = [wire EXCEPT ![r] = w]
      /\ jar' = jar /\ now' = now
      /\ stamped' = IF set \in {Keep, None} THEN stamped ELSE now
  BY <1>0 DEF Answer
<1>3. Fits(w)
  BY <1>0
<1>4. Clock' /\ stamped <= stamped'
  BY <1>2 DEF IInv, Clock
<1>5. ASSUME NEW c, Aged(c) PROVE Aged(c)'
  BY <1>4, <1>5, TtlAssumption DEF Aged, IInv, Clock
<1>6. w.set = Keep \/ Aged(w.set)'
  BY <1>1, <1>2, TtlAssumption DEF Aged, IInv, Clock
<1>7. Aged(w.cookie)'
  BY <1>1, <1>5 DEF IInv, WireOK
<1>8. Fits(w)'
  BY <1>3 DEF Fits
<1>9. WireOK(w)'
  BY <1>1, <1>6, <1>7, <1>8 DEF WireOK
<1>10. Aged(jar)'
  BY <1>2, <1>5 DEF IInv, Aged
<1> QED
  BY <1>2, <1>4, <1>9, <1>10, OneMessage

\* The answers that leave the jar alone.
LEMMA KeepFits ==
  ASSUME NEW w, NEW status
  PROVE  Fits(Answered(w, status, Keep))
<1> DEFINE v == Answered(w, status, Keep)
<1>1. v.set = Keep
  BY MessageFields DEF Answered
<1> HIDE DEF v
<1>2. Fits(v)
  BY <1>1 DEF Fits
<1> QED
  BY <1>2 DEF v

LEMMA ServeInv ==
  ASSUME IInv, NEW r \in Req, Serve(r)
  PROVE  IInv'
<1>1. ASSUME NEW status, Answer(r, status, Keep) PROVE IInv'
  BY <1>1, KeepFits, AnswerKeeps
<1>2. ASSUME set_tz(r) PROVE IInv'
  <2> DEFINE c == with_tz(wire[r].cookie, wire[r].arg)
             v == Answered(wire[r], "to_next", c)
  <2>1. c.user = wire[r].cookie.user /\ c.sel = wire[r].cookie.sel /\ c.expires = now + Ttl
    BY IssuedFields DEF with_tz
  <2>2. v.op = "tz" /\ v.set = c /\ v.cookie = wire[r].cookie
    BY <1>2, MessageFields DEF Answered, set_tz, Receives
  <2>3. Answer(r, "to_next", c)
    BY <1>2 DEF set_tz
  <2> HIDE DEF c, v
  <2>4. Fits(v)
    BY <2>1, <2>2 DEF Fits
  <2> QED
    BY <2>1, <2>3, <2>4, AnswerKeeps DEF v
<1>3. ASSUME select_cdrs(r) PROVE IInv'
  <2> DEFINE c == with_selection(wire[r].cookie, wire[r].arg)
             v == Answered(wire[r], "no_content", c)
  <2>1. c.user = wire[r].cookie.user /\ c.tz = wire[r].cookie.tz /\ c.expires = now + Ttl
    BY IssuedFields DEF with_selection
  <2>2. v.op = "select" /\ v.set = c /\ v.cookie = wire[r].cookie
    BY <1>3, MessageFields DEF Answered, select_cdrs, Receives
  <2>3. Answer(r, "no_content", c)
    BY <1>3 DEF select_cdrs
  <2> HIDE DEF c, v
  <2>4. Fits(v)
    BY <2>1, <2>2 DEF Fits
  <2> QED
    BY <2>1, <2>3, <2>4, AnswerKeeps DEF v
<1>4. ASSUME NEW status, NEW set, Answer(r, status, set), wire[r].op \in {"login", "logout"},
             set \in {Keep, None} \/ (set.expires = now + Ttl /\ wire[r].op = "login")
      PROVE  IInv'
  <2> DEFINE v == Answered(wire[r], status, set)
  <2>1. v.op = wire[r].op /\ v.set = set
    BY <1>4, MessageFields DEF Answered
  <2> HIDE DEF v
  <2>2. Fits(v)
    BY <1>4, <2>1 DEF Fits
  <2> QED
    BY <1>4, <2>2, AnswerKeeps DEF v
<1>5. ASSUME login_submit(r) PROVE IInv'
  <2>1. new(wire[r].arg).expires = now + Ttl
    BY IssuedFields DEF new
  <2>2. \/ Answer(r, "login_form", Keep)
        \/ Answer(r, "to_next", new(wire[r].arg))
    BY <1>5 DEF login_submit
  <2>3. wire[r].op = "login"
    BY <1>5 DEF login_submit, Receives
  <2> QED
    BY <1>1, <1>4, <2>1, <2>2, <2>3
<1>6. ASSUME logout(r) PROVE IInv'
  BY <1>6, <1>4 DEF logout, Receives
<1>7. ASSUME login_form(r) PROVE IInv'
  BY <1>7, <1>1 DEF login_form
<1>8. ASSUME RequireLogin(r) \/ Refuse(r) \/ cdr_list(r) PROVE IInv'
  BY <1>8, <1>1 DEF RequireLogin, Refuse, cdr_list
<1> QED
  BY <1>2, <1>3, <1>5, <1>6, <1>7, <1>8 DEF Serve

LEMMA NothingSpoils ==
  ASSUME IInv, NEW q \in Req
  PROVE  Aged(JarAfter(q))
BY DEF IInv, WireOK, JarAfter

LEMMA TakeInv ==
  ASSUME IInv, NEW r \in Req, Take(r)
  PROVE  IInv'
<1>1. jar' = JarAfter(r) /\ now' = now /\ stamped' = stamped
  BY DEF Take, TakeQuietly, TakePage, FollowRedirect, Arrive
<1>2. Aged(jar)' /\ Clock' /\ stamped <= stamped'
  BY <1>1, NothingSpoils DEF IInv, Clock, Aged
<1>3. ASSUME wire' = [wire EXCEPT ![r] = Idle] PROVE IInv'
  <2>1. Idle.pc = "idle" /\ Idle.cookie = None /\ Idle.set = Keep
    BY MessageFields DEF Idle
  <2>2. WireOK(Idle)'
    BY <2>1 DEF WireOK, Aged, Fits
  <2> QED
    BY <1>2, <1>3, <2>2, OneMessage
<1>4. ASSUME NEW op, NEW t, NEW n, wire' = [wire EXCEPT ![r] = Sent(op, t, jar', None, n)]
      PROVE  IInv'
  <2>0. PICK w : w = Sent(op, t, jar', None, n)
    OBVIOUS
  <2>1. w.pc = "sent" /\ w.cookie = jar' /\ w.set = Keep
    BY <2>0, MessageFields DEF Sent
  <2>2. WireOK(w)'
    BY <2>1, <1>2 DEF WireOK, Aged, Fits
  <2> QED
    BY <1>2, <1>4, <2>0, <2>2, OneMessage
<1> QED
  BY <1>3, <1>4 DEF Take, TakeQuietly, TakePage, FollowRedirect

LEMMA SilentKeeps ==
  ASSUME IInv, UNCHANGED <<jar, wire, now, stamped>>
  PROVE  IInv'
BY DEF IInv, Clock, Aged, WireOK, Fits

LEMMA OperatorInv ==
  ASSUME IInv, Operator
  PROVE  IInv'
<1>1. Aged(jar) /\ Aged(None)
  BY DEF IInv, Aged
<1>2. ASSUME NEW r \in Req, NEW t \in Tab,
             OpenPage(r, t) \/ OpenLogin(r, t) \/ SubmitLogout(r, t) \/ Persist(r, t)
      PROVE  IInv'
  BY <1>1, <1>2, SendKeeps DEF OpenPage, OpenLogin, SubmitLogout, Persist
<1>3. ASSUME NEW r \in Req, NEW t \in Tab, NEW u \in User \cup {None}, SubmitLogin(r, t, u)
      PROVE  IInv'
  BY <1>1, <1>3, SendKeeps DEF SubmitLogin
<1>4. ASSUME NEW r \in Req, NEW t \in Tab, NEW z \in Zone \cup {None}, SubmitTz(r, t, z)
      PROVE  IInv'
  BY <1>1, <1>4, SendKeeps DEF SubmitTz
<1>5. ASSUME NEW t \in Tab, NEW c \in Cdr, Toggle(t, c) PROVE IInv'
  BY <1>5, SilentKeeps DEF Toggle
<1>6. ASSUME NEW r \in Req, NEW ids \in ScriptIds, ScriptSelect(r, ids) PROVE IInv'
  BY <1>1, <1>6, SendKeeps DEF ScriptSelect
<1>7. ASSUME NEW r \in Req, BearerCall(r) PROVE IInv'
  BY <1>1, <1>7, SendKeeps DEF BearerCall
<1> QED
  BY <1>2, <1>3, <1>4, <1>5, <1>6, <1>7 DEF Operator

LEMMA LoseInv ==
  ASSUME IInv, NEW r \in Req, Lose(r)
  PROVE  IInv'
<1>1. Idle.pc = "idle" /\ Idle.cookie = None /\ Idle.set = Keep
  BY MessageFields DEF Idle
<1>2. WireOK(Idle)'
  BY <1>1 DEF WireOK, Aged, Fits
<1>3. Aged(jar)' /\ Clock' /\ stamped <= stamped'
  BY DEF Lose, IInv, Clock, Aged
<1> QED
  BY <1>2, <1>3, OneMessage DEF Lose

LEMMA NewSecretInv ==
  ASSUME IInv, NewSecret
  PROVE  IInv'
<1>1. jar' = Spoilt(jar) /\ now' = now /\ stamped' = stamped
  BY DEF NewSecret
<1>2. Clock' /\ Aged(jar)'
  BY <1>1 DEF IInv, Clock, Aged, Spoilt
<1>3. wire' = [r \in Req |-> wire'[r]]
  BY DEF NewSecret
<1>4. ASSUME NEW r \in Req PROVE WireOK(wire[r])'
  <2>0. WireOK(wire[r])
    BY DEF IInv
  <2>1. CASE wire[r].pc = "idle"
    <3>1. wire'[r] = wire[r]
      BY <2>1 DEF NewSecret
    <3> QED
      BY <2>0, <3>1, <1>1 DEF WireOK, Aged, Fits
  <2>2. CASE wire[r].pc = "sent"
    <3>1. wire'[r] = Sent(wire[r].op, wire[r].tab, Spoilt(wire[r].cookie), wire[r].arg, wire[r].next)
      BY <2>2 DEF NewSecret
    <3>2. wire'[r].pc = "sent" /\ wire'[r].cookie = Spoilt(wire[r].cookie) /\ wire'[r].set = Keep
      BY <3>1, MessageFields DEF Sent
    <3> QED
      BY <2>0, <3>2, <1>1 DEF WireOK, Aged, Fits, Spoilt
  <2>3. CASE wire[r].pc \notin {"idle", "sent"}
    <3>1. wire'[r] = Answered(wire[r], wire[r].status, Spoilt(wire[r].set))
      BY <2>3 DEF NewSecret
    <3>2. /\ wire'[r].pc = "answered" /\ wire'[r].op = wire[r].op /\ wire'[r].cookie = wire[r].cookie
          /\ wire'[r].set = Spoilt(wire[r].set)
      BY <3>1, MessageFields DEF Answered
    <3>3. wire'[r].set \in {None, Keep, Bad}
      BY <3>2 DEF Spoilt
    <3>4. wire[r].pc = "answered"
      BY <2>0, <2>3 DEF WireOK
    <3>5. wire'[r].op \notin {"tz", "select", "login", "logout"} => wire'[r].set \in {Keep, Bad}
      BY <2>0, <3>2, <3>4 DEF WireOK, Fits, Spoilt
    <3> QED
      BY <2>0, <3>2, <3>3, <3>5, <1>1 DEF WireOK, Aged, Fits
  <2> QED
    BY <2>1, <2>2, <2>3
<1> QED
  BY <1>2, <1>3, <1>4 DEF IInv

LEMMA InitInv == Init => IInv
<1> SUFFICES ASSUME Init PROVE IInv
  OBVIOUS
<1>1. Idle.pc = "idle" /\ Idle.cookie = None /\ Idle.set = Keep
  BY MessageFields DEF Idle
<1>2. WireOK(Idle)
  BY <1>1 DEF WireOK, Aged, Fits
<1> QED
  BY <1>2 DEF Init, IInv, Clock, Aged

LEMMA NextInv == IInv /\ [Next]_vars => IInv'
<1>1. ASSUME IInv, UNCHANGED vars PROVE IInv'
  BY <1>1, SilentKeeps DEF vars
<1>2. ASSUME IInv, CookieDropped PROVE IInv'
  BY <1>2 DEF CookieDropped, IInv, Clock, Aged, WireOK, Fits
<1>3. ASSUME IInv, Tick PROVE IInv'
  BY <1>3 DEF Tick, IInv, Clock, Aged, WireOK, Fits
<1> QED
  BY <1>1, <1>2, <1>3, OperatorInv, ServeInv, TakeInv, LoseInv, NewSecretInv DEF Next

-----------------------------------------------------------------------------

\* The inductive invariant holds in every reachable state.
THEOREM Inductive == Spec => []IInv
BY InitInv, NextInv, PTL DEF Spec

\* Whatever is late, lost or reordered, no request is let in by a cookie
\* Ttl or more after the last cookie was issued.
THEOREM IdleDies == Spec => IdleSessionsDie
<1> DEFINE A == \A r \in Req : cdr_list(r) \/ set_tz(r) \/ select_cdrs(r) => now < stamped + Ttl
<1>1. ASSUME IInv PROVE A
  <2> SUFFICES ASSUME NEW r \in Req, Decodes(wire[r].cookie) PROVE now < stamped + Ttl
    BY DEF cdr_list, set_tz, select_cdrs
  <2>1. Aged(wire[r].cookie)
    BY <1>1 DEF IInv, WireOK
  <2> QED
    BY <1>1, <2>1, TtlAssumption DEF IInv, Clock, Aged, Decodes
<1> QED
  BY <1>1, Inductive, PTL DEF IdleSessionsDie

\* With any number of requests in flight, only an answer made from a cookie
\* that is no longer the jar's changes what it was not about.
THEOREM OverlapOnly == Spec => LostOnlyByOverlap
<1> DEFINE A == \A r \in Req :
                  Take(r) /\ wire[r].cookie = jar /\ Decodes(jar) /\ jar' \notin {None, Bad} =>
                    /\ wire[r].op # "login" => jar'.user = jar.user
                    /\ wire[r].op = "select" => jar'.tz = jar.tz
                    /\ wire[r].op = "tz" => jar'.sel = jar.sel
<1>1. ASSUME IInv PROVE A
  <2> SUFFICES ASSUME NEW r \in Req, Take(r), wire[r].cookie = jar, jar' \notin {None, Bad}
               PROVE  /\ wire[r].op # "login" => jar'.user = jar.user
                      /\ wire[r].op = "select" => jar'.tz = jar.tz
                      /\ wire[r].op = "tz" => jar'.sel = jar.sel
    OBVIOUS
  <2>1. wire[r].pc = "answered" /\ jar' = IF wire[r].set = Keep THEN jar ELSE wire[r].set
    BY DEF Take, TakeQuietly, TakePage, FollowRedirect, Arrive, JarAfter
  <2>2. Fits(wire[r])
    BY <1>1 DEF IInv, WireOK
  <2> QED
    BY <2>1, <2>2 DEF Fits
<1> QED
  BY <1>1, Inductive, PTL DEF LostOnlyByOverlap

-----------------------------------------------------------------------------
(* What with_selection stores, whatever is posted.                         *)

LEMMA Greatest ==
  ASSUME NEW n \in Nat, NEW S \in SUBSET (1..n), S # {}
  PROVE  Max(S) \in S /\ \A y \in S : Max(S) >= y
<1>. DEFINE key == [x \in S |-> 0 - x]
<1>1. IsFiniteSet(S) /\ S \subseteq Int
  <2>1. IsFiniteSet(1..n)
    BY FS_Interval
  <2>2. S \subseteq 1..n /\ 1..n \subseteq Int
    OBVIOUS
  <2>. QED  BY <2>1, <2>2, FS_Subset
<1>2. key \in [S -> Int] /\ \A x, y \in S : x # y => key[x] # key[y]
  BY <1>1
<1>3. \A x \in S : key[x] = 0 - x
  OBVIOUS
<1>. HIDE DEF key
<1>4. PICK m \in S : \A y \in S : key[m] <= key[y]
  BY <1>1, <1>2, LeastByKey
<1>5. \A y \in S : m >= y
  BY <1>1, <1>3, <1>4
<1>. QED  BY <1>5 DEF Max

NothingTaken == [seen |-> {}, out |-> <<>>]

\* g goes through the sets of positions up to n as FoldLeft does, right
\* for those that end at m or before.
Folded(g, ids, n, m) ==
  /\ g = [s \in SUBSET (1..n) |-> g[s]]
  /\ \A s \in SUBSET (1..n) :
       s \subseteq 1..m =>
         g[s] = IF s = {} THEN NothingTaken ELSE TakeId(g[s \ {Max(s)}], ids[Max(s)])

LEMMA FoldExists ==
  ASSUME NEW n \in Nat, NEW ids
  PROVE  \A m \in Nat : \E g : Folded(g, ids, n, m)
<1>. DEFINE T == {m \in Nat : \E g : Folded(g, ids, n, m)}
<1>1. 0 \in T
  <2>. DEFINE g == [s \in SUBSET (1..n) |-> NothingTaken]
  <2>1. \A s \in SUBSET (1..n) : s \subseteq 1..0 => s = {}
    OBVIOUS
  <2>2. Folded(g, ids, n, 0)
    BY <2>1 DEF Folded
  <2>. QED  BY <2>2
<1>2. ASSUME NEW m \in Nat, m \in T  PROVE m + 1 \in T
  <2>1. PICK g : Folded(g, ids, n, m)
    BY <1>2
  <2>. DEFINE h == [s \in SUBSET (1..n) |->
                      IF s \subseteq 1..m THEN g[s]
                      ELSE TakeId(g[s \ {Max(s)}], ids[Max(s)])]
  <2>2. h = [s \in SUBSET (1..n) |-> h[s]]
    OBVIOUS
  <2>3. ASSUME NEW s \in SUBSET (1..n), s \subseteq 1..(m + 1)
        PROVE  h[s] = IF s = {} THEN NothingTaken ELSE TakeId(h[s \ {Max(s)}], ids[Max(s)])
    <3>1. PICK r : r = s \ {Max(s)}
      OBVIOUS
    <3>2. r \in SUBSET (1..n)
      BY <3>1
    <3>3. CASE s \subseteq 1..m
      <4>1. r \subseteq 1..m
        BY <3>1, <3>3
      <4>2. h[s] = g[s] /\ h[r] = g[r]
        BY <3>2, <3>3, <4>1
      <4>. QED  BY <2>1, <3>1, <3>3, <4>2 DEF Folded
    <3>4. CASE ~(s \subseteq 1..m)
      <4>1. s # {} /\ m + 1 \in s
        BY <2>3, <3>4
      <4>2. Max(s) \in s /\ Max(s) >= m + 1
        BY <4>1, Greatest
      <4>3. r \subseteq 1..m
        <5>1. Max(s) = m + 1
          <6>1. Max(s) \in 1..(m + 1)
            BY <2>3, <4>2
          <6>. QED  BY <4>2, <6>1
        <5>2. \A y \in r : y \in 1..(m + 1) /\ y # m + 1
          BY <2>3, <3>1, <5>1
        <5>. QED  BY <5>2
      <4>4. h[s] = TakeId(g[r], ids[Max(s)]) /\ h[r] = g[r]
        BY <3>1, <3>2, <3>4, <4>3
      <4>. QED  BY <3>1, <4>1, <4>4
    <3>. QED  BY <3>3, <3>4
  <2>. HIDE DEF h
  <2>4. Folded(h, ids, n, m + 1)
    BY <2>2, <2>3 DEF Folded
  <2>. QED  BY <2>4
<1>. HIDE DEF T
<1>3. \A m \in Nat : m \in T
  BY <1>1, <1>2, EveryNatural
<1>. QED  BY <1>3 DEF T

\* While the loop runs: a selection, of ids that have been seen.
Taken(s) == IsSelection(s.out) /\ ToSet(s.out) \subseteq s.seen

LEMMA TakeKeeps ==
  ASSUME NEW s, Taken(s), NEW id \in Cdr
  PROVE  Taken(TakeId(s, id))
<1>1. CASE id \in s.seen
  BY <1>1 DEF TakeId
<1>2. CASE id \notin s.seen
  <2>1. PICK l : l = IF Len(s.out) >= Cap THEN Tail(s.out) ELSE s.out
    OBVIOUS
  <2>2. PICK o : o = Append(l, id)
    OBVIOUS
  <2>3. TakeId(s, id).out = o /\ TakeId(s, id).seen = s.seen \cup {id}
    BY <1>2, <2>1, <2>2 DEF TakeId
  <2>4. s.out \in Seq(Cdr) /\ Len(s.out) \in Nat /\ Len(s.out) <= Cap /\ Cap \in Nat /\ Cap # 0
        /\ DOMAIN s.out = 1..Len(s.out)
    BY CapAssumption DEF Taken, IsSelection
  <2>5. \A j, k \in 1..Len(s.out) : s.out[j] = s.out[k] => j = k
    BY <2>4 DEF Taken, IsSelection, IsInjective
  <2>6. \A k \in 1..Len(s.out) : s.out[k] # id
    BY <1>2, <2>4 DEF Taken, ToSet
  <2>7. PICK d \in {0, 1} : /\ l \in Seq(Cdr) /\ Len(l) = Len(s.out) - d /\ Len(l) < Cap
                           /\ \A k \in 1..Len(l) : l[k] = s.out[k + d]
    BY <2>1, <2>4
  <2>8. /\ Len(l) \in Nat /\ Len(l) <= Len(s.out)
        /\ \A k \in 1..Len(l) : k + d \in 1..Len(s.out) /\ l[k] = s.out[k + d]
    BY <2>4, <2>7
  <2>9. o \in Seq(Cdr) /\ Len(o) = Len(l) + 1 /\ DOMAIN o = 1..(Len(l) + 1)
        /\ \A k \in 1..(Len(l) + 1) : o[k] = IF k = Len(l) + 1 THEN id ELSE l[k]
    BY <2>2, <2>7, <2>8
  <2>10. ASSUME NEW j \in 1..(Len(l) + 1), NEW k \in 1..(Len(l) + 1), o[j] = o[k]
         PROVE  j = k
    <3>1. CASE j \in 1..Len(l) /\ k \in 1..Len(l)
      <4>1. s.out[j + d] = s.out[k + d] /\ j + d \in 1..Len(s.out) /\ k + d \in 1..Len(s.out)
        <5>1. o[j] = l[j] /\ o[k] = l[k]
          BY <2>8, <2>9, <3>1
        <5>. QED  BY <2>8, <2>10, <3>1, <5>1
      <4>. QED  BY <2>5, <2>8, <3>1, <4>1
    <3>2. CASE j \in 1..Len(l) /\ k = Len(l) + 1
      BY <2>6, <2>8, <2>9, <2>10, <3>2
    <3>3. CASE k \in 1..Len(l) /\ j = Len(l) + 1
      BY <2>6, <2>8, <2>9, <2>10, <3>3
    <3>. QED  BY <2>8, <3>1, <3>2, <3>3
  <2>11. IsSelection(o)
    <3>1. IsInjective(o)
      BY <2>9, <2>10 DEF IsInjective
    <3>2. Len(o) <= Cap
      BY <2>4, <2>7, <2>8, <2>9
    <3>. QED  BY <2>9, <3>1, <3>2 DEF IsSelection
  <2>12. ToSet(o) \subseteq s.seen \cup {id}
    <3>1. SUFFICES ASSUME NEW k \in 1..(Len(l) + 1) PROVE o[k] \in s.seen \cup {id}
      BY <2>9 DEF ToSet
    <3>2. CASE k \in 1..Len(l)
      <4>1. s.out[k + d] \in s.seen
        BY <2>4, <2>8, <3>2 DEF Taken, ToSet
      <4>. QED  BY <2>8, <2>9, <3>2, <4>1
    <3>. QED  BY <2>8, <2>9, <3>2
  <2>. QED  BY <2>3, <2>11, <2>12 DEF Taken
<1>. QED  BY <1>1, <1>2

\* The stored selection has no id twice and at most Cap of them.
LEMMA SelectedIsSelection ==
  ASSUME NEW ids \in Seq(Cdr)
  PROVE  IsSelection(Selected(ids))
<1>. DEFINE N == 1..Len(ids)
            F == CHOOSE g : g = [s \in SUBSET N |->
                   IF s = {} THEN NothingTaken ELSE TakeId(g[s \ {Max(s)}], ids[Max(s)])]
<1>1. Len(ids) \in Nat /\ DOMAIN ids = N /\ \A k \in N : ids[k] \in Cdr
  OBVIOUS
<1>2. FoldLeft(TakeId, NothingTaken, ids) = F[N]
  BY <1>1 DEF FoldLeft, MapThenFoldSet
<1>3. PICK g : Folded(g, ids, Len(ids), Len(ids))
  BY <1>1, FoldExists
<1>4. g = [s \in SUBSET N |->
             IF s = {} THEN NothingTaken ELSE TakeId(g[s \ {Max(s)}], ids[Max(s)])]
  BY <1>3 DEF Folded
<1>5. F = [s \in SUBSET N |->
             IF s = {} THEN NothingTaken ELSE TakeId(F[s \ {Max(s)}], ids[Max(s)])]
  BY <1>4
<1>. HIDE DEF F
<1>. DEFINE T == {k \in Nat : k <= Len(ids) => Taken(F[1..k])}
<1>6. 0 \in T
  <2>1. 1..0 = {}
    OBVIOUS
  <2>2. F[1..0] = NothingTaken
    BY <1>5, <2>1
  <2>3. Taken(NothingTaken)
    <3>1. NothingTaken.out = <<>> /\ NothingTaken.seen = {}
      BY DEF NothingTaken
    <3>2. <<>> \in Seq(Cdr) /\ Len(<<>>) = 0 /\ DOMAIN <<>> = 1..0
      OBVIOUS
    <3>. QED  BY <3>1, <3>2, <2>1, CapAssumption DEF Taken, IsSelection, IsInjective, ToSet
  <2>. QED  BY <2>2, <2>3
<1>7. ASSUME NEW k \in Nat, k \in T  PROVE k + 1 \in T
  <2>1. SUFFICES ASSUME k + 1 <= Len(ids)  PROVE Taken(F[1..(k + 1)])
    OBVIOUS
  <2>2. Taken(F[1..k]) /\ k + 1 \in N /\ ids[k + 1] \in Cdr
    BY <1>1, <1>7, <2>1
  <2>3. 1..(k + 1) \in SUBSET N /\ 1..(k + 1) # {} /\ k + 1 \in 1..(k + 1)
    <3>1. PICK n \in Nat : n = Len(ids)
      BY <1>1
    <3>2. 1..(k + 1) \subseteq 1..n /\ k + 1 \in 1..(k + 1)
      BY <2>1, <3>1
    <3>. QED  BY <3>1, <3>2
  <2>4. Max(1..(k + 1)) = k + 1
    <3>1. Max(1..(k + 1)) \in 1..(k + 1) /\ Max(1..(k + 1)) >= k + 1
      BY <1>1, <2>3, Greatest
    <3>. QED  BY <3>1
  <2>5. (1..(k + 1)) \ {k + 1} = 1..k
    OBVIOUS
  <2>6. F[1..(k + 1)] = TakeId(F[1..k], ids[k + 1])
    BY <1>5, <2>3, <2>4, <2>5
  <2>. QED  BY <2>2, <2>6, TakeKeeps
<1>. HIDE DEF T
<1>8. \A k \in Nat : k \in T
  BY <1>6, <1>7, EveryNatural
<1>9. Taken(F[N])
  BY <1>1, <1>8 DEF T
<1>10. Selected(ids) = F[N].out
  BY <1>2 DEF Selected, NothingTaken
<1>. QED  BY <1>9, <1>10 DEF Taken

-----------------------------------------------------------------------------
(* Types, with what each kind of request posts.                            *)

WellPage(p) ==
  /\ p \in [view : {"blank", "login", "list"}, next : Landing, ticked : Seq(Cdr),
            pending : BOOLEAN]
  /\ IsInjective(p.ticked)

IsOr(S, c) == c \in S \/ IsCookie(c)

\* What the handler of op takes.
Posted(op, arg) == /\ op = "select" => arg \in Seq(Cdr)
                   /\ op = "tz" => arg \in Zone \cup {None}
                   /\ op = "login" => arg \in User \cup {None}

WellWire(w) == /\ w.pc \in {"idle", "sent", "answered"}
               /\ w.op \in Op /\ w.status \in Status
               /\ w.tab \in Tab \cup {None}
               /\ w.next \in Landing
               /\ IsOr({None, Bad}, w.cookie)
               /\ IsOr({None, Keep, Bad}, w.set)
               /\ Posted(w.op, w.arg)
               /\ w.status = "ok" => w.cookie \notin {None, Bad}

WellWires == wire = [r \in Req |-> wire[r]] /\ \A r \in Req : WellWire(wire[r])
WellPages == page = [t \in Tab |-> page[t]] /\ \A t \in Tab : WellPage(page[t])
Clocks == now \in 0..MaxTime /\ stamped \in 0..MaxTime /\ out \in BOOLEAN

TypeInv == IsOr({None, Bad}, jar) /\ WellPages /\ WellWires /\ Clocks

LEMMA TypeInvTypes == TypeInv => TypeOK
BY DEF TypeInv, TypeOK, WellPages, WellWires, Clocks, WellPage, WellWire, IsOr

LEMMA MessageTypes ==
  ASSUME NEW pc \in {"idle", "sent", "answered"}, NEW op \in Op, NEW t \in Tab \cup {None},
         NEW c, IsOr({None, Bad}, c), NEW arg, Posted(op, arg), NEW n \in Landing,
         NEW status \in Status, status = "ok" => c \notin {None, Bad},
         NEW set, IsOr({None, Keep, Bad}, set)
  PROVE  WellWire(Message(pc, op, t, c, arg, n, status, set))
<1>1. PICK w : w = Message(pc, op, t, c, arg, n, status, set)
  OBVIOUS
<1>2. w.pc = pc /\ w.op = op /\ w.cookie = c /\ w.set = set /\ w.tab = t
      /\ w.arg = arg /\ w.next = n /\ w.status = status
  BY <1>1, MessageFields
<1>3. WellWire(w)
  BY Zenon, <1>2 DEF WellWire
<1>. QED  BY <1>1, <1>3

LEMMA IdleTypes == WellWire(Idle)
<1>1. /\ "idle" \in {"idle", "sent", "answered"} /\ "none" \in Op /\ "page" \in Landing
      /\ "none" \in Status /\ Posted("none", None)
      /\ IsOr({None, Bad}, None) /\ IsOr({None, Keep, Bad}, Keep)
  BY DEF Op, Landing, Status, Posted, IsOr
<1>. QED  BY <1>1, MessageTypes DEF Idle

LEMMA SentTypes ==
  ASSUME NEW op \in Op, NEW t \in Tab \cup {None}, NEW c, IsOr({None, Bad}, c),
         NEW arg, Posted(op, arg), NEW n \in Landing
  PROVE  WellWire(Sent(op, t, c, arg, n))
<1>1. "sent" \in {"idle", "sent", "answered"} /\ "none" \in Status /\ IsOr({None, Keep, Bad}, Keep)
  BY DEF Status, IsOr
<1>. QED  BY <1>1, MessageTypes DEF Sent

LEMMA AnsweredTypes ==
  ASSUME NEW w, WellWire(w), NEW status \in Status, status = "ok" => w.cookie \notin {None, Bad},
         NEW set, IsOr({None, Keep, Bad}, set)
  PROVE  WellWire(Answered(w, status, set))
<1>1. "answered" \in {"idle", "sent", "answered"}
  OBVIOUS
<1>. QED  BY <1>1, MessageTypes DEF Answered, WellWire

\* A cookie issued from good parts is a good one.
LEMMA IssuedType ==
  ASSUME Clocks, NEW u \in User, NEW z \in Zone \cup {None}, NEW ids, IsSelection(ids)
  PROVE  IsCookie(Issued(u, z, ids))
<1>1. PICK c : c = Issued(u, z, ids)
  OBVIOUS
<1>2. c.user = u /\ c.expires = now + Ttl /\ c.tz = z /\ c.sel = ids
  BY <1>1, IssuedFields
<1>3. now + Ttl \in 0..(MaxTime + Ttl)
  BY TtlAssumption, TimeAssumption DEF Clocks
<1>4. IsCookie(c)
  <2>1. now + Ttl \in Int /\ ids \in Seq(Cdr)
    BY <1>3 DEF IsSelection
  <2>2. c \in Cookie
    BY <1>1, <2>1 DEF Issued, Cookie
  <2>. QED  BY <1>2, <1>3, <2>2 DEF IsCookie
<1>. QED  BY <1>1, <1>4

LEMMA OneWire ==
  ASSUME WellWires, NEW r \in Req, NEW w, WellWire(w), wire' = [wire EXCEPT ![r] = w]
  PROVE  WellWires'
<1>1. wire' = [q \in Req |-> wire'[q]]
  BY DEF WellWires
<1>2. ASSUME NEW q \in Req  PROVE WellWire(wire'[q])
  <2>1. wire'[q] = IF q = r THEN w ELSE wire[q]
    BY DEF WellWires
  <2>. QED  BY <2>1 DEF WellWires
<1>. QED  BY <1>1, <1>2 DEF WellWires

LEMMA SendTypes ==
  ASSUME TypeInv, NEW r \in Req, NEW w, WellWire(w), Send(r, w)
  PROVE  WellWires' /\ Clocks' /\ IsOr({None, Bad}, jar')
<1>1. WellWires'
  BY OneWire DEF Send, TypeInv
<1>. QED  BY <1>1 DEF Send, TypeInv, Clocks

\* To take an id out of a list leaves the others in their order.
LEMMA RemoveTypes ==
  ASSUME NEW s \in Seq(Cdr), IsInjective(s), NEW c, Contains(s, c)
  PROVE  RemoveFirst(s, c) \in Seq(Cdr) /\ IsInjective(RemoveFirst(s, c))
<1>. DEFINE I == {i \in 1..Len(s) : s[i] = c}
<1>1. PICK n \in Nat : n = Len(s)
  OBVIOUS
<1>2. I # {} /\ I \subseteq 1..n /\ I \subseteq Int /\ IsFiniteSet(I)
  <2>1. I # {} /\ I \subseteq 1..n
    BY <1>1 DEF Contains
  <2>2. IsFiniteSet(1..n) /\ 1..n \subseteq Int
    BY FS_Interval
  <2>. QED  BY <2>1, <2>2, FS_Subset
<1>. HIDE DEF I
<1>3. Min(I) \in I
  <2>1. \E m \in I : \A k \in I : m <= k
    BY <1>2, LeastInteger
  <2>. QED  BY <2>1 DEF Min
<1>4. PICK m \in 1..n : m = Min(I)
  BY <1>2, <1>3
<1>5. RemoveFirst(s, c) = RemoveAt(s, m)
  <2>1. \E i \in 1..Len(s) : s[i] = c
    BY DEF Contains
  <2>2. {i \in 1..Len(s) : s[i] = c} # {} /\ Min({i \in 1..Len(s) : s[i] = c}) = m
    BY <1>2, <1>4 DEF I
  <2>. QED  BY <2>1, <2>2 DEF RemoveFirst, SelectInSeq
<1>6. PICK a : a = SubSeq(s, 1, m - 1)
  OBVIOUS
<1>7. PICK b : b = SubSeq(s, m + 1, n)
  OBVIOUS
<1>8. a \in Seq(Cdr) /\ Len(a) = m - 1 /\ \A k \in 1..(m - 1) : a[k] = s[k]
  BY <1>1, <1>6
<1>9. b \in Seq(Cdr) /\ Len(b) = n - m /\ \A k \in 1..(n - m) : b[k] = s[m + k]
  BY <1>1, <1>7
<1>10. PICK r : r = a \o b
  OBVIOUS
<1>11. r \in Seq(Cdr) /\ Len(r) = n - 1
       /\ \A k \in 1..(n - 1) : r[k] = IF k < m THEN a[k] ELSE b[k - (m - 1)]
  <2>1. /\ r \in Seq(Cdr) /\ Len(r) = Len(a) + Len(b)
        /\ \A k \in 1..(Len(a) + Len(b)) : r[k] = IF k <= Len(a) THEN a[k] ELSE b[k - Len(a)]
    BY Zenon, <1>8, <1>9, <1>10, ConcatProperties
  <2>2. Len(a) + Len(b) = n - 1 /\ \A k \in 1..(n - 1) : k <= Len(a) <=> k < m
    BY <1>8, <1>9
  <2>. QED  BY <1>8, <2>1, <2>2
<1>12. \A k \in 1..(n - 1) : r[k] = IF k < m THEN s[k] ELSE s[k + 1]
  <2>1. SUFFICES ASSUME NEW k \in 1..(n - 1)  PROVE r[k] = IF k < m THEN s[k] ELSE s[k + 1]
    OBVIOUS
  <2>2. CASE k < m
    BY <1>8, <1>11, <2>2
  <2>3. CASE ~(k < m)
    <3>1. k - (m - 1) \in 1..(n - m) /\ m + (k - (m - 1)) = k + 1
      BY <2>3
    <3>. QED  BY <1>9, <1>11, <2>3, <3>1
  <2>. QED  BY <2>2, <2>3
<1>13. \A j, k \in 1..n : s[j] = s[k] => j = k
  BY <1>1 DEF IsInjective
<1>14. \A j, k \in 1..(n - 1) : r[j] = r[k] => j = k
  <2>. DEFINE At(k) == IF k < m THEN k ELSE k + 1
  <2>1. \A k \in 1..(n - 1) : At(k) \in 1..n /\ r[k] = s[At(k)]
    BY <1>12
  <2>2. \A j, k \in 1..(n - 1) : At(j) = At(k) => j = k
    OBVIOUS
  <2>. HIDE DEF At
  <2>. QED  BY <1>13, <2>1, <2>2
<1>15. r \in Seq(Cdr) /\ IsInjective(r)
  BY <1>11, <1>14 DEF IsInjective
<1>. QED  BY <1>1, <1>5, <1>6, <1>7, <1>10, <1>15 DEF RemoveAt

LEMMA AppendTypes ==
  ASSUME NEW s \in Seq(Cdr), IsInjective(s), NEW c \in Cdr, ~Contains(s, c)
  PROVE  Append(s, c) \in Seq(Cdr) /\ IsInjective(Append(s, c))
<1>1. PICK r : r = Append(s, c)
  OBVIOUS
<1>2. r \in Seq(Cdr) /\ Len(r) = Len(s) + 1 /\ Len(s) \in Nat /\ DOMAIN r = 1..(Len(s) + 1)
      /\ \A k \in 1..(Len(s) + 1) : r[k] = IF k = Len(s) + 1 THEN c ELSE s[k]
  BY <1>1
<1>3. /\ \A k \in 1..Len(s) : s[k] # c
      /\ \A j, k \in 1..Len(s) : s[j] = s[k] => j = k
  BY DEF Contains, IsInjective
<1>4. \A j, k \in 1..(Len(s) + 1) : r[j] = r[k] => j = k
  BY <1>2, <1>3
<1>. QED  BY <1>1, <1>2, <1>4 DEF IsInjective

LEMMA OperatorTypes ==
  ASSUME TypeInv, Operator
  PROVE  TypeInv'
<1>0. IsOr({None, Bad}, jar) /\ IsOr({None, Bad}, None)
  BY DEF TypeInv, IsOr
<1>1. ASSUME NEW r \in Req, NEW op \in Op, NEW t \in Tab \cup {None}, NEW c, c \in {jar, None},
             NEW arg, Posted(op, arg), NEW n \in Landing, Send(r, Sent(op, t, c, arg, n))
      PROVE  WellWires' /\ Clocks' /\ IsOr({None, Bad}, jar')
  BY <1>0, <1>1, SentTypes, SendTypes
<1>2. /\ {"page", "form", "logout", "api", "login", "tz", "select"} \subseteq Op
      /\ "page" \in Landing
      /\ \A op \in {"page", "form", "logout", "api"} : Posted(op, None)
  BY DEF Op, Landing, Posted
<1>3. page' = page => WellPages'
  BY DEF TypeInv, WellPages
<1>4. ASSUME NEW r \in Req, NEW t \in Tab, OpenPage(r, t) \/ OpenLogin(r, t) \/ SubmitLogout(r, t)
      PROVE  TypeInv'
  BY <1>1, <1>2, <1>3, <1>4 DEF OpenPage, OpenLogin, SubmitLogout, TypeInv
<1>5. ASSUME NEW r \in Req, NEW t \in Tab, Persist(r, t)  PROVE TypeInv'
  <2>1. WellPage(page[t])
    BY DEF TypeInv, WellPages
  <2>2. Posted("select", page[t].ticked)
    BY <2>1 DEF Posted, WellPage
  <2>3. WellWires' /\ Clocks' /\ IsOr({None, Bad}, jar')
    BY <1>1, <1>2, <1>5, <2>2 DEF Persist
  <2>4. page' = [page EXCEPT ![t].pending = FALSE]
    BY <1>5 DEF Persist
  <2>5. WellPages'
    <3>1. page' = [q \in Tab |-> page'[q]]
      BY <2>4 DEF TypeInv, WellPages
    <3>2. ASSUME NEW q \in Tab  PROVE WellPage(page'[q])
      <4>1. page'[q] = IF q = t THEN [page[t] EXCEPT !.pending = FALSE] ELSE page[q]
        BY <2>4 DEF TypeInv, WellPages
      <4>2. WellPage([page[t] EXCEPT !.pending = FALSE])
        BY <2>1 DEF WellPage
      <4>. QED  BY <4>1, <4>2 DEF TypeInv, WellPages
    <3>. QED  BY <3>1, <3>2 DEF WellPages
  <2>. QED  BY <2>3, <2>5 DEF TypeInv
<1>6. ASSUME NEW r \in Req, NEW t \in Tab, NEW u \in User \cup {None}, SubmitLogin(r, t, u)
      PROVE  TypeInv'
  <2>1. page[t].next \in Landing /\ Posted("login", u)
    BY DEF TypeInv, WellPages, WellPage, Posted
  <2>. QED  BY <1>1, <1>2, <1>3, <1>6, <2>1 DEF SubmitLogin, TypeInv
<1>7. ASSUME NEW r \in Req, NEW t \in Tab, NEW z \in Zone \cup {None}, SubmitTz(r, t, z)
      PROVE  TypeInv'
  <2>1. Posted("tz", z)
    BY DEF Posted
  <2>. QED  BY <1>1, <1>2, <1>3, <1>7, <2>1 DEF SubmitTz, TypeInv
<1>8. ASSUME NEW t \in Tab, NEW c \in Cdr, Toggle(t, c)  PROVE TypeInv'
  <2>1. WellPage(page[t])
    BY DEF TypeInv, WellPages
  <2>2. PICK s : s = IF Contains(page[t].ticked, c) THEN RemoveFirst(page[t].ticked, c)
                     ELSE Append(page[t].ticked, c)
    OBVIOUS
  <2>3. s \in Seq(Cdr) /\ IsInjective(s)
    BY <2>1, <2>2, RemoveTypes, AppendTypes DEF WellPage
  <2>4. page' = [page EXCEPT ![t] = [page[t] EXCEPT !.pending = TRUE, !.ticked = s]]
    <3>1. page' = [page EXCEPT ![t].pending = TRUE,
                               ![t].ticked = IF Contains(@, c) THEN RemoveFirst(@, c)
                                             ELSE Append(@, c)]
      BY <1>8 DEF Toggle
    <3>2. page = [q \in Tab |-> page[q]] /\ "ticked" \in DOMAIN page[t]
      BY <2>1 DEF TypeInv, WellPages, WellPage
    <3>. QED  BY <2>2, <3>1, <3>2
  <2>5. WellPage([page[t] EXCEPT !.pending = TRUE, !.ticked = s])
    BY <2>1, <2>3 DEF WellPage
  <2>6. WellPages'
    <3>1. page' = [q \in Tab |-> page'[q]]
      BY <2>4 DEF TypeInv, WellPages
    <3>2. ASSUME NEW q \in Tab  PROVE WellPage(page'[q])
      BY <2>4, <2>5 DEF TypeInv, WellPages
    <3>. QED  BY <3>1, <3>2 DEF WellPages
  <2>. QED  BY <1>8, <2>6 DEF Toggle, TypeInv, WellWires, Clocks
<1>9. ASSUME NEW r \in Req, NEW ids \in ScriptIds, ScriptSelect(r, ids)  PROVE TypeInv'
  <2>1. Posted("select", ids)
    BY ScriptAssumption DEF Posted
  <2>. QED  BY <1>1, <1>2, <1>3, <1>9, <2>1 DEF ScriptSelect, TypeInv
<1>10. ASSUME NEW r \in Req, BearerCall(r)  PROVE TypeInv'
  BY <1>1, <1>2, <1>3, <1>10 DEF BearerCall, TypeInv
<1>. QED  BY <1>4, <1>5, <1>6, <1>7, <1>8, <1>9, <1>10 DEF Operator

LEMMA AnswerTypes ==
  ASSUME TypeInv, NEW r \in Req, NEW status \in Status,
         status = "ok" => wire[r].cookie \notin {None, Bad},
         NEW set, IsOr({None, Keep, Bad}, set), Answer(r, status, set)
  PROVE  TypeInv'
<1>1. WellWire(wire[r])
  BY DEF TypeInv, WellWires
<1>2. WellWire(Answered(wire[r], status, set))
  BY <1>1, AnsweredTypes
<1>3. WellWires'
  BY <1>2, OneWire DEF Answer, TypeInv
<1>4. Clocks' /\ WellPages'
  BY DEF Answer, TypeInv, Clocks, WellPages
<1>. QED  BY <1>3, <1>4 DEF Answer, TypeInv

LEMMA ServeTypes ==
  ASSUME TypeInv, NEW r \in Req, Serve(r)
  PROVE  TypeInv'
<1>. DEFINE w == wire[r]
<1>0. WellWire(w) /\ Clocks
  BY DEF TypeInv, WellWires
<1>1. {"ok", "login_form", "to_login", "to_next", "no_content", "refused"} \subseteq Status
  BY DEF Status
<1>2. IsOr({None, Keep, Bad}, Keep) /\ IsOr({None, Keep, Bad}, None)
  BY DEF IsOr
<1>3. Decodes(w.cookie) => w.cookie \notin {None, Bad} /\ IsCookie(w.cookie)
  BY <1>0 DEF Decodes, WellWire, IsOr
<1>4. ASSUME NEW status \in Status, status # "ok", NEW set, IsOr({None, Keep, Bad}, set),
             Answer(r, status, set)
      PROVE  TypeInv'
  BY <1>4, AnswerTypes
<1>5. ASSUME NEW c, IsCookie(c)  PROVE IsOr({None, Keep, Bad}, c)
  BY <1>5 DEF IsOr
<1>6. ASSUME RequireLogin(r) \/ Refuse(r)  PROVE TypeInv'
  BY <1>1, <1>2, <1>4, <1>6 DEF RequireLogin, Refuse
<1>7. ASSUME cdr_list(r)  PROVE TypeInv'
  BY <1>1, <1>2, <1>3, <1>7, AnswerTypes DEF cdr_list
<1>8. ASSUME set_tz(r)  PROVE TypeInv'
  <2>1. IsCookie(w.cookie) /\ w.arg \in Zone \cup {None}
    BY <1>0, <1>3, <1>8 DEF set_tz, Receives, WellWire, Posted
  <2>2. IsCookie(with_tz(w.cookie, w.arg))
    BY <1>0, <2>1, IssuedType DEF with_tz, IsCookie, Cookie
  <2>. QED  BY <1>1, <1>4, <1>5, <1>8, <2>2 DEF set_tz
<1>9. ASSUME select_cdrs(r)  PROVE TypeInv'
  <2>1. IsCookie(w.cookie) /\ w.arg \in Seq(Cdr)
    BY <1>0, <1>3, <1>9 DEF select_cdrs, Receives, WellWire, Posted
  <2>2. IsSelection(Selected(w.arg))
    BY <2>1, SelectedIsSelection
  <2>3. IsCookie(with_selection(w.cookie, w.arg))
    BY <1>0, <2>1, <2>2, IssuedType DEF with_selection, IsCookie, Cookie
  <2>. QED  BY <1>1, <1>4, <1>5, <1>9, <2>3 DEF select_cdrs
<1>10. ASSUME login_form(r)  PROVE TypeInv'
  BY <1>1, <1>2, <1>4, <1>10 DEF login_form
<1>11. ASSUME login_submit(r)  PROVE TypeInv'
  <2>1. CASE w.arg = None
    BY <1>1, <1>2, <1>4, <1>11, <2>1 DEF login_submit
  <2>2. CASE w.arg # None
    <3>1. w.arg \in User
      BY <1>0, <1>11, <2>2 DEF login_submit, Receives, WellWire, Posted
    <3>2. IsSelection(<<>>)
      <4>1. <<>> \in Seq(Cdr) /\ Len(<<>>) = 0 /\ DOMAIN <<>> = {}
        OBVIOUS
      <4>. QED  BY <4>1, CapAssumption DEF IsSelection, IsInjective
    <3>3. IsCookie(new(w.arg))
      BY <1>0, <3>1, <3>2, IssuedType DEF new
    <3>. QED  BY <1>1, <1>4, <1>5, <1>11, <2>2, <3>3 DEF login_submit
  <2>. QED  BY <2>1, <2>2
<1>12. ASSUME logout(r)  PROVE TypeInv'
  BY <1>1, <1>2, <1>4, <1>12 DEF logout
<1>. QED  BY <1>6, <1>7, <1>8, <1>9, <1>10, <1>11, <1>12 DEF Serve

LEMMA ArriveTypes ==
  ASSUME TypeInv, NEW r \in Req, Arrive(r)
  PROVE  Clocks' /\ IsOr({None, Bad}, jar')
<1>1. WellWire(wire[r])
  BY DEF TypeInv, WellWires
<1>2. IsOr({None, Bad}, jar')
  BY <1>1 DEF Arrive, JarAfter, WellWire, IsOr, TypeInv
<1>3. out' \in BOOLEAN
  BY Zenon DEF Arrive, TypeInv, Clocks
<1>. QED  BY <1>2, <1>3 DEF Arrive, TypeInv, Clocks

LEMMA TakeTypes ==
  ASSUME TypeInv, NEW r \in Req, Take(r)
  PROVE  TypeInv'
<1>. DEFINE w == wire[r]
<1>0. WellWire(w) /\ WellWires /\ WellPages
  BY DEF TypeInv, WellWires
<1>1. Clocks' /\ IsOr({None, Bad}, jar')
  BY ArriveTypes DEF Take, TakeQuietly, TakePage, FollowRedirect
<1>2. page' = page => WellPages'
  BY DEF TypeInv, WellPages
<1>3. wire' = [wire EXCEPT ![r] = Idle] => WellWires'
  BY <1>0, IdleTypes, OneWire
<1>4. CASE TakeQuietly(r)
  BY <1>1, <1>2, <1>3, <1>4 DEF TakeQuietly, TypeInv
<1>5. CASE TakePage(r)
  <2>. DEFINE p == CASE w.status = "ok" -> ListPage(w.cookie.sel)
                     [] w.status = "login_form" -> LoginForm(w.next)
                     [] w.status = "refused" -> Blank
  <2>1. w.status = "ok" => w.cookie.sel \in Seq(Cdr) /\ IsInjective(w.cookie.sel)
    BY <1>0 DEF WellWire, IsOr, IsCookie, IsSelection
  <2>2. WellPage(Blank)
    <3>1. <<>> \in Seq(Cdr) /\ DOMAIN <<>> = {}
      OBVIOUS
    <3>. QED  BY <3>1 DEF Blank, WellPage, Landing, IsInjective
  <2>3. ASSUME NEW n \in Landing  PROVE WellPage(LoginForm(n))
    BY <2>2 DEF Blank, LoginForm, WellPage
  <2>4. ASSUME NEW s \in Seq(Cdr), IsInjective(s)  PROVE WellPage(ListPage(s))
    BY <2>4 DEF Blank, ListPage, WellPage, Landing
  <2>5. WellPage(p)
    <3>1. w.next \in Landing
      BY <1>0 DEF WellWire
    <3>2. w.status \in {"ok", "login_form", "refused"}
      BY <1>5 DEF TakePage
    <3>3. CASE w.status = "ok"
      BY <2>1, <2>4, <3>3
    <3>4. CASE w.status = "login_form"
      BY <2>3, <3>1, <3>4
    <3>5. CASE w.status = "refused"
      BY <2>2, <3>5
    <3>. QED  BY <3>2, <3>3, <3>4, <3>5
  <2>6. page' = [page EXCEPT ![w.tab] = p]
    BY <1>5 DEF TakePage
  <2>. HIDE DEF p
  <2>7. WellPages'
    <3>1. page' = [q \in Tab |-> page'[q]]
      BY <1>0, <2>6 DEF WellPages
    <3>2. ASSUME NEW q \in Tab  PROVE WellPage(page'[q])
      BY <1>0, <2>5, <2>6 DEF WellPages
    <3>. QED  BY <3>1, <3>2 DEF WellPages
  <2>. QED  BY <1>1, <1>3, <1>5, <2>7 DEF TakePage, TypeInv
<1>6. CASE FollowRedirect(r)
  <2>1. w.tab \in Tab \cup {None} /\ w.next \in Landing /\ Landing \subseteq Op
        /\ "form" \in Op /\ BackTo(w.op) \in Landing /\ Posted("form", None)
        /\ Posted(w.next, None)
    BY <1>0 DEF WellWire, Op, Landing, BackTo, Posted
  <2>2. WellWires'
    <3>1. CASE wire' = [wire EXCEPT ![r] = Sent("form", w.tab, jar', None, BackTo(w.op))]
      <4>1. WellWire(Sent("form", w.tab, jar', None, BackTo(w.op)))
        BY <1>1, <2>1, SentTypes
      <4>. QED  BY <1>0, <3>1, <4>1, OneWire
    <3>2. CASE wire' = [wire EXCEPT ![r] = Sent(w.next, w.tab, jar', None, w.next)]
      <4>1. WellWire(Sent(w.next, w.tab, jar', None, w.next))
        BY <1>1, <2>1, SentTypes
      <4>. QED  BY <1>0, <3>2, <4>1, OneWire
    <3>. QED  BY <1>6, <3>1, <3>2 DEF FollowRedirect
  <2>. QED  BY <1>1, <1>2, <1>6, <2>2 DEF FollowRedirect, TypeInv
<1>. QED  BY <1>4, <1>5, <1>6 DEF Take

LEMMA SpoiltTypes ==
  ASSUME NEW c
  PROVE  /\ IsOr({None, Bad}, c) => IsOr({None, Bad}, Spoilt(c))
         /\ IsOr({None, Keep, Bad}, Spoilt(c))
BY DEF IsOr, Spoilt

LEMMA NewSecretTypes ==
  ASSUME TypeInv, NewSecret
  PROVE  TypeInv'
<1>1. Clocks' /\ WellPages' /\ IsOr({None, Bad}, jar')
  BY SpoiltTypes DEF NewSecret, TypeInv, Clocks, WellPages
<1>2. wire' = [r \in Req |-> wire'[r]]
  BY DEF NewSecret
<1>3. ASSUME NEW r \in Req  PROVE WellWire(wire'[r])
  <2>. DEFINE w == wire[r]
  <2>0. WellWire(w)
    BY DEF TypeInv, WellWires
  <2>1. CASE w.pc = "idle"
    BY <2>0, <2>1 DEF NewSecret
  <2>2. CASE w.pc = "sent"
    <3>1. wire'[r] = Sent(w.op, w.tab, Spoilt(w.cookie), w.arg, w.next)
      BY <2>2 DEF NewSecret
    <3>2. IsOr({None, Bad}, Spoilt(w.cookie))
      BY <2>0, SpoiltTypes DEF WellWire
    <3>. QED  BY <2>0, <3>1, <3>2, SentTypes DEF WellWire
  <2>3. CASE w.pc \notin {"idle", "sent"}
    <3>1. wire'[r] = Answered(w, w.status, Spoilt(w.set))
      BY <2>3 DEF NewSecret
    <3>2. w.status \in Status /\ (w.status = "ok" => w.cookie \notin {None, Bad})
      BY <2>0 DEF WellWire
    <3>. QED  BY <2>0, <3>1, <3>2, SpoiltTypes, AnsweredTypes
  <2>. QED  BY <2>1, <2>2, <2>3
<1>. QED  BY <1>1, <1>2, <1>3 DEF TypeInv, WellWires

LEMMA InitTypes == Init => TypeInv
<1>. SUFFICES ASSUME Init  PROVE TypeInv
  OBVIOUS
<1>1. WellPage(Blank)
  <2>1. <<>> \in Seq(Cdr) /\ DOMAIN <<>> = {}
    OBVIOUS
  <2>. QED  BY <2>1 DEF Blank, WellPage, Landing, IsInjective
<1>2. WellPages /\ WellWires
  BY <1>1, IdleTypes DEF Init, WellPages, WellWires
<1>3. Clocks /\ IsOr({None, Bad}, jar)
  <2>1. now \in 0..MaxTime /\ stamped \in 0..MaxTime /\ IsOr({None, Bad}, jar)
    BY TimeAssumption DEF Init, IsOr
  <2>2. out \in BOOLEAN
    BY Zenon DEF Init
  <2>. QED  BY <2>1, <2>2 DEF Clocks
<1>. QED  BY <1>2, <1>3 DEF TypeInv

LEMMA NextTypes == TypeInv /\ [Next]_vars => TypeInv'
<1>. SUFFICES ASSUME TypeInv, [Next]_vars  PROVE TypeInv'
  OBVIOUS
<1>1. CASE UNCHANGED vars
  BY <1>1 DEF vars, TypeInv, WellPages, WellWires, Clocks
<1>2. CASE CookieDropped
  BY <1>2 DEF CookieDropped, TypeInv, WellPages, WellWires, Clocks, IsOr
<1>3. CASE Tick
  <2>1. now' \in 0..MaxTime
    BY <1>3, TimeAssumption DEF Tick, TypeInv, Clocks
  <2>. QED  BY <1>3, <2>1 DEF Tick, TypeInv, WellPages, WellWires, Clocks
<1>4. ASSUME NEW r \in Req, Lose(r)  PROVE TypeInv'
  <2>1. WellWires'
    BY <1>4, IdleTypes, OneWire DEF Lose, TypeInv
  <2>. QED  BY <1>4, <2>1 DEF Lose, TypeInv, WellPages, Clocks
<1>. QED  BY <1>1, <1>2, <1>3, <1>4, OperatorTypes, ServeTypes, TakeTypes, NewSecretTypes DEF Next

\* Whatever is posted, however often, and in whatever order the answers
\* come back: every cookie holds a selection without repetition of at most
\* Cap ids and an expiry at most Ttl ahead, and every page a list without
\* repetition.
THEOREM SessionTypes == Spec => []TypeOK
BY InitTypes, NextTypes, TypeInvTypes, PTL DEF Spec

-----------------------------------------------------------------------------
(* One request at a time, the cookie implements SessionRegister.           *)

Changes == {"tz", "select"}

\* What the operator's session is, while w is the only request.
Held(j, w) == IF j \notin {None, Bad} THEN Content(j)
              ELSE IF w.op \in Changes /\ w.cookie \notin {None, Bad} THEN Content(w.cookie)
              ELSE None

\* The only request in flight was made with the cookie of the jar, unless
\* that is gone by now.
Alone(j, w) ==
  /\ w.pc = "idle" => w.op = "none"
  /\ w.op \in Changes /\ j \notin {None, Bad} => w.cookie = j
  /\ w.pc = "answered" /\ w.op \in Changes /\ w.set \notin {None, Keep, Bad} =>
       w.cookie \notin {None, Bad}
  /\ w.pc = "answered" /\ w.op = "login" /\ w.set \notin {None, Keep, Bad} =>
       w.set.tz = None /\ w.set.sel = <<>>

LEMMA AloneSends ==
  ASSUME NEW j, NEW op, NEW t, NEW c, op \in Changes => c = j, NEW arg, NEW n
  PROVE  Alone(j, Sent(op, t, c, arg, n))
<1>1. PICK w : w = Sent(op, t, c, arg, n)
  OBVIOUS
<1>2. w.pc = "sent" /\ w.op = op /\ w.cookie = c
  BY <1>1, MessageFields DEF Sent
<1>3. Alone(j, w)
  BY <1>2 DEF Alone
<1>. QED  BY <1>1, <1>3

LEMMA AloneIdle ==
  ASSUME NEW j
  PROVE  Alone(j, Idle) /\ Idle.op \notin Changes
<1>1. PICK w : w = Idle
  OBVIOUS
<1>2. w.pc = "idle" /\ w.op = "none"
  BY <1>1, MessageFields DEF Idle
<1>3. Alone(j, w) /\ w.op \notin Changes
  BY <1>2 DEF Alone, Changes
<1>. QED  BY <1>1, <1>3

LEMMA AloneAnswers ==
  ASSUME NEW j, NEW w, Alone(j, w), NEW status, NEW set, w.pc = "sent",
         w.op \in Changes /\ set \notin {None, Keep, Bad} => w.cookie \notin {None, Bad},
         w.op = "login" /\ set \notin {None, Keep, Bad} => set.tz = None /\ set.sel = <<>>
  PROVE  Alone(j, Answered(w, status, set))
<1>1. PICK v : v = Answered(w, status, set)
  OBVIOUS
<1>2. v.pc = "answered" /\ v.op = w.op /\ v.cookie = w.cookie /\ v.set = set
  BY <1>1, MessageFields DEF Answered
<1>3. Alone(j, v)
  BY <1>2 DEF Alone
<1>. QED  BY <1>1, <1>3

LEMMA AloneInit ==
  ASSUME NEW r \in Req, Init
  PROVE  Alone(jar, wire[r])
BY AloneIdle DEF Init

LEMMA AloneServe ==
  ASSUME NEW r \in Req, Alone(jar, wire[r]), Serve(r), wire = [q \in Req |-> wire[q]]
  PROVE  Alone(jar', wire'[r])
<1>. DEFINE w == wire[r]
<1>1. w.pc = "sent"
  BY DEF Serve, RequireLogin, Refuse, cdr_list, set_tz, select_cdrs, login_form,
         login_submit, logout, Receives
<1>2. ASSUME NEW status, NEW set, Answer(r, status, set),
             w.op \in Changes /\ set \notin {None, Keep, Bad} => w.cookie \notin {None, Bad},
             w.op = "login" /\ set \notin {None, Keep, Bad} => set.tz = None /\ set.sel = <<>>
      PROVE  Alone(jar', wire'[r])
  <2>1. jar' = jar /\ wire'[r] = Answered(w, status, set)
    BY <1>2 DEF Answer
  <2>. QED  BY <1>1, <1>2, <2>1, AloneAnswers
<1>3. ASSUME NEW status, Answer(r, status, Keep)  PROVE Alone(jar', wire'[r])
  BY <1>2, <1>3
<1>4. CASE RequireLogin(r) \/ Refuse(r) \/ cdr_list(r) \/ login_form(r)
  BY <1>3, <1>4 DEF RequireLogin, Refuse, cdr_list, login_form
<1>5. CASE set_tz(r) \/ select_cdrs(r)
  <2>1. w.op \in Changes /\ w.cookie \notin {None, Bad}
    BY <1>5 DEF set_tz, select_cdrs, Receives, Decodes, Changes
  <2>2. w.op # "login"
    BY <2>1 DEF Changes
  <2>. QED  BY <1>2, <1>5, <2>1, <2>2 DEF set_tz, select_cdrs
<1>6. CASE login_submit(r)
  <2>1. w.op \notin Changes
    BY <1>6 DEF login_submit, Receives, Changes
  <2>2. new(w.arg).tz = None /\ new(w.arg).sel = <<>>
    BY IssuedFields DEF new
  <2>. QED  BY <1>2, <1>3, <1>6, <2>1, <2>2 DEF login_submit
<1>7. CASE logout(r)
  <2>1. w.op \notin Changes
    BY <1>7 DEF logout, Receives, Changes
  <2>. QED  BY <1>2, <1>7, <2>1 DEF logout
<1>. QED  BY <1>4, <1>5, <1>6, <1>7 DEF Serve

LEMMA AloneOperator ==
  ASSUME NEW r \in Req, Req = {r}, Alone(jar, wire[r]), Operator, wire = [q \in Req |-> wire[q]]
  PROVE  Alone(jar', wire'[r])
<1>1. ASSUME NEW op, NEW t, NEW c, op \in Changes => c = jar, NEW arg, NEW n,
             Send(r, Sent(op, t, c, arg, n))
      PROVE  Alone(jar', wire'[r])
  <2>1. jar' = jar /\ wire'[r] = Sent(op, t, c, arg, n)
    BY <1>1 DEF Send
  <2>. QED  BY <1>1, <2>1, AloneSends
<1>2. "api" \notin Changes
  BY DEF Changes
<1>3. ASSUME NEW t \in Tab, OpenPage(r, t) \/ OpenLogin(r, t) \/ SubmitLogout(r, t) \/ Persist(r, t)
      PROVE  Alone(jar', wire'[r])
  BY <1>1, <1>3 DEF OpenPage, OpenLogin, SubmitLogout, Persist
<1>4. ASSUME NEW t \in Tab, NEW u, SubmitLogin(r, t, u)  PROVE Alone(jar', wire'[r])
  BY <1>1, <1>4 DEF SubmitLogin
<1>5. ASSUME NEW t \in Tab, NEW z, SubmitTz(r, t, z)  PROVE Alone(jar', wire'[r])
  BY <1>1, <1>5 DEF SubmitTz
<1>6. ASSUME NEW t \in Tab, NEW c \in Cdr, Toggle(t, c)  PROVE Alone(jar', wire'[r])
  BY <1>6 DEF Toggle
<1>7. ASSUME NEW ids, ScriptSelect(r, ids)  PROVE Alone(jar', wire'[r])
  BY <1>1, <1>7 DEF ScriptSelect
<1>8. ASSUME BearerCall(r)  PROVE Alone(jar', wire'[r])
  BY <1>1, <1>2, <1>8 DEF BearerCall
<1>. QED  BY <1>3, <1>4, <1>5, <1>6, <1>7, <1>8 DEF Operator

LEMMA AloneTake ==
  ASSUME NEW r \in Req, WellWire(wire[r]), Take(r), wire = [q \in Req |-> wire[q]]
  PROVE  /\ Alone(jar', wire'[r]) /\ jar' = JarAfter(r)
         /\ jar' \in {None, Bad} => Held(jar', wire'[r]) = None
<1>0. jar' = JarAfter(r)
  BY DEF Take, TakeQuietly, TakePage, FollowRedirect, Arrive
<1>1. CASE wire' = [wire EXCEPT ![r] = Idle]
  <2>1. wire'[r] = Idle
    BY <1>1
  <2>. QED  BY <1>0, <2>1, AloneIdle DEF Held
<1>2. ASSUME NEW op, op \notin Changes, NEW t, NEW n,
             wire' = [wire EXCEPT ![r] = Sent(op, t, jar', None, n)]
      PROVE  Alone(jar', wire'[r]) /\ (jar' \in {None, Bad} => Held(jar', wire'[r]) = None)
  <2>1. wire'[r] = Sent(op, t, jar', None, n)
    BY <1>2
  <2>2. wire'[r].op = op
    BY <2>1, MessageFields DEF Sent
  <2>. QED  BY <1>2, <2>1, <2>2, AloneSends DEF Held
<1>3. wire[r].next \notin Changes /\ "form" \notin Changes
  BY DEF WellWire, Landing, Changes
<1>. QED  BY <1>0, <1>1, <1>2, <1>3 DEF Take, TakeQuietly, TakePage, FollowRedirect

\* A new secret takes the session away, or leaves the one that a change on
\* its way back holds.
LEMMA AloneNewSecret ==
  ASSUME NEW r \in Req, Alone(jar, wire[r]), WellWire(wire[r]), NewSecret
  PROVE  /\ Alone(jar', wire'[r])
         /\ Held(jar', wire'[r]) \in {None, Held(jar, wire[r])}
<1>. DEFINE w == wire[r]
<1>1. jar' = Spoilt(jar)
  BY DEF NewSecret
<1>2. jar' \in {None, Bad} \/ (jar' = jar /\ jar = Keep)
  BY <1>1 DEF Spoilt
<1>3. CASE w.pc = "idle"
  <2>1. wire'[r] = w
    BY <1>3 DEF NewSecret
  <2>. QED  BY <1>2, <1>3, <2>1 DEF Alone, Held, Changes
<1>4. CASE w.pc = "sent"
  <2>1. wire'[r] = Sent(w.op, w.tab, Spoilt(w.cookie), w.arg, w.next)
    BY <1>4 DEF NewSecret
  <2>2. wire'[r].pc = "sent" /\ wire'[r].op = w.op /\ wire'[r].cookie = Spoilt(w.cookie)
    BY <2>1, MessageFields DEF Sent
  <2>. QED  BY <1>1, <1>2, <1>4, <2>2 DEF Alone, Held, Spoilt
<1>5. CASE w.pc = "answered"
  <2>1. wire'[r] = Answered(w, w.status, Spoilt(w.set))
    BY <1>5 DEF NewSecret
  <2>2. wire'[r].pc = "answered" /\ wire'[r].op = w.op /\ wire'[r].cookie = w.cookie
        /\ wire'[r].set = Spoilt(w.set)
    BY <2>1, MessageFields DEF Answered
  <2>3. wire'[r].set \in {None, Keep, Bad}
    BY <2>2 DEF Spoilt
  <2>. QED  BY <1>2, <1>5, <2>2, <2>3 DEF Alone, Held
<1>. QED  BY <1>3, <1>4, <1>5 DEF WellWire

\* What Register calls session.
Session == IF jar \notin {None, Bad} THEN Content(jar)
           ELSE IF Changing # {} THEN Content(wire[CHOOSE r \in Changing : TRUE].cookie)
           ELSE None

LEMMA SessionIsHeld ==
  ASSUME NEW r, Req = {r}
  PROVE  /\ Session = Held(jar, wire[r])
         /\ Session' = Held(jar', wire'[r])
<1>1. Session = Held(jar, wire[r])
  <2>1. CASE wire[r].op \in Changes /\ wire[r].cookie \notin {None, Bad}
    <3>1. Changing = {r}
      BY <2>1 DEF Changing, Changes
    <3>2. (CHOOSE q \in {r} : TRUE) = r
      OBVIOUS
    <3>. QED  BY <2>1, <3>1, <3>2 DEF Session, Held
  <2>2. CASE ~(wire[r].op \in Changes /\ wire[r].cookie \notin {None, Bad})
    <3>1. Changing = {}
      BY <2>2 DEF Changing, Changes
    <3>. QED  BY <2>2, <3>1 DEF Session, Held
  <2>. QED  BY <2>1, <2>2
<1>2. Session' = Held(jar', wire'[r])
  <2>1. CASE wire'[r].op \in Changes /\ wire'[r].cookie \notin {None, Bad}
    <3>1. Changing' = {r}
      BY <2>1 DEF Changing, Changes
    <3>2. (CHOOSE q \in {r} : TRUE) = r
      OBVIOUS
    <3>. QED  BY <2>1, <3>1, <3>2 DEF Session, Held
  <2>2. CASE ~(wire'[r].op \in Changes /\ wire'[r].cookie \notin {None, Bad})
    <3>1. Changing' = {}
      BY <2>2 DEF Changing, Changes
    <3>. QED  BY <2>2, <3>1 DEF Session, Held
  <2>. QED  BY <2>1, <2>2
<1>. QED  BY <1>1, <1>2

LEMMA RegisterMoves ==
  /\ Session' = None => Register!Next
  /\ \A u \in User : Session' = [user |-> u, tz |-> None, sel |-> <<>>] => Register!Next
  /\ \A z \in Zone \cup {None} :
       Session # None /\ Session' = [Session EXCEPT !.tz = z] => Register!Next
  /\ \A ids : IsSelection(ids) /\ Session # None /\ Session' = [Session EXCEPT !.sel = ids] =>
               Register!Next
<1>1. Session' = None => Register!Next
  BY DEF Register!Next, Register!End, Session
<1>2. ASSUME NEW u \in User, Session' = [user |-> u, tz |-> None, sel |-> <<>>]
      PROVE  Register!Next
  <2>1. Register!SignIn(u)
    BY <1>2 DEF Register!SignIn, Session
  <2>. QED  BY <2>1 DEF Register!Next
<1>3. ASSUME NEW z \in Zone \cup {None}, Session # None, Session' = [Session EXCEPT !.tz = z]
      PROVE  Register!Next
  <2>1. Register!SetTz(z)
    BY <1>3 DEF Register!SetTz, Session
  <2>. QED  BY <2>1 DEF Register!Next
<1>4. ASSUME NEW ids, IsSelection(ids), Session # None, Session' = [Session EXCEPT !.sel = ids]
      PROVE  Register!Next
  <2>1. Register!Select(ids)
    BY <1>4 DEF Register!Select, Session
  <2>2. ids \in Register!Selections
    <3>1. PICK n \in Nat : n = Len(ids)
      BY <1>4 DEF IsSelection
    <3>2. n \in 0..Cap /\ ids \in [1..n -> Cdr]
      BY <1>4, <3>1, CapAssumption DEF IsSelection
    <3>3. \A i, j \in 1..n : ids[i] = ids[j] => i = j
      BY <1>4, <3>1 DEF IsSelection, IsInjective
    <3>. QED  BY <3>2, <3>3 DEF Register!Selections
  <2>. QED  BY <2>1, <2>2 DEF Register!Next
<1>. QED  BY <1>1, <1>2, <1>3, <1>4

\* The answer to a change changes what it is about.
LEMMA TakeMoves ==
  ASSUME NEW r, Req = {r}, IInv, TypeInv, Alone(jar, wire[r]), Take(r)
  PROVE  Register!Next \/ Session' = Session
<1>. DEFINE w == wire[r]
<1>0. r \in Req /\ WellWire(w) /\ Fits(w) /\ wire = [q \in Req |-> wire[q]]
  BY DEF TypeInv, WellWires, IInv, WireOK
<1>1. /\ jar' = JarAfter(r)
      /\ jar' \in {None, Bad} => Held(jar', wire'[r]) = None
  BY <1>0, AloneTake
<1>2. w.pc = "answered"
  BY DEF Take, TakeQuietly, TakePage, FollowRedirect, Arrive
<1>3. CASE jar' \in {None, Bad}
  <2>1. Session' = None
    BY <1>1, <1>3, SessionIsHeld
  <2>. QED  BY <2>1, RegisterMoves
<1>4. CASE jar' \notin {None, Bad} /\ jar' = jar
  <2>1. Session' = Content(jar') /\ Session = Content(jar)
    BY <1>4, SessionIsHeld DEF Held
  <2>. QED  BY <1>4, <2>1
<1>5. CASE jar' \notin {None, Bad} /\ jar' # jar
  <2>1. jar' = w.set /\ w.set \notin {None, Keep, Bad} /\ IsCookie(w.set)
    BY <1>0, <1>1, <1>5 DEF JarAfter, WellWire, IsOr
  <2>2. Session' = Content(w.set)
    BY <1>5, <2>1, SessionIsHeld DEF Held
  <2>3. w.set.user \in User /\ w.set.tz \in Zone \cup {None} /\ IsSelection(w.set.sel)
    BY <2>1 DEF IsCookie, Cookie
  <2>4. CASE w.op = "login"
    <3>1. w.set.tz = None /\ w.set.sel = <<>>
      BY <1>2, <2>1, <2>4 DEF Alone
    <3>2. Session' = [user |-> w.set.user, tz |-> None, sel |-> <<>>]
      BY <2>2, <3>1 DEF Content
    <3>. QED  BY <2>3, <3>2, RegisterMoves
  <2>5. CASE w.op \in Changes
    <3>1. w.cookie \notin {None, Bad} /\ IsCookie(w.cookie)
      BY <1>0, <1>2, <2>1, <2>5 DEF Alone, WellWire, IsOr
    <3>2. Session = Content(w.cookie)
      BY <2>5, <3>1, SessionIsHeld DEF Alone, Held
    <3>3. Session # None
      <4>1. w.cookie \in Cookie
        BY <3>1 DEF IsCookie
      <4>2. Content(w.cookie) \in [user : User, tz : Zone \cup {None}, sel : Seq(Cdr)]
        BY <4>1 DEF Content, Cookie
      <4>. QED  BY <3>2, <4>2, NoneAssumption
    <3>4. CASE w.op = "tz"
      <4>1. w.set.user = w.cookie.user /\ w.set.sel = w.cookie.sel
        BY <1>0, <1>2, <2>1, <3>4 DEF Fits
      <4>2. Session' = [Session EXCEPT !.tz = w.set.tz]
        BY <2>2, <3>2, <4>1 DEF Content
      <4>. QED  BY <2>3, <3>3, <4>2, RegisterMoves
    <3>5. CASE w.op = "select"
      <4>1. w.set.user = w.cookie.user /\ w.set.tz = w.cookie.tz
        BY <1>0, <1>2, <2>1, <3>5 DEF Fits
      <4>2. Session' = [Session EXCEPT !.sel = w.set.sel]
        BY <2>2, <3>2, <4>1 DEF Content
      <4>. QED  BY <2>3, <3>3, <4>2, RegisterMoves
    <3>. QED  BY <2>5, <3>4, <3>5 DEF Changes
  <2>6. CASE w.op \notin {"tz", "select", "login"}
    <3>1. w.set \in {None, Bad, Keep}
      BY <1>0, <1>2, <2>6 DEF Fits
    <3>. QED  BY <2>1, <3>1
  <2>. QED  BY <2>4, <2>5, <2>6 DEF Changes
<1>. QED  BY <1>3, <1>4, <1>5

SerialInv(r) == IInv /\ TypeInv /\ Alone(jar, wire[r])

\* Every step moves the register, or leaves it as it is.
LEMMA SerialStep ==
  ASSUME NEW r, Req = {r}, SerialInv(r), [Next]_vars
  PROVE  SerialInv(r)' /\ (Register!Next \/ Session' = Session)
<1>0. /\ r \in Req /\ IInv /\ TypeInv /\ Alone(jar, wire[r])
      /\ WellWire(wire[r]) /\ wire = [q \in Req |-> wire[q]]
  BY DEF SerialInv, TypeInv, WellWires
<1>1. IInv' /\ TypeInv'
  BY <1>0, NextInv, NextTypes
<1>2. SUFFICES Alone(jar', wire'[r]) /\ (Register!Next \/ Session' = Session)
  BY <1>1 DEF SerialInv
<1>3. /\ Session = Held(jar, wire[r])
      /\ Session' = Held(jar', wire'[r])
  BY SessionIsHeld
<1>4. ASSUME Session' = None  PROVE Register!Next
  BY <1>4, RegisterMoves
<1>5. CASE UNCHANGED vars
  BY <1>0, <1>3, <1>5 DEF vars
<1>6. CASE CookieDropped
  <2>1. jar' = None /\ wire' = wire
    BY <1>6 DEF CookieDropped
  <2>2. Held(jar', wire'[r]) \in {None, Held(jar, wire[r])}
    BY <1>0, <2>1 DEF Held, Alone
  <2>3. Alone(jar', wire'[r])
    BY <1>0, <2>1 DEF Alone
  <2>. QED  BY <1>3, <1>4, <2>2, <2>3
<1>7. CASE Tick
  BY <1>0, <1>3, <1>7 DEF Tick
<1>8. CASE NewSecret
  BY <1>0, <1>3, <1>4, <1>8, AloneNewSecret
<1>9. CASE Operator
  <2>1. Alone(jar', wire'[r])
    BY <1>0, <1>9, AloneOperator
  <2>2. ASSUME NEW op, NEW t, NEW c, c \in {jar, None}, NEW arg, NEW n, Send(r, Sent(op, t, c, arg, n))
        PROVE  Register!Next \/ Session' = Session
    <3>1. jar' = jar /\ wire[r].pc = "idle" /\ wire'[r] = Sent(op, t, c, arg, n)
      BY <1>0, <2>2 DEF Send
    <3>2. wire'[r].cookie = c /\ wire[r].op = "none"
      BY <1>0, <3>1, MessageFields DEF Sent, Alone
    <3>3. Held(jar', wire'[r]) = Held(jar, wire[r])
      BY <2>2, <3>1, <3>2 DEF Held, Changes
    <3>. QED  BY <1>3, <3>3
  <2>3. ASSUME NEW t \in Tab, NEW c \in Cdr, Toggle(t, c)  PROVE Session' = Session
    BY <1>3, <2>3 DEF Toggle
  <2>4. ASSUME NEW t \in Tab, OpenPage(r, t) \/ OpenLogin(r, t) \/ SubmitLogout(r, t) \/ Persist(r, t)
        PROVE  Register!Next \/ Session' = Session
    BY <2>2, <2>4 DEF OpenPage, OpenLogin, SubmitLogout, Persist
  <2>5. ASSUME NEW t \in Tab, NEW x, SubmitLogin(r, t, x) \/ SubmitTz(r, t, x)
        PROVE  Register!Next \/ Session' = Session
    BY <2>2, <2>5 DEF SubmitLogin, SubmitTz
  <2>6. ASSUME NEW ids, ScriptSelect(r, ids) \/ BearerCall(r)
        PROVE  Register!Next \/ Session' = Session
    BY <2>2, <2>6 DEF ScriptSelect, BearerCall
  <2>. QED  BY <1>0, <1>9, <2>1, <2>3, <2>4, <2>5, <2>6 DEF Operator
<1>10. CASE Serve(r)
  <2>1. Alone(jar', wire'[r])
    BY <1>0, <1>10, AloneServe
  <2>2. ASSUME NEW status, NEW set, Answer(r, status, set)  PROVE Session' = Session
    <3>1. jar' = jar /\ wire'[r] = Answered(wire[r], status, set)
      BY <1>0, <2>2 DEF Answer
    <3>2. wire'[r].op = wire[r].op /\ wire'[r].cookie = wire[r].cookie
      BY <3>1, MessageFields DEF Answered
    <3>. QED  BY <1>3, <3>1, <3>2 DEF Held
  <2>3. Session' = Session
    BY <1>10, <2>2 DEF Serve, RequireLogin, Refuse, cdr_list, set_tz, select_cdrs, login_form,
                       login_submit, logout
  <2>. QED  BY <2>1, <2>3
<1>11. CASE Take(r)
  <2>1. Alone(jar', wire'[r])
    BY <1>0, <1>11, AloneTake
  <2>2. Register!Next \/ Session' = Session
    BY <1>0, <1>11, TakeMoves
  <2>. QED  BY <2>1, <2>2
<1>12. CASE Lose(r)
  <2>1. jar' = jar /\ wire'[r] = Idle
    BY <1>0, <1>12 DEF Lose
  <2>2. Held(jar', wire'[r]) \in {None, Held(jar, wire[r])}
    BY <2>1, AloneIdle DEF Held
  <2>3. Alone(jar', wire'[r])
    BY <2>1, AloneIdle
  <2>. QED  BY <1>3, <1>4, <2>2, <2>3
<1>. QED  BY <1>0, <1>5, <1>6, <1>7, <1>8, <1>9, <1>10, <1>11, <1>12 DEF Next

\* With one request at a time, whatever is lost, expires or is signed with
\* another secret, each change touches its own part of the session only and
\* nobody is signed in without a login.
THEOREM SerialSessionIsRegister ==
  ASSUME NEW r, Req = {r}
  PROVE  Spec => ImplementsRegister
<1>1. Init => SerialInv(r)
  BY InitInv, InitTypes, AloneInit DEF SerialInv
<1>2. SerialInv(r) /\ [Next]_vars => SerialInv(r)' /\ (Register!Next \/ Session' = Session)
  BY SerialStep
<1>3. Init => Register!Init
  <2>1. SUFFICES ASSUME Init  PROVE Session = None
    BY DEF Register!Init, Session
  <2>2. Held(jar, wire[r]) = None
    <3>1. jar = None /\ wire[r] = Idle
      BY <2>1 DEF Init
    <3>. QED  BY <3>1, AloneIdle DEF Held
  <2>. QED  BY <2>2, SessionIsHeld
<1>4. (Register!Next \/ Session' = Session) => [Register!Next]_Session
  OBVIOUS
<1>5. [][Register!Next]_Session /\ Register!Init => Register!Spec
  BY DEF Register!Spec, Session
<1>. QED  BY <1>1, <1>2, <1>3, <1>4, <1>5, PTL DEF Spec, ImplementsRegister
=============================================================================
