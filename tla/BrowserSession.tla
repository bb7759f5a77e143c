--------------------------- MODULE BrowserSession ---------------------------
(***************************************************************************)
(* The signed-in session: all of it lives in the rusto_session cookie      *)
(* (src/auth/session.rs).  The server keeps nothing: a handler decodes the *)
(* cookie its request carried, and the ones of src/routes/login.rs answer  *)
(* with a whole new cookie made from it.  In between are the middleware    *)
(* (src/middleware.rs), the browser's cookie jar, the script of the CDR    *)
(* list page (templates/cdr_list.html), and a network on which requests    *)
(* of several tabs overlap and answers are late or lost.                   *)
(***************************************************************************)
EXTENDS Integers, Sequences, SequencesExt

CONSTANTS User, Zone, Cdr,
          Tab,             \* the browser's tabs
          Req,             \* requests in flight at the same time
          Cap,             \* SESSION_SELECTION_CAP
          Ttl,             \* TTL_SECS
          MaxTime,         \* bound of the clock
          ScriptIds,       \* what a client other than the page posts as ids
          Bad,             \* a cookie that does not decode (another secret)
          Keep,            \* an answer without Set-Cookie
          None

ASSUME CapAssumption == Cap \in Nat \ {0}
ASSUME TtlAssumption == Ttl \in Nat \ {0}
ASSUME TimeAssumption == MaxTime \in Nat
ASSUME ScriptAssumption == ScriptIds \subseteq Seq(Cdr)
ASSUME NoneAssumption == None \notin [user : User, tz : Zone \cup {None}, sel : Seq(Cdr)]

VARIABLES jar,      \* what the browser sends: a cookie, Bad or None
          page,     \* page[t]: what tab t shows
          wire,     \* wire[r]: a request in flight, or its answer on the way back
          now,
          stamped,  \* when a cookie was last issued (observation)
          out       \* the last sign-in or sign-out the jar took was a sign-out (observation)

vars == <<jar, page, wire, now, stamped, out>>

Cookie == [user : User, expires : Int, tz : Zone \cup {None}, sel : Seq(Cdr)]

Landing == {"page", "get_tz"}     \* where login leads back to

Blank == [view |-> "blank", next |-> "page", ticked |-> <<>>, pending |-> FALSE]
LoginForm(n) == [Blank EXCEPT !.view = "login", !.next = n]
ListPage(ids) == [Blank EXCEPT !.view = "list", !.ticked = ids]

Message(pc, op, t, c, arg, n, status, set) ==
  [pc |-> pc, op |-> op, tab |-> t, cookie |-> c, arg |-> arg, next |-> n,
   status |-> status, set |-> set]

Idle == Message("idle", "none", None, None, None, "page", "none", Keep)
Sent(op, t, c, arg, n) == Message("sent", op, t, c, arg, n, "none", Keep)
Answered(w, status, set) ==
  Message("answered", w.op, w.tab, w.cookie, w.arg, w.next, status, set)

Op == {"none", "page", "get_tz", "tz", "select", "logout", "login", "form", "api"}
Status == {"none", "ok", "login_form", "to_login", "to_next", "no_content", "refused"}

\* A selection: no id twice, at most Cap of them.
IsSelection(s) == /\ s \in Seq(Cdr)
                  /\ Len(s) <= Cap
                  /\ IsInjective(s)

IsCookie(c) == /\ c \in Cookie
               /\ c.expires \in 0..(MaxTime + Ttl)
               /\ IsSelection(c.sel)

TypeOK == /\ jar \in {None, Bad} \/ IsCookie(jar)
          /\ \A t \in Tab : /\ page[t].view \in {"blank", "login", "list"}
                            /\ page[t].next \in Landing
                            /\ IsInjective(page[t].ticked)
                            /\ page[t].pending \in BOOLEAN
          /\ \A r \in Req : /\ wire[r].pc \in {"idle", "sent", "answered"}
                            /\ wire[r].op \in Op /\ wire[r].status \in Status
                            /\ wire[r].tab \in Tab \cup {None}
                            /\ wire[r].next \in Landing
                            /\ wire[r].cookie \in {None, Bad} \/ IsCookie(wire[r].cookie)
                            /\ wire[r].set \in {None, Keep, Bad} \/ IsCookie(wire[r].set)
          /\ now \in 0..MaxTime /\ stamped \in 0..MaxTime /\ out \in BOOLEAN

Init == /\ jar = None
        /\ page = [t \in Tab |-> Blank]
        /\ wire = [r \in Req |-> Idle]
        /\ now = 0 /\ stamped = 0 /\ out = FALSE

-----------------------------------------------------------------------------
(* src/auth/session.rs                                                     *)

\* mutant: decode_cookie does not look at the expiry.
DecodesForEver(c) == c \notin {None, Bad}

\* decode_cookie answers Some.
Decodes(c) == c \notin {None, Bad} /\ now < c.expires

\* Every new cookie lives for another Ttl.
Issued(u, z, ids) == [user |-> u, expires |-> now + Ttl, tz |-> z, sel |-> ids]

new(u) == Issued(u, None, <<>>)

\* mutant: the new cookie starts from a fresh session.
with_tz_from_new(c, z) == Issued(c.user, z, <<>>)

with_tz(c, z) == Issued(c.user, z, c.sel)

\* mutant: the check for the cap comes too late by one.
TakeOneMore(s, id) ==
  IF id \in s.seen THEN s
  ELSE [seen |-> s.seen \cup {id},
        out |-> Append(IF Len(s.out) > Cap THEN Tail(s.out) ELSE s.out, id)]

\* The loop of with_selection: an id once seen is not taken again; a full
\* list drops its head.
TakeId(s, id) ==
  IF id \in s.seen THEN s
  ELSE [seen |-> s.seen \cup {id},
        out |-> Append(IF Len(s.out) >= Cap THEN Tail(s.out) ELSE s.out, id)]

Selected(ids) == FoldLeft(TakeId, [seen |-> {}, out |-> <<>>], ids).out

with_selection(c, ids) == Issued(c.user, c.tz, Selected(ids))

-----------------------------------------------------------------------------
(* The operator and the page's script.                                     *)

Send(r, w) == /\ wire[r].pc = "idle"
              /\ wire' = [wire EXCEPT ![r] = w]
              /\ UNCHANGED <<jar, now, stamped, out>>

Shows(t, view) == page[t].view = view

\* One navigation per tab at a time; the script's own fetches are not one.
Steady(t) == \A q \in Req : wire[q].pc # "idle" /\ wire[q].tab = t => wire[q].op = "select"

\* The address bar, a link or a reload.
OpenPage(r, t) == /\ Steady(t)
                  /\ Send(r, Sent("page", t, jar, None, "page"))
                  /\ UNCHANGED page

OpenLogin(r, t) == /\ Steady(t)
                   /\ Send(r, Sent("form", t, jar, None, "page"))
                   /\ UNCHANGED page

\* The login form, with good credentials of u, or with wrong ones.
SubmitLogin(r, t, u) == /\ Shows(t, "login") /\ Steady(t)
                        /\ Send(r, Sent("login", t, jar, u, page[t].next))
                        /\ UNCHANGED page

\* The topbar's form; what parse_tz_form_value does not take means None.
SubmitTz(r, t, z) == /\ Shows(t, "list") /\ Steady(t)
                     /\ Send(r, Sent("tz", t, jar, z, "page"))
                     /\ UNCHANGED page

SubmitLogout(r, t) == /\ Shows(t, "list") /\ Steady(t)
                      /\ Send(r, Sent("logout", t, jar, None, "page"))
                      /\ UNCHANGED page

\* onCdrToggle: a Set in the page, and a timer of 400 ms.
Toggle(t, c) ==
  /\ Shows(t, "list")
  /\ page' = [page EXCEPT ![t].pending = TRUE,
                          ![t].ticked = IF Contains(@, c) THEN RemoveFirst(@, c)
                                        ELSE Append(@, c)]
  /\ UNCHANGED <<jar, wire, now, stamped, out>>

\* persistSelection: the timer fires.
Persist(r, t) == /\ page[t].pending
                 /\ Send(r, Sent("select", t, jar, page[t].ticked, "page"))
                 /\ page' = [page EXCEPT ![t].pending = FALSE]

\* A script with the same cookie file posts ids of its own.
ScriptSelect(r, ids) == /\ Send(r, Sent("select", None, jar, ids, "page"))
                        /\ UNCHANGED page

\* A client with a valid bearer token and no cookie calls a protected route.
BearerCall(r) == /\ Send(r, Sent("api", None, None, None, "page"))
                 /\ UNCHANGED page

-----------------------------------------------------------------------------
(* The server.                                                             *)

Receives(r, op) == wire[r].pc = "sent" /\ wire[r].op = op

Answer(r, status, set) ==
  /\ wire' = [wire EXCEPT ![r] = Answered(@, status, set)]
  /\ stamped' = IF set \in {Keep, None} THEN stamped ELSE now
  /\ UNCHANGED <<jar, page, now, out>>

Protected == {"page", "get_tz", "tz", "select", "api"}

\* require_login: no cookie of that name, whatever else the request carries.
RequireLogin(r) == /\ \E op \in Protected : Receives(r, op)
                   /\ wire[r].cookie = None
                   /\ Answer(r, "to_login", Keep)

\* mutant: what login_form's comment expects of the home page.
BounceToLogin(r) ==
  /\ \/ /\ \E op \in {"page", "tz", "select"} : Receives(r, op)
        /\ wire[r].cookie # None /\ ~Decodes(wire[r].cookie)
     \/ Receives(r, "get_tz") /\ wire[r].cookie # None
  /\ Answer(r, "to_login", Keep)

\* The extractor's 401 in plain text; or 405, because /tz has no GET.
Refuse(r) ==
  /\ \/ /\ \E op \in {"page", "tz", "select"} : Receives(r, op)
        /\ wire[r].cookie # None /\ ~Decodes(wire[r].cookie)
     \/ Receives(r, "get_tz") /\ wire[r].cookie # None
  /\ Answer(r, "refused", Keep)

cdr_list(r) == /\ Receives(r, "page") /\ Decodes(wire[r].cookie)
               /\ Answer(r, "ok", Keep)

set_tz(r) == /\ Receives(r, "tz") /\ Decodes(wire[r].cookie)
             /\ Answer(r, "to_next", with_tz(wire[r].cookie, wire[r].arg))

select_cdrs(r) == /\ Receives(r, "select") /\ Decodes(wire[r].cookie)
                  /\ Answer(r, "no_content", with_selection(wire[r].cookie, wire[r].arg))

\* Any cookie, even one that does not decode, hides the form.
login_form(r) == /\ Receives(r, "form")
                 /\ Answer(r, IF wire[r].cookie # None THEN "to_next" ELSE "login_form", Keep)

login_submit(r) == /\ Receives(r, "login")
                   /\ IF wire[r].arg = None
                      THEN Answer(r, "login_form", Keep)
                      ELSE Answer(r, "to_next", new(wire[r].arg))

logout(r) == /\ Receives(r, "logout")
             /\ Answer(r, "to_login", None)

Serve(r) == \/ RequireLogin(r) \/ Refuse(r) \/ cdr_list(r) \/ set_tz(r) \/ select_cdrs(r)
            \/ login_form(r) \/ login_submit(r) \/ logout(r)

-----------------------------------------------------------------------------
(* The browser takes an answer.                                            *)

JarAfter(r) == IF wire[r].set = Keep THEN jar ELSE wire[r].set

\* Where a bounced request is to lead after login: a POST /tz becomes a GET.
BackTo(op) == IF op \in {"tz", "get_tz"} THEN "get_tz" ELSE "page"

Arrive(r) ==
  /\ wire[r].pc = "answered"
  /\ jar' = JarAfter(r)
  /\ out' = IF wire[r].set = Keep \/ wire[r].op \notin {"login", "logout"} THEN out
            ELSE wire[r].op = "logout"
  /\ UNCHANGED <<now, stamped>>

Background(r) == wire[r].tab = None \/ wire[r].op = "select"

\* A fetch, or a command-line client: nothing is shown.
TakeQuietly(r) == /\ Arrive(r)
                  /\ Background(r)
                  /\ wire' = [wire EXCEPT ![r] = Idle]
                  /\ UNCHANGED page

\* A navigation that ends in a page replaces the one shown, and its timer.
TakePage(r) ==
  /\ Arrive(r)
  /\ ~Background(r)
  /\ wire[r].status \in {"ok", "login_form", "refused"}
  /\ wire' = [wire EXCEPT ![r] = Idle]
  /\ page' = [page EXCEPT ![wire[r].tab] =
                CASE wire[r].status = "ok" -> ListPage(wire[r].cookie.sel)
                  [] wire[r].status = "login_form" -> LoginForm(wire[r].next)
                  [] wire[r].status = "refused" -> Blank]

\* A redirect is followed at once, with the jar as it is now.
FollowRedirect(r) ==
  LET t == wire[r].tab
  IN /\ Arrive(r)
     /\ ~Background(r)
     /\ \/ /\ wire[r].status = "to_login"
           /\ wire' = [wire EXCEPT ![r] = Sent("form", t, jar', None, BackTo(wire[r].op))]
        \/ /\ wire[r].status = "to_next"
           /\ wire' = [wire EXCEPT ![r] = Sent(wire[r].next, t, jar', None, wire[r].next)]
     /\ UNCHANGED page

\* The request or its answer is lost, or the navigation away aborts it.
Lose(r) == /\ wire[r].pc # "idle"
           /\ wire' = [wire EXCEPT ![r] = Idle]
           /\ UNCHANGED <<jar, page, now, stamped, out>>

\* Max-Age is over on the browser's clock, which need not be the server's.
CookieDropped == /\ jar # None /\ ~Decodes(jar)
                 /\ jar' = None
                 /\ UNCHANGED <<page, wire, now, stamped, out>>

Tick == /\ now < MaxTime
        /\ now' = now + 1
        /\ UNCHANGED <<jar, page, wire, stamped, out>>

\* The server restarts with another APP_COOKIE_SECRET.
Spoilt(c) == IF c \in {None, Keep} THEN c ELSE Bad
NewSecret ==
  /\ jar' = Spoilt(jar)
  /\ wire' = [r \in Req |->
                CASE wire[r].pc = "idle" -> wire[r]
                  [] wire[r].pc = "sent" -> Sent(wire[r].op, wire[r].tab, Spoilt(wire[r].cookie),
                                                 wire[r].arg, wire[r].next)
                  [] OTHER -> Answered(wire[r], wire[r].status, Spoilt(wire[r].set))]
  /\ UNCHANGED <<page, now, stamped, out>>

Operator == \/ \E r \in Req, t \in Tab : \/ OpenPage(r, t)
                                         \/ OpenLogin(r, t)
                                         \/ SubmitLogout(r, t)
                                         \/ Persist(r, t)
            \/ \E r \in Req, t \in Tab, u \in User \cup {None} : SubmitLogin(r, t, u)
            \/ \E r \in Req, t \in Tab, z \in Zone \cup {None} : SubmitTz(r, t, z)
            \/ \E t \in Tab, c \in Cdr : Toggle(t, c)
            \/ \E r \in Req, ids \in ScriptIds : ScriptSelect(r, ids)
            \/ \E r \in Req : BearerCall(r)

Take(r) == TakeQuietly(r) \/ TakePage(r) \/ FollowRedirect(r)

Next == \/ Operator
        \/ \E r \in Req : Serve(r) \/ Take(r) \/ Lose(r)
        \/ CookieDropped
        \/ Tick
        \/ NewSecret

Spec == Init /\ [][Next]_vars

\* A request that reached the server is answered, an answer that is not lost
\* arrives.  Nothing is assumed of the operator or the clock.
FairSpec == Spec /\ \A r \in Req : WF_vars(Serve(r)) /\ WF_vars(Take(r))

-----------------------------------------------------------------------------
(* Properties.                                                             *)

\* The sliding lifetime: a request is let in by its cookie only if some
\* cookie was issued less than Ttl ago.  Requests held up in the network
\* and answers that arrive late never keep an idle session alive or bring
\* it back.
IdleSessionsDie ==
  [][\A r \in Req : cdr_list(r) \/ set_tz(r) \/ select_cdrs(r) => now < stamped + Ttl]_vars

\* A change is lost, or undone, only if the jar changed while the request
\* was under way: the answer to a request whose cookie is still the jar's
\* leaves the user and whatever it was not about as they were.
LostOnlyByOverlap ==
  [][\A r \in Req : Take(r) /\ wire[r].cookie = jar /\ Decodes(jar) /\ jar' \notin {None, Bad} =>
       /\ wire[r].op # "login" => jar'.user = jar.user
       /\ wire[r].op = "select" => jar'.tz = jar.tz
       /\ wire[r].op = "tz" => jar'.sel = jar.sel]_vars

\* One request at a time, the cookie behaves like a register on the server,
\* which a change sent before the browser dropped the cookie still finds.
Content(c) == [user |-> c.user, tz |-> c.tz, sel |-> c.sel]

Changing == {r \in Req : wire[r].op \in {"tz", "select"} /\ wire[r].cookie \notin {None, Bad}}

Register == INSTANCE SessionRegister WITH
  session <- IF jar \notin {None, Bad} THEN Content(jar)
             ELSE IF Changing # {} THEN Content(wire[CHOOSE r \in Changing : TRUE].cookie)
             ELSE None

ImplementsRegister == Register!Spec

\* Redirects end: whatever the cookie, no navigation is sent back and forth
\* between a page and the login form for ever.
NavigationEnds == \A r \in Req : wire[r].pc # "idle" ~> wire[r].pc = "idle"

-----------------------------------------------------------------------------
(* What the code and its docs say and do not keep.                         *)

\* docs/API.md, POST /logout: "Invalidates the current session".  After it
\* only a login brings a session back.
LogoutIsFinal == out => jar \in {None, Bad}
=============================================================================
