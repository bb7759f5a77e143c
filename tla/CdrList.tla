------------------------------ MODULE CdrList -------------------------------
(***************************************************************************)
(* GET / : cdr_list (src/routes/cdr.rs), list and distinct_values          *)
(* (src/cdr/mod.rs), one operator who pages through the list, and the      *)
(* table cdr, to which VoIPmonitor adds a call when it ends and from which *)
(* it removes the oldest.                                                  *)
(*                                                                         *)
(* A request fixes its filters, its zone and today's date when it arrives; *)
(* its queries run later, each on the table of its own moment.             *)
(***************************************************************************)
EXTENDS CdrFilters

CONSTANTS Urls,       \* query strings that are typed, bookmarked or sent by a script
          Zones,      \* offsets an operator picks in the top bar
          LastTime

ASSUME UrlsAssumption == Urls \subseteq [Keys -> Seq(Seq(Int))]
ASSUME ZonesAssumption == Zones \subseteq Int

VARIABLES now,        \* the clock, UTC
          calls,      \* calls[c]: not yet in table cdr, in it, or cleaned up
          ip_shape,   \* AppState.ip_shape
          session_tz, \* the zone of the session, or None
          req,        \* the request that is being handled, or None
          page,       \* what list has returned, or None
          chips,      \* what distinct_values has returned for a column, or None
          view,       \* the page in the browser, or None
          walk        \* the pages reached by following Next

browser == <<session_tz, req, page, chips, view, walk>>
vars == <<now, calls, ip_shape, browser>>

Table == {c \in Cdr : calls[c] = "in"}

NoChips == [k \in Distinct |-> None]

\* The browser starts somewhere: no page has been followed yet.
NoWalk == [search |-> None, tz |-> None, start |-> {}, seen |-> {}, whole |-> FALSE]

Init == /\ now = 0
        /\ calls = [c \in Cdr |-> "talking"]
        /\ ip_shape \in {ColumnType, "int"}
        /\ session_tz = None
        /\ req = None /\ page = None /\ chips = NoChips
        /\ view = None
        /\ walk = NoWalk

-----------------------------------------------------------------------------
(* Around the request.                                                     *)

Tick == /\ now < LastTime
        /\ now' = now + 1
        /\ UNCHANGED <<calls, ip_shape, browser>>

\* A call is written when it ends, with the time at which it began.
CallEnds(c) == /\ calls[c] = "talking" /\ Call[c].at <= now
               /\ calls' = [calls EXCEPT ![c] = "in"]
               /\ UNCHANGED <<now, ip_shape, browser>>

Clean(c) == /\ c \in Table
            /\ \A d \in Table : Place(Order, d) <= Place(Order, c)
            /\ calls' = [calls EXCEPT ![c] = "cleaned"]
            /\ UNCHANGED <<now, ip_shape, browser>>

\* POST /tz, from this tab or another.
set_tz(tz) == /\ session_tz # tz
              /\ session_tz' = tz
              /\ UNCHANGED <<now, calls, ip_shape, req, page, chips, view, walk>>

-----------------------------------------------------------------------------
(* A request arrives.                                                      *)

\* how: the browser leaves its page through the Next link, the form, or
\* otherwise.
Asks(url, how) ==
  /\ req = None
  /\ LET f == build_filters(url)
         tz == resolve_tz(session_tz, QueryZone(url))
     IN req' = [url |-> url, f |-> f, tz |-> tz, n |-> normalized(f, now, tz),
                session |-> session_tz, at |-> now]
  /\ view' = None
  /\ walk' = IF how = "next" THEN walk ELSE NoWalk
  /\ UNCHANGED <<now, calls, ip_shape, session_tz, page, chips>>

Page(url, p) == [url EXCEPT !["page"] = <<<<p>>>>]

next_url(v) == Page(export_query(v.f), v.n.page + 1)
prev_url(v) == Page(export_query(v.f), v.n.page - 1)

\* The selected values that are among the ones offered are ticked, besides
\* being in the text; the hidden field carries the zone of the page.
inputs(v) ==
  [export_query(v.f) EXCEPT
     !["src_ip"] = @ \o v.chips["src_ip"], !["dst_ip"] = @ \o v.chips["dst_ip"],
     !["sip_code"] = @ \o v.chips["sip_code"], !["id_sensor"] = @ \o v.chips["id_sensor"]]

form_url(v) == [[k \in Keys |-> form_encoded(inputs(v)[k])]
                  EXCEPT !["tz_offset_secs"] = <<<<v.tz>>>>]

GoTo(url) == Asks(url, "goto")

FollowNext == view # None /\ view.has_more /\ Asks(next_url(view), "next")

FollowPrevious == view # None /\ view.n.page > 1 /\ Asks(prev_url(view), "previous")

Apply == view # None /\ Asks(form_url(view), "apply")

-----------------------------------------------------------------------------
(* Its queries; tokio::join! waits for both.                               *)

\* mutant: pages are counted from 0.
offset_from_zero(n) == (n.page * n.page_size) % U32

\* u32: a release build wraps.
offset(n) == ((n.page - 1) * n.page_size) % U32

Ranked(S) == Listed(S, Order)

Slice(s, from, limit) ==
  SubSeq(s, from + 1, IF from + limit < Len(s) THEN from + limit ELSE Len(s))

\* The walk goes on as long as Next leads to the same search.
Followed(n, rows) ==
  IF walk.search = Search(n) /\ walk.tz = req.tz
  THEN [walk EXCEPT !.seen = @ \cup ToSet(rows)]
  ELSE [search |-> Search(n), tz |-> req.tz, start |-> Table, seen |-> ToSet(rows),
        whole |-> n.page = 1]

\* list: one row more than a page tells whether there is a next one.
List == /\ req # None /\ page = None
        /\ LET n == req.n
               found == Slice(Ranked(Selected(n, req.tz, ip_shape) \cap Table),
                              offset(n), n.page_size + 1)
               more == Len(found) > n.page_size
               rows == IF more THEN SubSeq(found, 1, n.page_size) ELSE found
           IN /\ page' = [rows |-> rows, has_more |-> more]
              /\ walk' = Followed(n, rows)
        /\ UNCHANGED <<now, calls, ip_shape, session_tz, req, chips, view>>

DistinctOrder == <<"sip_code", "id_sensor", "src_ip", "dst_ip">>

\* One of the four queries of distinct_values: the values of a column in the
\* calls of the last days, addresses from the largest, the others from the
\* smallest; and DistinctView::from, which ticks the ones that are selected.
Offered(k, t, tz) ==
  LET since == today_window(t, tz).from + Shift(tz) - Lookback
      values == {Call[c][k] : c \in {d \in Table : Stored(d) >= since}} \ {None}
      rank(v) == Cardinality({w \in values : IF k \in Addresses THEN w >= v ELSE w <= v})
  IN {v \in values : rank(v) <= DistinctLimit}

Ticked(k, values) ==
  LET chosen == {v \in values : v \in ToSet(req.n.list[k])}
  IN [j \in 1..Cardinality(chosen) |->
        <<CHOOSE v \in chosen : Cardinality({w \in chosen : w <= v}) = j>>]

DistinctValues ==
  /\ req # None
  /\ \E j \in DOMAIN DistinctOrder :
       LET k == DistinctOrder[j]
       IN /\ chips[k] = None /\ \A i \in 1..(j - 1) : chips[DistinctOrder[i]] # None
          /\ chips' = [chips EXCEPT ![k] = Ticked(k, Offered(k, now, req.tz))]
  /\ UNCHANGED <<now, calls, ip_shape, session_tz, req, page, view, walk>>

Done == page # None /\ \A k \in Distinct : chips[k] # None

Answer == /\ req' = None /\ page' = None /\ chips' = NoChips
          /\ UNCHANGED <<now, calls, ip_shape, session_tz, walk>>

\* The page, with its links.
Render == /\ req # None /\ Done
          /\ view' = [url |-> req.url, f |-> req.f, n |-> req.n, tz |-> req.tz,
                      session |-> req.session, asked |-> req.at, rows |-> page.rows,
                      has_more |-> page.has_more, chips |-> chips, at |-> now,
                      label |-> label_for_window(req.n, now, req.tz)]
          /\ Answer

\* One of the two is an error or takes longer than the limit: the answer is
\* a page without any links.
Fail == /\ req # None /\ ~Done
        /\ Answer
        /\ UNCHANGED view

-----------------------------------------------------------------------------

Browse == (\E url \in Urls : GoTo(url)) \/ FollowNext \/ FollowPrevious \/ Apply

Handle == List \/ DistinctValues \/ Render \/ Fail

Next == \/ Tick
        \/ \E c \in Cdr : CallEnds(c) \/ Clean(c)
        \/ \E tz \in Zones \cup {None} : set_tz(tz)
        \/ Browse
        \/ Handle

Spec == Init /\ [][Next]_vars

-----------------------------------------------------------------------------

\* Every row of a page lies in the window that was asked for, on the clock of
\* the operator, whatever the zones of the operator and of the database; and
\* a page headed Today or Yesterday shows calls of that date only, the date
\* of the moment at which it was rendered.
RightDay ==
  view # None =>
    \A c \in ToSet(view.rows) :
      /\ view.n.from # None => Local(Call[c].at, view.tz) >= view.n.from
      /\ view.n.to # None => Local(Call[c].at, view.tz) <= view.n.to
      /\ view.label = "Today" => Date(Call[c].at, view.tz) = Date(view.at, view.tz)
      /\ view.label = "Yesterday" => Date(Call[c].at, view.tz) = Date(view.at, view.tz) - 1

\* Whoever follows Next from the first page sees every call that was in the
\* table when the walk began, is still in it and belongs to the search, down
\* to the last row of the present page, and all of them when there is no
\* Next any more; although calls are added and removed meanwhile.
NoneMissed ==
  view # None /\ req = None /\ walk.whole =>
    \A c \in walk.start \cap Table \cap Selected(view.n, view.tz, ip_shape) :
      \/ c \in walk.seen
      \/ view.has_more /\ \A d \in ToSet(view.rows) : Place(Order, d) < Place(Order, c)

\* What a query string is read as in the session of the page and at the moment
\* at which the page was asked for.
Reread(url) == LET f == build_filters(url)
                   tz == resolve_tz(view.session, QueryZone(url))
               IN [f |-> f, tz |-> tz, n |-> normalized(f, view.asked, tz)]

\* The filters that the page writes out again, and a search without the others.
Written(f) == [from |-> f.from, to |-> f.to, text |-> f.text, list |-> f.list,
               duration |-> <<f.bound["duration_min"], f.bound["duration_max"]>>]

AllWritten == /\ view.f.bound["mos_min"] = None /\ view.f.bound["mos_max"] = None
              /\ view.f.exact = [caller |-> <<>>, called |-> <<>>]
              /\ view.n.page_size = DefaultPageSize

KeepsFilters(url) == Written(Reread(url).f) = Written(view.f)

KeepsSearch(url) == /\ Reread(url).tz = view.tz
                    /\ Search(Reread(url).n) = Search(view.n) <=> AllWritten

Unspaced(s) == \A j \in DOMAIN s : s[j] \notin Spaced

\* The page was not asked for with an offset of a day or more.
ZoneOfADay == QueryZone(view.url) \in {None} \cup (-(Day - 1)..(Day - 1))

\* The links of a page, followed in the same session, say its window, texts,
\* lists and durations.  If the page has no zone of its own, they stand for
\* its search, exactly when that has no MOS, no exact lists and the default
\* size of page.  The form does so whatever the zone, unless a text has a
\* blank, for which it sends a +.
LinksKeepSearch ==
  view # None =>
    /\ \A url \in {next_url(view), prev_url(view)} :
         /\ KeepsFilters(url)
         /\ QueryZone(view.url) \in {None, 0} => KeepsSearch(url)
    /\ (\A k \in Texts : Unspaced(view.f.text[k])) /\ (\A k \in Lists : Unspaced(view.f.list[k]))
         => /\ KeepsFilters(form_url(view))
            /\ ZoneOfADay => KeepsSearch(form_url(view))

\* Applying the form of a page, in the same session, keeps the zone of the
\* page, however it came by it; unless it was asked for with an offset of a
\* day or more, for UTC has no offset that the form could ask for.
FormKeepsZone ==
  view # None /\ session_tz = view.session /\ ZoneOfADay
    => resolve_tz(session_tz, view.tz) = view.tz
=============================================================================
