----------------------------- MODULE CdrFilters -----------------------------
(***************************************************************************)
(* From the query string of the CDR list to the rows of table cdr, and     *)
(* back to the query strings of the page's links: parse and build_filters  *)
(* (src/routes/cdr.rs), CdrFilters and NormalizedFilters (src/cdr/mod.rs), *)
(* FiltersView, and the columns that hold addresses (src/db.rs).           *)
(*                                                                         *)
(* A value of the query string is the sequence of its comma-separated      *)
(* parts, percent-decoded.  A part is an integer: a natural number for the *)
(* digits of that number, a negative one for any other text; Blank is the  *)
(* empty text and Decimal(m) the text of m tenths.  Times are seconds.     *)
(***************************************************************************)
EXTENDS CdrLists

CONSTANTS Order,      \* the ids of all CDRs, by calldate and id, newest first
          Call,       \* Call[c]: the columns of CDR c, and the instant it began
          Like(_, _), \* does the text of a column contain a value?
          Minute, Day,
          Lookback,         \* distinct_values looks back 7 days,
          DistinctLimit,    \* and takes 100 values of a column
          DefaultPageSize, MaxPageSize,   \* 50, 500
          U32,              \* 2^32
          DefaultZone,      \* APP_TZ_OFFSET_SECS
          DbZone,           \* DB_TZ_OFFSET_SECS
          ColumnType,       \* the type of the address columns
          Trimmed,    \* Trimmed[p]: text p, which has blanks, without those around it,
          Plussed,    \* Plussed[p]: and with a + for each blank
          None

Cdr == ToSet(Order)

ASSUME OrderAssumption == /\ Order \in Seq(Nat) /\ IsInjective(Order)
                          /\ \A j, k \in DOMAIN Order :
                               j < k => Call[Order[j]].at >= Call[Order[k]].at
                          /\ \A c \in Cdr : Call[c].at \in Int

ASSUME SizeAssumption == /\ {Minute, Day, Lookback, DistinctLimit} \subseteq Nat \ {0}
                         /\ {DefaultPageSize, MaxPageSize, U32} \subseteq Nat \ {0}
                         /\ DefaultPageSize <= MaxPageSize /\ MaxPageSize < U32
                         /\ DefaultZone \in Int /\ DbZone \in Int

\* Fewer calls than an offset into their list can count.
ASSUME TableAssumption == Len(Order) < U32

ASSUME NoneAssumption == None \notin Int

Blank == -1
Decimal(m) == -100 - m

\* The texts that have blanks.
Spaced == DOMAIN Plussed

ASSUME SpacedAssumption ==
  /\ DOMAIN Trimmed = Spaced
  /\ \A p \in Spaced :
       /\ p \in Int /\ p < Blank /\ p > Decimal(0)
       /\ Plussed[p] \in Int \ Spaced /\ Plussed[p] < Blank
       /\ Trimmed[p] \in Int
       /\ Trimmed[p] \in Spaced => Trimmed[Trimmed[p]] = Trimmed[p]

Texts == {"caller", "called"}
Addresses == {"src_ip", "dst_ip"}
Ports == {"src_port", "dst_port"}
Lists == Addresses \cup Ports \cup {"sip_code", "id_sensor"}
Distinct == Addresses \cup {"sip_code", "id_sensor"}
Bounds == {"mos_min", "mos_max", "duration_min", "duration_max"}
Keys == {"from", "to", "caller_in", "called_in", "page", "page_size", "tz_offset_secs",
         "tz_offset_hours"}
          \cup Texts \cup Lists \cup Bounds

-----------------------------------------------------------------------------
(* The query string: for every key the values that were sent with it.  It  *)
(* is percent-decoded, but a + stays a +.                                  *)

NoParams == [k \in Keys |-> <<>>]

First(url, k) == IF url[k] = <<>> THEN <<>> ELSE url[k][1]

trim(p) == IF p \in Spaced THEN Trimmed[p] ELSE p

\* The parts of a list, each once, without the empty ones.
Parts(s) == LET parts == [j \in DOMAIN s |-> trim(s[j])]
            IN Listed(ToSet(parts) \ {Blank}, parts)

merge_str_list(values) == Parts(FlattenSeq(values))

\* The numbers of a list that its type holds; the rest is dropped silently.
Numbers(s, bound) == Listed({p \in ToSet(s) : p >= 0 /\ p < bound}, s)

\* A number that is the whole value, or nothing.
parse_opt(value, bound) ==
  LET number == IF Len(value) = 1 THEN trim(value[1]) ELSE Blank
  IN IF number >= 0 /\ number < bound THEN number ELSE None

\* Only whole minutes parse.
parse_dt(value) ==
  IF Len(value) = 1 /\ value[1] >= 0 /\ value[1] % Minute = 0 THEN value[1] ELSE None

Text(value) == IF value = <<Blank>> THEN <<>> ELSE value

build_filters(url) ==
  [from |-> parse_dt(First(url, "from")),
   to |-> parse_dt(First(url, "to")),
   text |-> [k \in Texts |-> Text(First(url, k))],
   exact |-> [caller |-> merge_str_list(url["caller_in"]),
              called |-> Numbers(merge_str_list(url["called_in"]), U32)],
   list |-> [k \in Lists |-> LET s == merge_str_list(url[k])
                             IN IF k \in Ports THEN Numbers(s, 65536) ELSE s],
   bound |-> [k \in Bounds |-> parse_opt(First(url, k), IF k \in {"mos_min", "mos_max"}
                                                         THEN 256 ELSE U32)],
   page |-> parse_opt(First(url, "page"), U32),
   page_size |-> parse_opt(First(url, "page_size"), U32)]

-----------------------------------------------------------------------------
(* Time zones.                                                             *)

\* mutant: an override of 0 resets to the default, whatever the session says.
resolve_tz_reset(session, override) ==
  IF override = 0 THEN DefaultZone
  ELSE IF override # None THEN override
  ELSE IF session # None THEN session ELSE DefaultZone

\* An override of 0 is none; an offset of a day or more is UTC.
resolve_tz(session, override) ==
  LET secs == IF override \notin {None, 0} THEN override
              ELSE IF session # None THEN session ELSE DefaultZone
  IN IF secs > -Day /\ secs < Day THEN secs ELSE 0

\* Here a part is the offset itself.  The alias counts, as seconds, only where
\* the other key is absent; a value that does not parse is none.
QueryZone(url) ==
  LET key == IF url["tz_offset_secs"] # <<>> THEN "tz_offset_secs" ELSE "tz_offset_hours"
      value == First(url, key)
  IN IF Len(value) = 1 THEN value[1] ELSE None

\* What the clock of a zone shows at an instant, and the date there.
Local(t, tz) == t + tz
Date(t, tz) == Local(t, tz) \div Day

\* calldate, and how the list shows it (CdrSummary::from_row).
Stored(c) == Call[c].at + DbZone
Shown(c, tz) == Stored(c) - DbZone + tz

today_window(t, tz) == [from |-> Date(t, tz) * Day, to |-> Date(t, tz) * Day + Day - 1]

-----------------------------------------------------------------------------
(* CdrFilters::normalized.                                                 *)

\* Only a value with a comma is a list of values to match exactly.
Split(value) == IF Len(value) < 2 THEN <<>> ELSE Parts(value)

normalized(f, t, tz) ==
  LET window == IF f.from = None /\ f.to = None THEN today_window(t, tz)
                ELSE [from |-> f.from, to |-> f.to]
      size == IF f.page_size = None THEN DefaultPageSize ELSE f.page_size
  IN [from |-> window.from, to |-> window.to, text |-> f.text,
      in |-> [caller |-> Split(f.text["caller"]) \o f.exact.caller,
              called |-> Numbers(Split(f.text["called"]), U32) \o f.exact.called],
      list |-> [k \in Lists |->
                  CASE k \in Ports -> Listed(ToSet(f.list[k]) \ {0}, f.list[k])
                    [] k \in Addresses -> f.list[k]
                    [] OTHER -> Numbers(f.list[k], 65536)],
      bound |-> [k \in Bounds |-> IF k \in {"mos_min", "mos_max"} /\ f.bound[k] # None
                                  THEN 10 * f.bound[k] ELSE f.bound[k]],
      page |-> IF f.page \in {None, 0} THEN 1 ELSE f.page,
      page_size |-> IF size < 1 THEN 1 ELSE IF size > MaxPageSize THEN MaxPageSize ELSE size]

\* What is looked for, whichever page of it is shown.
Search(n) == [from |-> n.from, to |-> n.to, text |-> n.text, in |-> n.in, list |-> n.list,
              bound |-> n.bound, page_size |-> n.page_size]

-----------------------------------------------------------------------------
(* NormalizedFilters::to_where, as the set of CDRs it selects.             *)

\* mutant: the zones the wrong way round.
BackShift(tz) == tz - DbZone

Shift(tz) == DbZone - tz

InWindow(c, n, tz) == /\ n.from # None => Stored(c) >= n.from + Shift(tz)
                      /\ n.to # None => Stored(c) <= n.to + Shift(tz)

\* An exact list wins over the text.
HasText(c, n, k) == IF n.in[k] # <<>> THEN Call[c][k] \in ToSet(n.in[k])
                    ELSE n.text[k] # <<>> => Call[c][k] # None /\ Like(Call[c][k], n.text[k])

\* INET_ATON or INET6_ATON makes a value of the type that was found at
\* start-up, which is equal to no address of a column of the other type.
Listing(c, n, k, ip_shape) ==
  n.list[k] # <<>> => /\ Call[c][k] \in ToSet(n.list[k])
                      /\ k \in Addresses => ip_shape = ColumnType

Within(c, n, column, low, high) ==
  /\ n.bound[low] # None => Call[c][column] # None /\ Call[c][column] >= n.bound[low]
  /\ n.bound[high] # None => Call[c][column] # None /\ Call[c][column] <= n.bound[high]

Selected(n, tz, ip_shape) ==
  {c \in Cdr : /\ InWindow(c, n, tz)
               /\ \A k \in Texts : HasText(c, n, k)
               /\ \A k \in Lists : Listing(c, n, k, ip_shape)
               /\ Within(c, n, "mos", "mos_min", "mos_max")
               /\ Within(c, n, "duration", "duration_min", "duration_max")}

-----------------------------------------------------------------------------
(* FiltersView: what the form and the links of the page say.               *)

Minutes(t) == IF t = None THEN <<>> ELSE <<<<t - (t % Minute)>>>>

Given(value) == IF value = <<>> THEN <<>> ELSE <<value>>

Number(v) == IF v = None THEN <<>> ELSE <<<<v>>>>

\* mutant: a link without the ports.
export_query_portless(f) ==
  [k \in Keys |->
     CASE k = "from" -> Minutes(f.from)
       [] k = "to" -> Minutes(f.to)
       [] k \in Texts -> Given(f.text[k])
       [] k \in Lists \ Ports -> Given(f.list[k])
       [] k \in {"duration_min", "duration_max"} -> Number(f.bound[k])
       [] OTHER -> <<>>]

\* The MOS was divided by ten on its way to the text.
export_query(f) ==
  [k \in Keys |->
     CASE k = "from" -> Minutes(f.from)
       [] k = "to" -> Minutes(f.to)
       [] k \in Texts -> Given(f.text[k])
       [] k \in Lists -> Given(f.list[k])
       [] k \in {"duration_min", "duration_max"} -> Number(f.bound[k])
       [] k \in {"mos_min", "mos_max"} ->
            IF f.bound[k] = None THEN <<>> ELSE <<<<Decimal(f.bound[k])>>>>
       [] OTHER -> <<>>]

\* A form sends a + for each blank of a text; the links write it as %20.
form_encoded(values) ==
  [j \in DOMAIN values |-> [i \in DOMAIN values[j] |->
     IF values[j][i] \in Spaced THEN Plussed[values[j][i]] ELSE values[j][i]]]

\* "Today" and "Yesterday", or nothing of the kind.
label_for_window(n, t, tz) ==
  IF n.from = None \/ n.to = None \/ n.from \div Day # n.to \div Day THEN "dates"
  ELSE IF n.from \div Day = Date(t, tz) THEN "Today"
  ELSE IF n.from \div Day = Date(t, tz) - 1 THEN "Yesterday"
  ELSE "dates"
=============================================================================
