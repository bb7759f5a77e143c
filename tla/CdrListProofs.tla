---------------------------- MODULE CdrListProofs ---------------------------
(***************************************************************************)
(* The CDR list: the rows of a page are of the right day, nothing is       *)
(* missed on the way through the pages, and the links and the form of a    *)
(* page ask for what the page was asked for.                               *)
(***************************************************************************)
EXTENDS CdrList, CdrListsProofs

Query == [Keys -> Seq(Seq(Int))]
Maybe == Int \cup {None}

-----------------------------------------------------------------------------
(* Types of what the filters are read into.                                *)

LEMMA FirstType ==
  ASSUME NEW url \in Query, NEW k \in Keys
  PROVE  First(url, k) \in Seq(Int)
<1>1. url[k] \in Seq(Seq(Int))
  BY DEF Query
<1>2. CASE url[k] = <<>>
  BY <1>2 DEF First
<1>3. CASE url[k] # <<>>
  BY <1>1, <1>3 DEF First
<1>. QED  BY <1>2, <1>3

LEMMA SeqWider ==
  ASSUME NEW X, NEW Y, X \subseteq Y, NEW s \in Seq(X)
  PROVE  s \in Seq(Y)
OBVIOUS

LEMMA SpacedFacts ==
  ASSUME NEW p \in Spaced
  PROVE  /\ p \in Int /\ p < -1 /\ p > -100
         /\ Plussed[p] \in Int /\ Plussed[p] < -1 /\ Trimmed[p] \in Int
         /\ Trimmed[p] \in Spaced => Trimmed[Trimmed[p]] = Trimmed[p]
<1>1. /\ p \in Int /\ p < Blank /\ p > Decimal(0)
      /\ Plussed[p] \in Int \ Spaced /\ Plussed[p] < Blank
  BY Zenon, SpacedAssumption
<1>2. /\ Trimmed[p] \in Int
      /\ Trimmed[p] \in Spaced => Trimmed[Trimmed[p]] = Trimmed[p]
  BY Zenon, SpacedAssumption
<1>3. Blank = -1 /\ Decimal(0) = -100
  BY DEF Blank, Decimal
<1>. QED  BY <1>1, <1>2, <1>3

LEMMA TrimType == \A p \in Int : trim(p) \in Int /\ trim(trim(p)) = trim(p)
<1>1. SUFFICES ASSUME NEW p \in Int  PROVE trim(p) \in Int /\ trim(trim(p)) = trim(p)
  OBVIOUS
<1>2. CASE p \in Spaced
  BY <1>2, SpacedFacts DEF trim
<1>3. CASE p \notin Spaced
  BY <1>3 DEF trim
<1>. QED  BY <1>2, <1>3

LEMMA PartsType ==
  ASSUME NEW s \in Seq(Int)
  PROVE  Parts(s) \in Seq(Int)
<1>1. PICK r : r = [j \in DOMAIN s |-> trim(s[j])]
  OBVIOUS
<1>2. r \in Seq(Int)
  BY <1>1, TrimType
<1>3. Parts(s) \in Seq(ToSet(r) \ {Blank})
  BY <1>1, <1>2, ListedProperties DEF Parts
<1>4. ToSet(r) \subseteq Int
  BY <1>2, FiniteRange
<1>. QED  BY <1>3, <1>4, SeqWider

LEMMA NumbersType ==
  ASSUME NEW s \in Seq(Int), NEW b
  PROVE  Numbers(s, b) \in Seq(Int)
<1>. DEFINE S == {p \in ToSet(s) : p >= 0 /\ p < b}
<1>1. Numbers(s, b) \in Seq(S)
  BY ListedProperties DEF Numbers
<1>2. ToSet(s) \subseteq Int
  BY FiniteRange
<1>. QED  BY <1>1, <1>2, SeqWider

LEMMA MergeType ==
  ASSUME NEW values \in Seq(Seq(Int))
  PROVE  merge_str_list(values) \in Seq(Int)
BY FlattenProperties, PartsType DEF merge_str_list

Filters == [from : Maybe, to : Maybe, text : [Texts -> Seq(Int)],
            exact : [caller : Seq(Int), called : Seq(Int)], list : [Lists -> Seq(Int)],
            bound : [Bounds -> Maybe], page : Nat \cup {None}, page_size : Nat \cup {None}]

LEMMA ParseTypes ==
  ASSUME NEW v \in Seq(Int), NEW b
  PROVE  /\ parse_opt(v, b) \in Maybe /\ parse_dt(v) \in Maybe
         /\ parse_opt(v, b) # None => parse_opt(v, b) \in Nat
         /\ Text(v) \in Seq(Int)
<1>1. Len(v) = 1 => v[1] \in Int
  OBVIOUS
<1>2. <<>> \in Seq(Int)
  OBVIOUS
<1>3. parse_opt(v, b) \in Maybe /\ (parse_opt(v, b) # None => parse_opt(v, b) \in Nat)
  <2>1. PICK x : x = IF Len(v) = 1 THEN trim(v[1]) ELSE Blank
    OBVIOUS
  <2>2. x \in Int
    BY <1>1, <2>1, TrimType DEF Blank
  <2>3. parse_opt(v, b) = IF x >= 0 /\ x < b THEN x ELSE None
    BY <2>1 DEF parse_opt
  <2>. QED  BY <2>2, <2>3 DEF Maybe
<1>. QED  BY <1>1, <1>2, <1>3 DEF parse_dt, Text, Maybe

LEMMA FilterTypes ==
  ASSUME NEW url \in Query
  PROVE  build_filters(url) \in Filters
<1>1. \A k \in Keys : First(url, k) \in Seq(Int) /\ url[k] \in Seq(Seq(Int))
  BY FirstType DEF Query
<1>2. \A k \in Keys : merge_str_list(url[k]) \in Seq(Int)
  BY <1>1, MergeType
<1>3. /\ Texts \subseteq Keys /\ Lists \subseteq Keys /\ Bounds \subseteq Keys
      /\ {"from", "to", "caller_in", "called_in", "page", "page_size"} \subseteq Keys
  BY DEF Keys
<1>4. /\ parse_dt(First(url, "from")) \in Maybe /\ parse_dt(First(url, "to")) \in Maybe
      /\ parse_opt(First(url, "page"), U32) \in Nat \cup {None}
      /\ parse_opt(First(url, "page_size"), U32) \in Nat \cup {None}
  BY <1>1, <1>3, ParseTypes
<1>5. [k \in Texts |-> Text(First(url, k))] \in [Texts -> Seq(Int)]
  <2>1. \A k \in Texts : Text(First(url, k)) \in Seq(Int)
    BY <1>1, <1>3, ParseTypes
  <2>. QED  BY <2>1
<1>6. /\ merge_str_list(url["caller_in"]) \in Seq(Int)
      /\ Numbers(merge_str_list(url["called_in"]), U32) \in Seq(Int)
  BY <1>2, <1>3, NumbersType
<1>7. [k \in Lists |-> LET s == merge_str_list(url[k])
                       IN IF k \in Ports THEN Numbers(s, 65536) ELSE s] \in [Lists -> Seq(Int)]
  <2>1. \A k \in Lists : /\ merge_str_list(url[k]) \in Seq(Int)
                         /\ Numbers(merge_str_list(url[k]), 65536) \in Seq(Int)
    BY <1>2, <1>3, NumbersType
  <2>. QED  BY <2>1
<1>8. [k \in Bounds |-> parse_opt(First(url, k), IF k \in {"mos_min", "mos_max"}
                                                   THEN 256 ELSE U32)] \in [Bounds -> Maybe]
  <2>1. \A k \in Bounds : \A b : parse_opt(First(url, k), b) \in Maybe
    BY <1>1, <1>3, ParseTypes
  <2>. QED  BY <2>1
<1>. QED  BY <1>4, <1>5, <1>6, <1>7, <1>8 DEF build_filters, Filters

LEMMA ZoneTypes ==
  ASSUME NEW s \in Zones \cup {None}, NEW url \in Query
  PROVE  /\ QueryZone(url) \in Maybe /\ resolve_tz(s, QueryZone(url)) \in Int
         /\ s \in Maybe
<1>1. Day \in Int /\ DefaultZone \in Int /\ s \in Maybe
  BY SizeAssumption, ZonesAssumption DEF Maybe
<1>2. First(url, "tz_offset_secs") \in Seq(Int) /\ First(url, "tz_offset_hours") \in Seq(Int)
  BY FirstType DEF Keys
<1>3. QueryZone(url) \in Maybe
  <2>1. \A v \in Seq(Int) : Len(v) = 1 => v[1] \in Int
    OBVIOUS
  <2>. QED  BY <1>2, <2>1 DEF QueryZone, Maybe
<1>. QED  BY <1>1, <1>3, NoneAssumption DEF resolve_tz, Maybe

LEMMA NormalTypes ==
  ASSUME NEW f \in Filters, NEW t \in Int, NEW tz \in Int, NEW n, n = normalized(f, t, tz)
  PROVE  /\ n.from \in Maybe /\ n.to \in Maybe
         /\ n.page \in Int /\ n.page >= 1 /\ n.page_size \in 1..MaxPageSize
<1>1. /\ f.from \in Maybe /\ f.to \in Maybe
      /\ f.page \in Nat \cup {None} /\ f.page_size \in Nat \cup {None}
  BY DEF Filters
<1>2. /\ today_window(t, tz).from \in Int /\ today_window(t, tz).to \in Int
  <2>1. Day \in Nat \ {0}
    BY SizeAssumption
  <2>2. (t + tz) \div Day \in Int
    BY <2>1
  <2>3. PICK d \in Int : d = (t + tz) \div Day
    BY <2>2
  <2>4. d * Day \in Int
    BY <2>1
  <2>. QED  BY <2>1, <2>3, <2>4 DEF today_window, Date, Local
<1>3. n.from \in Maybe /\ n.to \in Maybe
  BY <1>1, <1>2 DEF normalized, Maybe
<1>4. n.page = IF f.page \in {None, 0} THEN 1 ELSE f.page
  BY DEF normalized
<1>5. n.page_size = LET size == IF f.page_size = None THEN DefaultPageSize ELSE f.page_size
                    IN IF size < 1 THEN 1 ELSE IF size > MaxPageSize THEN MaxPageSize ELSE size
  BY DEF normalized
<1>. QED  BY <1>1, <1>3, <1>4, <1>5, SizeAssumption

\* Asking with a link or the form.
LEMMA PageType ==
  ASSUME NEW url \in Query, NEW p \in Int
  PROVE  Page(url, p) \in Query
<1>1. <<<<p>>>> \in Seq(Seq(Int))
  OBVIOUS
<1>. QED  BY <1>1 DEF Page, Query

LEMMA ExportType ==
  ASSUME NEW f \in Filters
  PROVE  export_query(f) \in Query
<1>1. <<>> \in Seq(Seq(Int)) /\ \A v \in Int : <<<<v>>>> \in Seq(Seq(Int))
  OBVIOUS
<1>2. Minutes(f.from) \in Seq(Seq(Int)) /\ Minutes(f.to) \in Seq(Seq(Int))
  <2>1. \A v \in Maybe : Minutes(v) \in Seq(Seq(Int))
    <3>1. \A v \in Int : v - (v % Minute) \in Int
      BY SizeAssumption
    <3>. QED  BY <1>1, <3>1 DEF Minutes, Maybe
  <2>. QED  BY <2>1 DEF Filters
<1>3. \A s \in Seq(Int) : Given(s) \in Seq(Seq(Int))
  BY DEF Given
<1>4. \A v \in Maybe : Number(v) \in Seq(Seq(Int))
  BY <1>1 DEF Number, Maybe
<1>5. \A k \in Bounds : /\ Number(f.bound[k]) \in Seq(Seq(Int))
                        /\ (IF f.bound[k] = None THEN <<>> ELSE <<<<Decimal(f.bound[k])>>>>)
                             \in Seq(Seq(Int))
  <2>1. \A k \in Bounds : f.bound[k] \in Maybe
    BY DEF Filters
  <2>2. \A v \in Maybe : (IF v = None THEN <<>> ELSE <<<<Decimal(v)>>>>) \in Seq(Seq(Int))
    BY <1>1 DEF Decimal, Maybe
  <2>. QED  BY <1>4, <2>1, <2>2
<1>6. \A k \in Texts : Given(f.text[k]) \in Seq(Seq(Int))
  BY <1>3 DEF Filters
<1>7. \A k \in Lists : Given(f.list[k]) \in Seq(Seq(Int))
  BY <1>3 DEF Filters
<1>8. \A k \in Keys : export_query(f)[k] \in Seq(Seq(Int))
  <2>1. SUFFICES ASSUME NEW k \in Keys  PROVE export_query(f)[k] \in Seq(Seq(Int))
    OBVIOUS
  <2>2. CASE k \in {"from", "to"}
    <3>1. export_query(f)["from"] = Minutes(f.from) /\ export_query(f)["to"] = Minutes(f.to)
      BY DEF export_query, Keys, Texts, Lists, Addresses, Ports, Bounds
    <3>. QED  BY <1>2, <2>2, <3>1
  <2>3. CASE k \in Texts
    <3>1. export_query(f)[k] = Given(f.text[k])
      BY <2>3 DEF export_query, Texts, Lists, Addresses, Ports, Bounds
    <3>. QED  BY <1>6, <2>3, <3>1
  <2>4. CASE k \in Lists
    <3>1. export_query(f)[k] = Given(f.list[k])
      BY <2>4 DEF export_query, Texts, Lists, Addresses, Ports
    <3>. QED  BY <1>7, <2>4, <3>1
  <2>5. CASE k \in Bounds
    <3>1. \/ export_query(f)[k] = Number(f.bound[k])
          \/ export_query(f)[k] = IF f.bound[k] = None THEN <<>> ELSE <<<<Decimal(f.bound[k])>>>>
      BY <2>5 DEF export_query, Texts, Lists, Addresses, Ports, Bounds
    <3>. QED  BY <1>5, <2>5, <3>1
  <2>6. CASE k \notin {"from", "to"} \cup Texts \cup Lists \cup Bounds
    <3>1. export_query(f)[k] = <<>>
      BY <2>6 DEF export_query, Bounds
    <3>. QED  BY <1>1, <3>1
  <2>. QED  BY <2>2, <2>3, <2>4, <2>5, <2>6
<1>9. export_query(f) = [k \in Keys |-> export_query(f)[k]]
  BY DEF export_query
<1>. QED  BY <1>8, <1>9 DEF Query

-----------------------------------------------------------------------------
(* What is always so of the request and of the page.                       *)

\* q was read from its query string when the clock said t.
Sound(q, t) == /\ t \in Nat /\ q.url \in Query /\ q.session \in Zones \cup {None}
               /\ q.f = build_filters(q.url)
               /\ q.tz = resolve_tz(q.session, QueryZone(q.url))
               /\ q.n = normalized(q.f, t, q.tz)

ChipsOf(n, k) == Seq({<<v>> : v \in ToSet(n.list[k])})

Requested == req # None => view = None /\ Sound(req, req.at)

Found == page # None => req # None /\ ToSet(page.rows) \subseteq Selected(req.n, req.tz, ip_shape)

Chosen == /\ chips = [k \in Distinct |-> chips[k]]
          /\ \A k \in Distinct : chips[k] = None \/ (req # None /\ chips[k] \in ChipsOf(req.n, k))

Rendered == view # None =>
  /\ Sound(view, view.asked) /\ view.at \in Nat
  /\ view.label = label_for_window(view.n, view.at, view.tz)
  /\ ToSet(view.rows) \subseteq Selected(view.n, view.tz, ip_shape)
  /\ \A k \in Distinct : view.chips[k] \in ChipsOf(view.n, k)

PageInv == /\ now \in Nat /\ session_tz \in Zones \cup {None}
           /\ Requested /\ Found /\ Chosen /\ Rendered

LEMMA SoundTypes ==
  ASSUME NEW q, NEW t, Sound(q, t)
  PROVE  /\ q.f \in Filters /\ q.tz \in Int
         /\ q.n.from \in Maybe /\ q.n.to \in Maybe
         /\ q.n.page \in Int /\ q.n.page >= 1 /\ q.n.page_size \in 1..MaxPageSize
<1>1. q.url \in Query /\ q.session \in Zones \cup {None} /\ t \in Int
  BY DEF Sound
<1>2. q.f \in Filters
  BY <1>1, FilterTypes DEF Sound
<1>3. q.tz \in Int
  BY <1>1, ZoneTypes DEF Sound
<1>4. q.n = normalized(q.f, t, q.tz)
  BY DEF Sound
<1>. QED  BY <1>1, <1>2, <1>3, <1>4, NormalTypes

LEMMA NormalLists ==
  ASSUME NEW f \in Filters, NEW t, NEW tz, NEW n, n = normalized(f, t, tz), NEW k \in Distinct
  PROVE  /\ n.list[k] \in Seq(Int) /\ ToSet(n.list[k]) \subseteq ToSet(f.list[k])
         /\ f.list[k] \in Seq(Int)
<1>1. k \in Lists /\ k \notin Ports
  BY DEF Distinct, Lists, Addresses, Ports
<1>2. f.list[k] \in Seq(Int)
  BY <1>1 DEF Filters
<1>3. n.list[k] = IF k \in Addresses THEN f.list[k] ELSE Numbers(f.list[k], 65536)
  BY <1>1 DEF normalized
<1>4. ToSet(Numbers(f.list[k], 65536)) \subseteq ToSet(f.list[k])
  <2>1. PICK s \in Seq(Int) : s = f.list[k]
    BY <1>2
  <2>. DEFINE S == {p \in ToSet(s) : p >= 0 /\ p < 65536}
  <2>2. Numbers(s, 65536) \in Seq(S)
    BY ListedProperties DEF Numbers
  <2>3. S \subseteq ToSet(s)
    OBVIOUS
  <2>. HIDE DEF S
  <2>4. ToSet(Numbers(s, 65536)) \subseteq S
    BY <2>2, FiniteRange
  <2>. QED  BY <2>1, <2>3, <2>4
<1>5. Numbers(f.list[k], 65536) \in Seq(Int)
  BY <1>2, NumbersType
<1>. QED  BY <1>2, <1>3, <1>4, <1>5

LEMMA FunctionSeq ==
  ASSUME NEW X, NEW n \in Nat, NEW w \in [1..n -> X]
  PROVE  w \in Seq(X)
OBVIOUS

LEMMA EncodedType ==
  ASSUME NEW values \in Seq(Seq(Int))
  PROVE  form_encoded(values) \in Seq(Seq(Int))
<1>1. \A p \in Int : p \in Spaced => Plussed[p] \in Int
  BY SpacedFacts
<1>2. ASSUME NEW v \in Seq(Int)
      PROVE  [i \in DOMAIN v |-> IF v[i] \in Spaced THEN Plussed[v[i]] ELSE v[i]] \in Seq(Int)
  <2>. DEFINE w == [i \in DOMAIN v |-> IF v[i] \in Spaced THEN Plussed[v[i]] ELSE v[i]]
  <2>1. DOMAIN v = 1..Len(v) /\ Len(v) \in Nat /\ \A i \in 1..Len(v) : v[i] \in Int
    OBVIOUS
  <2>2. \A i \in 1..Len(v) : w[i] \in Int
    BY <1>1, <2>1
  <2>3. w \in [1..Len(v) -> Int]
    BY <2>1, <2>2
  <2>. QED  BY <2>1, <2>3
<1>3. \A j \in DOMAIN values : values[j] \in Seq(Int)
  OBVIOUS
<1>. DEFINE w == form_encoded(values)
<1>4. DOMAIN values = 1..Len(values) /\ Len(values) \in Nat
  OBVIOUS
<1>5. w = [j \in DOMAIN values |-> w[j]] /\ \A j \in DOMAIN values : w[j] \in Seq(Int)
  BY <1>2, <1>3 DEF form_encoded
<1>. HIDE DEF w
<1>6. w \in [1..Len(values) -> Seq(Int)]
  BY <1>4, <1>5
<1>7. w \in Seq(Seq(Int))
  BY <1>4, <1>6, FunctionSeq
<1>. QED  BY <1>7 DEF w

LEMMA LinksType ==
  ASSUME PageInv, view # None
  PROVE  /\ next_url(view) \in Query /\ prev_url(view) \in Query
         /\ inputs(view) \in Query /\ form_url(view) \in Query
<1>1. /\ view.f \in Filters /\ view.n.page \in Int /\ view.tz \in Int
      /\ \E t : view.n = normalized(view.f, t, view.tz)
  <2>1. Sound(view, view.asked)
    BY DEF PageInv, Rendered
  <2>. QED  BY <2>1, SoundTypes DEF Sound
<1>2. export_query(view.f) \in Query
  BY <1>1, ExportType
<1>3. next_url(view) \in Query /\ prev_url(view) \in Query
  <2>1. view.n.page + 1 \in Int /\ view.n.page - 1 \in Int
    BY <1>1
  <2>. QED  BY <1>2, <2>1, PageType DEF next_url, prev_url
<1>4. \A k \in Distinct : view.chips[k] \in Seq(Seq(Int))
  <2>1. SUFFICES ASSUME NEW k \in Distinct  PROVE view.chips[k] \in Seq(Seq(Int))
    OBVIOUS
  <2>2. view.n.list[k] \in Seq(Int)
    BY <1>1, NormalLists
  <2>3. ToSet(view.n.list[k]) \subseteq Int
    BY <2>2, FiniteRange
  <2>4. {<<v>> : v \in ToSet(view.n.list[k])} \subseteq Seq(Int)
    <3>1. \A v \in Int : <<v>> \in Seq(Int)
      OBVIOUS
    <3>2. \A x : x \in {<<v>> : v \in ToSet(view.n.list[k])} => x \in Seq(Int)
      BY <2>3, <3>1
    <3>. QED  BY <3>2
  <2>5. view.chips[k] \in Seq({<<v>> : v \in ToSet(view.n.list[k])})
    BY DEF PageInv, Rendered, ChipsOf
  <2>. QED  BY <2>4, <2>5, SeqWider
<1>5. \A u \in Query : \A k \in Keys : \A c \in Seq(Seq(Int)) : [u EXCEPT ![k] = @ \o c] \in Query
  <2>1. \A x, y \in Seq(Seq(Int)) : x \o y \in Seq(Seq(Int))
    OBVIOUS
  <2>. QED  BY <2>1 DEF Query
<1>. DEFINE u0 == export_query(view.f)
            u1 == [u0 EXCEPT !["src_ip"] = @ \o view.chips["src_ip"]]
            u2 == [u1 EXCEPT !["dst_ip"] = @ \o view.chips["dst_ip"]]
            u3 == [u2 EXCEPT !["sip_code"] = @ \o view.chips["sip_code"]]
            u4 == [u3 EXCEPT !["id_sensor"] = @ \o view.chips["id_sensor"]]
<1>6. inputs(view) = u4
  BY DEF inputs
<1>7. u0 \in Query
  BY <1>2
<1>8. /\ "src_ip" \in Keys /\ "dst_ip" \in Keys /\ "sip_code" \in Keys /\ "id_sensor" \in Keys
      /\ "src_ip" \in Distinct /\ "dst_ip" \in Distinct
      /\ "sip_code" \in Distinct /\ "id_sensor" \in Distinct
  BY DEF Keys, Lists, Addresses, Distinct
<1>. HIDE DEF u0
<1>9. u1 \in Query
  BY <1>4, <1>5, <1>7, <1>8
<1>. HIDE DEF u1
<1>10. u2 \in Query
  BY <1>4, <1>5, <1>9, <1>8
<1>. HIDE DEF u2
<1>11. u3 \in Query
  BY <1>4, <1>5, <1>10, <1>8
<1>. HIDE DEF u3
<1>12. u4 \in Query
  BY <1>4, <1>5, <1>11, <1>8
<1>. HIDE DEF u3, u4
<1>13. inputs(view) \in Query
  BY Zenon, <1>6, <1>12
<1>14. form_url(view) \in Query
  <2>1. <<<<view.tz>>>> \in Seq(Seq(Int))
    BY <1>1
  <2>2. \A k \in Keys : form_encoded(inputs(view)[k]) \in Seq(Seq(Int))
    BY <1>13, EncodedType DEF Query
  <2>3. [k \in Keys |-> form_encoded(inputs(view)[k])] \in Query
    BY <2>2 DEF Query
  <2>. QED  BY <2>1, <2>3 DEF form_url, Query
<1>. QED  BY <1>3, <1>13, <1>14

\* The values that are ticked are among the ones that were asked for.
LEMMA TickedType ==
  ASSUME NEW k, NEW S, req.n.list[k] \in Seq(Int)
  PROVE  Ticked(k, S) \in ChipsOf(req.n, k)
<1>. DEFINE chosen == {v \in S : v \in ToSet(req.n.list[k])}
            key == [v \in chosen |-> v]
            rank == RankBy(chosen, key)
            m == Cardinality(chosen)
<1>1. IsFiniteSet(chosen) /\ chosen \subseteq Int /\ chosen \subseteq ToSet(req.n.list[k])
  <2>1. IsFiniteSet(ToSet(req.n.list[k])) /\ ToSet(req.n.list[k]) \subseteq Int
    BY FiniteRange
  <2>2. chosen \subseteq ToSet(req.n.list[k])
    OBVIOUS
  <2>. QED  BY <2>1, <2>2, FS_Subset
<1>2. /\ key \in [chosen -> Int] /\ \A v \in chosen : key[v] = v
      /\ \A v, w \in chosen : v # w => key[v] # key[w]
  BY <1>1
<1>3. \A v \in chosen : rank[v] = Cardinality({w \in chosen : w <= v})
  <2>1. \A v \in chosen : rank[v] = Cardinality({w \in chosen : key[w] <= key[v]})
    BY Zenon DEF RankBy
  <2>2. SUFFICES ASSUME NEW v \in chosen
                 PROVE  {w \in chosen : key[w] <= key[v]} = {w \in chosen : w <= v}
    BY <2>1
  <2>. QED  BY <1>2
<1>4. rank = RankBy(chosen, key)
  OBVIOUS
<1>5. Ticked(k, S) = [j \in 1..m |-> <<CHOOSE v \in chosen : Cardinality({w \in chosen : w <= v}) = j>>]
  BY Zenon DEF Ticked
<1>. HIDE DEF chosen, key, rank
<1>6. m \in Nat /\ \A j \in 1..m : \E v \in chosen : rank[v] = j
  <2>1. /\ IsFiniteSet(chosen) /\ key \in [chosen -> Int]
        /\ \A v, w \in chosen : v # w => key[v] # key[w]
    BY <1>1, <1>2
  <2>2. /\ Cardinality(chosen) \in Nat
        /\ \A v \in chosen : rank[v] \in 1..Cardinality(chosen)
        /\ \A v, w \in chosen : key[v] < key[w] => rank[v] < rank[w]
        /\ \A j \in 1..Cardinality(chosen) : \E v \in chosen : rank[v] = j
    BY <1>4, <2>1, RankProperties
  <2>. QED  BY <2>2
<1>. DEFINE pick(j) == CHOOSE v \in chosen : Cardinality({w \in chosen : w <= v}) = j
<1>7. \A j \in 1..m : pick(j) \in chosen
  <2>1. SUFFICES ASSUME NEW j \in 1..m  PROVE pick(j) \in chosen
    OBVIOUS
  <2>2. \E v \in chosen : Cardinality({w \in chosen : w <= v}) = j
    BY <1>3, <1>6
  <2>. QED  BY <2>2
<1>8. Ticked(k, S) = [j \in 1..m |-> <<pick(j)>>]
  BY <1>5, Zenon
<1>. HIDE DEF pick, m
<1>9. Ticked(k, S) \in [1..m -> {<<v>> : v \in ToSet(req.n.list[k])}]
  <2>1. \A j \in 1..m : <<pick(j)>> \in {<<v>> : v \in ToSet(req.n.list[k])}
    BY <1>1, <1>7
  <2>. QED  BY <1>8, <2>1
<1>. QED  BY <1>6, <1>9, SeqDef DEF ChipsOf

LEMMA AskPageInv ==
  ASSUME PageInv, NEW url \in Query, NEW how, Asks(url, how)
  PROVE  PageInv'
<1>1. /\ now' = now /\ session_tz' = session_tz /\ view' = None
      /\ page' = page /\ chips' = chips /\ ip_shape' = ip_shape /\ req = None
  BY DEF Asks
<1>2. req' = LET f == build_filters(url)
                 tz == resolve_tz(session_tz, QueryZone(url))
             IN [url |-> url, f |-> f, tz |-> tz, n |-> normalized(f, now, tz),
                 session |-> session_tz, at |-> now]
  BY DEF Asks
<1>3. /\ req'.url = url /\ req'.f = build_filters(url) /\ req'.session = session_tz
      /\ req'.tz = resolve_tz(session_tz, QueryZone(url)) /\ req'.at = now
      /\ req'.n = normalized(build_filters(url), now, resolve_tz(session_tz, QueryZone(url)))
  BY <1>2
<1>4. Sound(req', req'.at)
  BY <1>3 DEF Sound, PageInv
<1>5. Requested'
  BY <1>1, <1>4 DEF Requested
<1>6. page = None /\ \A k \in Distinct : chips[k] = None
  BY <1>1 DEF PageInv, Found, Chosen
<1>7. Found' /\ Rendered'
  BY <1>1, <1>6 DEF Found, Rendered
<1>8. Chosen'
  BY <1>1, <1>6 DEF Chosen, PageInv
<1>. QED  BY <1>1, <1>5, <1>7, <1>8 DEF PageInv

LEMMA BrowseAsks ==
  ASSUME PageInv, Browse
  PROVE  \E url \in Query, how \in {"goto", "next", "previous", "apply"} :
           /\ Asks(url, how)
           /\ how = "next" => view # None /\ view.has_more /\ url = next_url(view)
<1>1. CASE \E url \in Urls : GoTo(url)
  BY <1>1, UrlsAssumption DEF GoTo, Query
<1>2. CASE FollowNext
  BY <1>2, LinksType DEF FollowNext
<1>3. CASE FollowPrevious
  BY <1>3, LinksType DEF FollowPrevious
<1>4. CASE Apply
  BY <1>4, LinksType DEF Apply
<1>. QED  BY <1>1, <1>2, <1>3, <1>4 DEF Browse

\* What list finds is a part of the selected calls in the order of the list.
IsSlice(found, l, from, limit) ==
  /\ from + limit < Len(l) => Len(found) = limit
  /\ ~(from + limit < Len(l)) /\ from <= Len(l) => Len(found) = Len(l) - from
  /\ ~(from <= Len(l)) => Len(found) = 0
  /\ \A k \in 1..Len(found) : from + k \in 1..Len(l) /\ found[k] = l[from + k]

LEMMA SliceProperties ==
  ASSUME NEW X, NEW l \in Seq(X), NEW from \in Nat, NEW limit \in Nat, NEW found, found = Slice(l, from, limit)
  PROVE  found \in Seq(X) /\ IsSlice(found, l, from, limit)
<1>1. PICK last : last = IF from + limit < Len(l) THEN from + limit ELSE Len(l)
  OBVIOUS
<1>2. found = SubSeq(l, from + 1, last)
  BY <1>1 DEF Slice
<1>3. Len(l) \in Nat /\ last \in Nat /\ last <= Len(l)
  BY <1>1
<1>4. CASE from + 1 <= last
  <2>1. from + 1 \in 1..(Len(l) + 1) /\ last \in (from + 1 - 1)..Len(l)
    BY <1>3, <1>4
  <2>2. /\ found \in Seq(X) /\ Len(found) = IF from + 1 <= last THEN last - (from + 1) + 1 ELSE 0
        /\ \A i \in 1..(last - (from + 1) + 1) : found[i] = l[(from + 1) + i - 1]
    BY <1>2, <2>1, SubSeqProperties
  <2>3. Len(found) = last - from
    BY <1>3, <1>4, <2>2
  <2>4. \A k \in 1..Len(found) : from + k \in 1..Len(l) /\ found[k] = l[from + k]
    <3>1. SUFFICES ASSUME NEW k \in 1..Len(found)
                   PROVE  from + k \in 1..Len(l) /\ found[k] = l[from + k]
      OBVIOUS
    <3>2. k \in 1..(last - (from + 1) + 1) /\ (from + 1) + k - 1 = from + k
      BY <1>3, <2>3
    <3>3. found[k] = l[(from + 1) + k - 1]
      BY <2>2, <3>2
    <3>4. found[k] = l[from + k]
      BY <3>2, <3>3
    <3>. QED  BY <1>3, <2>3, <3>4
  <2>. QED  BY <1>1, <1>3, <1>4, <2>2, <2>3, <2>4 DEF IsSlice
<1>5. CASE ~(from + 1 <= last)
  <2>1. found = <<>>
    <3>1. last < from + 1
      BY <1>3, <1>5
    <3>. QED  BY <1>2, <1>3, <3>1, SubSeqEmpty
  <2>. QED  BY <1>1, <1>3, <1>5, <2>1 DEF IsSlice
<1>. QED  BY <1>4, <1>5

\* The place of a call in a set of calls that is listed.
Pos(c, S) == Cardinality({d \in S : Place(Order, d) <= Place(Order, c)})

\* l lists the calls of S, each at its place.
IsRanking(l, S) ==
  /\ l \in Seq(S) /\ Len(l) = Cardinality(S)
  /\ \A k \in 1..Len(l) : Pos(l[k], S) = k
  /\ \A x \in S : \E k \in 1..Len(l) : l[k] = x
  /\ \A j, k \in 1..Len(l) : j < k => Place(Order, l[j]) < Place(Order, l[k])

LEMMA RankedProperties ==
  ASSUME NEW S, S \subseteq Cdr
  PROVE  IsRanking(Ranked(S), S)
<1>1. Order \in Seq(Nat) /\ S \subseteq ToSet(Order)
  BY OrderAssumption DEF Cdr
<1>2. PICK l : l = Listed(S, Order)
  OBVIOUS
<1>3. IsListing(l, S, Order)
  BY <1>1, <1>2, ListedRanks
<1>4. IsRanking(l, S)
  BY Zenon, <1>3 DEF IsListing, Pos, IsRanking
<1>. QED  BY <1>2, <1>4 DEF Ranked

\* A page of the list: the calls behind off, up to the last of its rows.
IsPage(rows, S, off, size, more) ==
  /\ rows \in Seq(S)
  /\ more => off + size < Len(Order)
  /\ \A c \in S : \/ Pos(c, S) <= off
                  \/ c \in ToSet(rows)
                  \/ /\ more /\ Pos(c, S) > off + size
                     /\ \A d \in ToSet(rows) : Place(Order, d) < Place(Order, c)

LEMMA PageProperties ==
  ASSUME NEW S, S \subseteq Cdr, NEW off \in Nat, NEW size \in Nat, size >= 1,
         NEW found, found = Slice(Ranked(S), off, size + 1),
         NEW rows, Len(found) > size => rows = SubSeq(found, 1, size),
         ~(Len(found) > size) => rows = found
  PROVE  IsPage(rows, S, off, size, Len(found) > size)
<1>1. PICK l : l = Ranked(S)
  OBVIOUS
<1>2. Order \in Seq(Nat) /\ S \subseteq ToSet(Order)
  BY OrderAssumption DEF Cdr
<1>3. /\ l \in Seq(S) /\ Len(l) = Cardinality(S)
      /\ \A k \in 1..Len(l) : Pos(l[k], S) = k
      /\ \A x \in S : \E k \in 1..Len(l) : l[k] = x
      /\ \A j, k \in 1..Len(l) : j < k => Place(Order, l[j]) < Place(Order, l[k])
  <2>1. IsRanking(l, S)
    BY <1>1, RankedProperties
  <2>. QED  BY <2>1 DEF IsRanking
<1>4. Len(l) \in Nat /\ Len(l) <= Len(Order) /\ Len(Order) \in Nat
  <2>1. IsFiniteSet(ToSet(Order)) /\ Cardinality(ToSet(Order)) <= Len(Order)
    BY <1>2, FiniteRange
  <2>2. /\ Cardinality(S) <= Cardinality(ToSet(Order))
        /\ Cardinality(ToSet(Order)) \in Nat /\ Cardinality(S) \in Nat
    BY <1>2, <2>1, FS_Subset, FS_CardinalityType
  <2>3. Len(Order) \in Nat
    BY <1>2
  <2>. QED  BY <1>3, <2>1, <2>2, <2>3
<1>5. /\ found \in Seq(S)
      /\ off + (size + 1) < Len(l) => Len(found) = size + 1
      /\ ~(off + (size + 1) < Len(l)) /\ off <= Len(l) => Len(found) = Len(l) - off
      /\ ~(off <= Len(l)) => Len(found) = 0
      /\ \A k \in 1..Len(found) : off + k \in 1..Len(l) /\ found[k] = l[off + k]
  <2>1. size + 1 \in Nat /\ found = Slice(l, off, size + 1) /\ l \in Seq(S)
    BY <1>1, <1>3
  <2>2. found \in Seq(S) /\ IsSlice(found, l, off, size + 1)
    BY <2>1, SliceProperties
  <2>. QED  BY Zenon, <2>2 DEF IsSlice
<1>6. /\ rows \in Seq(S)
      /\ Len(rows) = IF Len(found) > size THEN size ELSE Len(found)
      /\ \A k \in 1..Len(rows) : rows[k] = l[off + k]
      /\ Len(found) \in Nat
  <2>1. Len(found) \in Nat
    BY <1>5
  <2>2. CASE Len(found) > size
    <3>1. size <= Len(found)
      BY <2>1, <2>2
    <3>2. \A i \in 1..size : found[i] \in S
      BY <1>5, <2>1, <3>1
    <3>3. /\ rows \in Seq(S) /\ Len(rows) = IF 1 <= size THEN size - 1 + 1 ELSE 0
          /\ \A i \in 1..(size - 1 + 1) : rows[i] = found[1 + i - 1]
      BY <2>2, <3>2, SubSeqProperties
    <3>4. \A k \in 1..size : k \in 1..Len(found) /\ rows[k] = found[k]
      BY <2>1, <3>1, <3>3
    <3>5. Len(rows) = size
      BY <3>3
    <3>6. \A k \in 1..size : rows[k] = l[off + k]
      BY <1>5, <3>4
    <3>. QED  BY <2>1, <2>2, <3>3, <3>5, <3>6
  <2>3. CASE ~(Len(found) > size)
    BY <1>5, <2>1, <2>3
  <2>. QED  BY <2>2, <2>3
<1>7. Len(found) > size <=> off + size < Len(l)
  BY <1>4, <1>5, <1>6
<1>8. ASSUME NEW c \in S, ~(Pos(c, S) <= off), c \notin ToSet(rows)
      PROVE  /\ Len(found) > size /\ Pos(c, S) > off + size
             /\ \A d \in ToSet(rows) : Place(Order, d) < Place(Order, c)
  <2>1. PICK p \in 1..Len(l) : l[p] = c
    BY <1>3
  <2>2. Pos(c, S) = p /\ p > off
    BY <1>3, <1>4, <1>8, <2>1
  <2>3. ~(p - off \in 1..Len(rows))
    <3>1. SUFFICES ASSUME p - off \in 1..Len(rows)  PROVE FALSE
      OBVIOUS
    <3>2. rows[p - off] = l[off + (p - off)] /\ off + (p - off) = p
      BY <1>4, <1>6, <3>1
    <3>3. rows[p - off] \in ToSet(rows)
      <4>1. DOMAIN rows = 1..Len(rows)
        BY <1>6
      <4>. QED  BY <3>1, <4>1 DEF ToSet
    <3>. QED  BY <1>8, <2>1, <3>2, <3>3
  <2>4. Len(found) > size /\ p > off + size
    BY <1>4, <1>5, <1>6, <1>7, <2>2, <2>3
  <2>5. ASSUME NEW d \in ToSet(rows)  PROVE Place(Order, d) < Place(Order, c)
    <3>1. PICK k \in 1..Len(rows) : rows[k] = d
      BY <1>6, FiniteRange
    <3>2. off + k \in 1..Len(l) /\ off + k < p /\ d = l[off + k]
      BY <1>4, <1>6, <1>7, <2>4, <3>1
    <3>. QED  BY <1>3, <2>1, <3>2
  <2>. QED  BY <2>2, <2>4, <2>5
<1>. QED  BY <1>4, <1>6, <1>7, <1>8 DEF IsPage

\* What list did: the calls it found, the page and the walk.
LEMMA ListEffect ==
  ASSUME List, PageInv
  PROVE  \E S, off, size, found, rows :
           /\ S = Selected(req.n, req.tz, ip_shape) \cap Table /\ off = offset(req.n)
           /\ size = req.n.page_size /\ off \in Nat /\ size \in Nat /\ size >= 1
           /\ found = Slice(Ranked(S), off, size + 1)
           /\ Len(found) > size => rows = SubSeq(found, 1, size)
           /\ ~(Len(found) > size) => rows = found
           /\ page' = [rows |-> rows, has_more |-> Len(found) > size]
           /\ walk' = Followed(req.n, rows)
<1>. DEFINE S == Selected(req.n, req.tz, ip_shape) \cap Table
            off == offset(req.n)
            size == req.n.page_size
            found == Slice(Ranked(S), off, size + 1)
            rows == IF Len(found) > size THEN SubSeq(found, 1, size) ELSE found
<1>1. page' = [rows |-> rows, has_more |-> Len(found) > size] /\ walk' = Followed(req.n, rows)
  BY Zenon DEF List
<1>2. req # None /\ Sound(req, req.at)
  BY DEF List, PageInv, Requested
<1>3. req.n.page \in Int /\ req.n.page >= 1 /\ size \in 1..MaxPageSize
  BY <1>2, SoundTypes
<1>4. off \in Nat
  <2>1. (req.n.page - 1) * size \in Nat
    <3>1. PICK a, b : a = req.n.page - 1 /\ b = size /\ a \in Nat /\ b \in Nat
      BY <1>3, SizeAssumption
    <3>2. a * b \in Nat
      BY <3>1
    <3>. QED  BY <3>1, <3>2
  <2>2. U32 \in Nat \ {0}
    BY SizeAssumption
  <2>3. \A x \in Nat : x % U32 \in Nat
    BY <2>2
  <2>. QED  BY <2>1, <2>3 DEF offset
<1>5. size \in Nat /\ size >= 1
  BY <1>3, SizeAssumption
<1>6. /\ Len(found) > size => rows = SubSeq(found, 1, size)
      /\ ~(Len(found) > size) => rows = found
  OBVIOUS
<1>7. S = Selected(req.n, req.tz, ip_shape) \cap Table /\ off = offset(req.n) /\ size = req.n.page_size
      /\ found = Slice(Ranked(S), off, size + 1)
  OBVIOUS
<1>. HIDE DEF rows, found, size, off, S
<1>. QED  BY <1>1, <1>4, <1>5, <1>6, <1>7

LEMMA RowsSelected ==
  ASSUME List, PageInv
  PROVE  ToSet(page'.rows) \subseteq Selected(req.n, req.tz, ip_shape)
<1>1. PICK S, off, size, found, rows :
        /\ S = Selected(req.n, req.tz, ip_shape) \cap Table
        /\ off \in Nat /\ size \in Nat /\ size >= 1
        /\ found = Slice(Ranked(S), off, size + 1)
        /\ Len(found) > size => rows = SubSeq(found, 1, size)
        /\ ~(Len(found) > size) => rows = found
        /\ page' = [rows |-> rows, has_more |-> Len(found) > size]
  BY ListEffect
<1>2. S \subseteq Cdr
  BY <1>1 DEF Table
<1>3. rows \in Seq(S)
  BY <1>1, <1>2, PageProperties DEF IsPage
<1>4. ToSet(rows) \subseteq S
  BY <1>3, FiniteRange
<1>. QED  BY <1>1, <1>4

LEMMA StepPageInv ==
  ASSUME PageInv, [Next]_vars
  PROVE  PageInv'
<1>1. CASE Tick
  <2>1. now' \in Nat
    BY <1>1 DEF Tick, PageInv
  <2>. QED  BY <1>1, <2>1 DEF Tick, browser, PageInv, Requested, Found, Chosen, Rendered
<1>2. CASE \E c \in Cdr : CallEnds(c) \/ Clean(c)
  BY <1>2 DEF CallEnds, Clean, browser, PageInv, Requested, Found, Chosen, Rendered
<1>3. CASE \E tz \in Zones \cup {None} : set_tz(tz)
  BY <1>3 DEF set_tz, PageInv, Requested, Found, Chosen, Rendered
<1>4. CASE Browse
  BY <1>4, BrowseAsks, AskPageInv
<1>5. CASE List
  <2>1. ToSet(page'.rows) \subseteq Selected(req.n, req.tz, ip_shape)
    BY <1>5, RowsSelected
  <2>. QED  BY <1>5, <2>1 DEF List, PageInv, Requested, Found, Chosen, Rendered
<1>6. CASE DistinctValues
  <2>1. /\ req # None
        /\ UNCHANGED <<now, calls, ip_shape, session_tz, req, page, view, walk>>
    BY <1>6 DEF DistinctValues
  <2>2. PICK k \in Distinct : \E S : chips' = [chips EXCEPT ![k] = Ticked(k, S)]
    <3>1. PICK j \in DOMAIN DistinctOrder :
            chips' = [chips EXCEPT ![DistinctOrder[j]] =
                        Ticked(DistinctOrder[j], Offered(DistinctOrder[j], now, req.tz))]
      BY <1>6 DEF DistinctValues
    <3>2. DistinctOrder[j] \in Distinct
      BY DEF DistinctOrder, Distinct, Addresses
    <3>. QED  BY <3>1, <3>2
  <2>0. PICK S : chips' = [chips EXCEPT ![k] = Ticked(k, S)]
    BY <2>2
  <2>3. req.n.list[k] \in Seq(Int)
    <3>1. Sound(req, req.at)
      BY <2>1 DEF PageInv, Requested
    <3>2. req.f \in Filters /\ req.n = normalized(req.f, req.at, req.tz)
      BY <3>1, SoundTypes DEF Sound
    <3>. QED  BY <3>2, NormalLists
  <2>4. Ticked(k, S) \in ChipsOf(req.n, k)
    BY <2>3, TickedType
  <2>5. Chosen'
    <3>1. Chosen
      BY DEF PageInv
    <3>. QED  BY <2>1, <2>0, <2>4, <3>1 DEF Chosen
  <2>. QED  BY <2>1, <2>5 DEF PageInv, Requested, Found, Rendered
<1>7. CASE Render
  <2>1. /\ req # None /\ page # None /\ \A k \in Distinct : chips[k] # None
        /\ req' = None /\ page' = None /\ chips' = NoChips
        /\ UNCHANGED <<now, calls, ip_shape, session_tz, walk>>
    BY <1>7 DEF Render, Answer, Done
  <2>2. view' = [url |-> req.url, f |-> req.f, n |-> req.n, tz |-> req.tz,
                 session |-> req.session, asked |-> req.at, rows |-> page.rows,
                 has_more |-> page.has_more, chips |-> chips, at |-> now,
                 label |-> label_for_window(req.n, now, req.tz)]
    BY <1>7 DEF Render
  <2>3. /\ view'.url = req.url /\ view'.f = req.f /\ view'.n = req.n /\ view'.tz = req.tz
        /\ view'.session = req.session /\ view'.asked = req.at /\ view'.rows = page.rows
        /\ view'.chips = chips /\ view'.at = now
        /\ view'.label = label_for_window(req.n, now, req.tz)
    BY <2>2
  <2>4. Sound(view', view'.asked)
    <3>1. Sound(req, req.at)
      BY <2>1 DEF PageInv, Requested
    <3>. QED  BY <2>3, <3>1 DEF Sound
  <2>5. Rendered'
    <3>1. /\ ToSet(page.rows) \subseteq Selected(req.n, req.tz, ip_shape)
          /\ \A k \in Distinct : chips[k] \in ChipsOf(req.n, k)
      BY <2>1 DEF PageInv, Found, Chosen
    <3>2. ip_shape' = ip_shape /\ now \in Nat
      BY <2>1 DEF PageInv
    <3>. QED  BY <2>3, <2>4, <3>1, <3>2 DEF Rendered
  <2>6. Chosen'
    BY <2>1 DEF Chosen, NoChips
  <2>. QED  BY <2>1, <2>5, <2>6 DEF PageInv, Requested, Found
<1>8. CASE Fail
  <2>1. /\ req' = None /\ page' = None /\ chips' = NoChips
        /\ UNCHANGED <<now, calls, ip_shape, session_tz, walk, view>>
    BY <1>8 DEF Fail, Answer
  <2>2. Chosen'
    BY <2>1 DEF Chosen, NoChips
  <2>. QED  BY <2>1, <2>2 DEF PageInv, Requested, Found, Rendered
<1>9. CASE UNCHANGED vars
  BY <1>9 DEF vars, browser, PageInv, Requested, Found, Chosen, Rendered
<1>. QED  BY <1>1, <1>2, <1>3, <1>4, <1>5, <1>6, <1>7, <1>8, <1>9 DEF Next, Handle

THEOREM PageInvariant == Spec => []PageInv
<1>1. Init => PageInv
  BY DEF Init, NoChips, PageInv, Requested, Found, Chosen, Rendered
<1>2. PageInv /\ [Next]_vars => PageInv'
  BY StepPageInv
<1>. QED  BY <1>1, <1>2, PTL DEF Spec

-----------------------------------------------------------------------------
(* The right day.                                                          *)

\* What lies between two moments of a day is of that day.
LEMMA SameDay ==
  ASSUME NEW d \in Nat \ {0}, NEW a \in Int, NEW b \in Int, NEW x \in Int,
         a <= x, x <= b, a \div d = b \div d
  PROVE  x \div d = a \div d
<1>1. PICK q \in Int : q = a \div d
  OBVIOUS
<1>2. d * q <= a /\ b < d * q + d
  BY <1>1
<1>3. d * q <= x /\ x < d * q + d
  BY <1>2
<1>. QED  BY <1>1, <1>3

LEMMA WindowOnTheClock ==
  ASSUME NEW c \in Cdr, NEW n, NEW tz \in Int, InWindow(c, n, tz), n.from \in Maybe, n.to \in Maybe
  PROVE  /\ Local(Call[c].at, tz) \in Int
         /\ n.from # None => Local(Call[c].at, tz) >= n.from
         /\ n.to # None => Local(Call[c].at, tz) <= n.to
<1>1. Call[c].at \in Int /\ DbZone \in Int
  BY OrderAssumption, SizeAssumption
<1>2. /\ n.from # None => n.from \in Int /\ Call[c].at + DbZone >= n.from + (DbZone - tz)
      /\ n.to # None => n.to \in Int /\ Call[c].at + DbZone <= n.to + (DbZone - tz)
  BY DEF InWindow, Stored, Shift, Maybe
<1>. QED  BY <1>1, <1>2 DEF Local

LEMMA RightDayHolds == PageInv => RightDay
<1>1. SUFFICES ASSUME PageInv, view # None, NEW c \in ToSet(view.rows)
      PROVE  /\ view.n.from # None => Local(Call[c].at, view.tz) >= view.n.from
             /\ view.n.to # None => Local(Call[c].at, view.tz) <= view.n.to
             /\ view.label = "Today" => Date(Call[c].at, view.tz) = Date(view.at, view.tz)
             /\ view.label = "Yesterday" => Date(Call[c].at, view.tz) = Date(view.at, view.tz) - 1
  BY DEF RightDay
<1>2. /\ view.tz \in Int /\ view.n.from \in Maybe /\ view.n.to \in Maybe
      /\ view.label = label_for_window(view.n, view.at, view.tz)
      /\ c \in Cdr /\ InWindow(c, view.n, view.tz)
  BY <1>1, SoundTypes DEF PageInv, Rendered, Selected
<1>3. PICK t : t = Local(Call[c].at, view.tz)
  OBVIOUS
<1>4. t \in Int /\ (view.n.from # None => t >= view.n.from) /\ (view.n.to # None => t <= view.n.to)
  BY <1>2, <1>3, WindowOnTheClock
<1>5. ASSUME view.label \in {"Today", "Yesterday"}
      PROVE  /\ view.n.from \in Int /\ view.n.to \in Int
             /\ view.n.from \div Day = view.n.to \div Day
             /\ view.label = "Today" => view.n.from \div Day = Date(view.at, view.tz)
             /\ view.label = "Yesterday" => view.n.from \div Day = Date(view.at, view.tz) - 1
  BY <1>2, <1>5 DEF label_for_window, Maybe
<1>6. ASSUME view.label \in {"Today", "Yesterday"}
      PROVE  Date(Call[c].at, view.tz) = view.n.from \div Day
  <2>1. /\ view.n.from \in Int /\ view.n.to \in Int /\ view.n.from <= t /\ t <= view.n.to
        /\ view.n.from \div Day = view.n.to \div Day
    BY <1>4, <1>5, <1>6, NoneAssumption
  <2>2. t \div Day = view.n.from \div Day
    BY <2>1, <1>4, SameDay, SizeAssumption
  <2>. QED  BY <1>3, <2>2 DEF Date
<1>. QED  BY <1>3, <1>4, <1>5, <1>6

\* Every row of a page lies in the window that was asked for on the clock of
\* the operator (to_where and the two shifts), and the heading Today or
\* Yesterday is the date of every one.
THEOREM RowsOfTheRightDay == Spec => []RightDay
<1>1. PageInv => RightDay
  BY RightDayHolds
<1>. QED  BY <1>1, PageInvariant, PTL

-----------------------------------------------------------------------------
(* The zone of the form.                                                   *)

LEMMA ZoneAgain ==
  ASSUME NEW s \in Maybe, NEW o \in {None} \cup (-(Day - 1)..(Day - 1)),
         NEW tz, tz = resolve_tz(s, o)
  PROVE  resolve_tz(s, tz) = tz
<1>1. Day \in Int /\ Day > 0 /\ DefaultZone \in Int
  BY SizeAssumption
<1>2. CASE o \notin {None, 0}
  <2>1. o \in Int /\ o > -Day /\ o < Day /\ tz = o
    BY <1>1, <1>2 DEF resolve_tz
  <2>. QED  BY <1>2, <2>1 DEF resolve_tz
<1>3. CASE o \in {None, 0}
  <2>1. PICK secs : secs = IF s # None THEN s ELSE DefaultZone
    OBVIOUS
  <2>2. secs \in Int
    BY <1>1, <2>1 DEF Maybe
  <2>3. tz = IF secs > -Day /\ secs < Day THEN secs ELSE 0
    BY <1>3, <2>1 DEF resolve_tz
  <2>4. tz # None
    BY <2>2, <2>3, NoneAssumption
  <2>5. CASE tz = 0
    BY <2>1, <2>3, <2>5 DEF resolve_tz
  <2>6. CASE tz # 0
    <3>1. tz = secs /\ secs > -Day /\ secs < Day
      BY <2>3, <2>6
    <3>. QED  BY <2>4, <2>6, <3>1 DEF resolve_tz
  <2>. QED  BY <2>5, <2>6
<1>. QED  BY <1>2, <1>3

LEMMA FormKeepsZoneHolds == PageInv => FormKeepsZone
<1>1. SUFFICES ASSUME PageInv, view # None, session_tz = view.session,
                      QueryZone(view.url) \in {None} \cup (-(Day - 1)..(Day - 1))
               PROVE  resolve_tz(session_tz, view.tz) = view.tz
  BY DEF FormKeepsZone, ZoneOfADay
<1>2. Sound(view, view.asked)
  BY <1>1 DEF PageInv, Rendered
<1>3. view.session \in Maybe /\ view.tz = resolve_tz(view.session, QueryZone(view.url))
  BY <1>2, ZoneTypes DEF Sound
<1>. QED  BY <1>1, <1>3, ZoneAgain

\* The hidden field of the form, resolved again by resolve_tz, is the zone of
\* the page that holds it.
THEOREM FormKeepsTheZone == Spec => []FormKeepsZone
<1>1. PageInv => FormKeepsZone
  BY FormKeepsZoneHolds
<1>. QED  BY <1>1, PageInvariant, PTL

-----------------------------------------------------------------------------
(* The links of a page.                                                    *)

\* A list as merge_str_list leaves it.
Tidy(s) == /\ s \in Seq(Int) /\ Blank \notin ToSet(s)
           /\ \A j, k \in 1..Len(s) : s[j] = s[k] => j = k
           /\ \A p \in ToSet(s) : trim(p) = p

LEMMA ListedClean ==
  ASSUME NEW s \in Seq(Int), NEW S, S \subseteq ToSet(s), Blank \notin S,
         \A p \in S : trim(p) = p
  PROVE  Tidy(Listed(S, s)) /\ ToSet(Listed(S, s)) \subseteq S
<1>1. PICK l : l = Listed(S, s)
  OBVIOUS
<1>2. IsListing(l, S, s)
  BY <1>1, ListedRanks
<1>3. l \in Seq(S) /\ \A j, k \in 1..Len(l) : j < k => Place(s, l[j]) < Place(s, l[k])
  BY Zenon, <1>2 DEF IsListing
<1>4. S \subseteq Int
  BY FiniteRange
<1>5. ToSet(l) \subseteq S
  BY <1>3, FiniteRange
<1>6. \A x \in S : Place(s, x) \in Int
  <2>1. \A x \in ToSet(s) : Place(s, x) \in 1..Len(s)
    BY PlaceProperties
  <2>. QED  BY <2>1
<1>7. ASSUME NEW j \in 1..Len(l), NEW k \in 1..Len(l), l[j] = l[k]
      PROVE  j = k
  <2>1. l[k] \in S /\ Place(s, l[k]) \in Int
    BY <1>3, <1>6
  <2>2. ~(Place(s, l[k]) < Place(s, l[k]))
    BY <2>1
  <2>3. ~(j < k) /\ ~(k < j)
    BY <1>3, <1>7, <2>2
  <2>. QED  BY <1>3, <2>3
<1>. QED  BY <1>1, <1>3, <1>4, <1>5, <1>7, SeqWider DEF Tidy

LEMMA MergeClean ==
  ASSUME NEW values \in Seq(Seq(Int))
  PROVE  Tidy(merge_str_list(values))
<1>1. PICK r \in Seq(Int) : r = FlattenSeq(values)
  BY FlattenProperties
<1>2. PICK l : l = [j \in DOMAIN r |-> trim(r[j])]
  OBVIOUS
<1>3. l \in Seq(Int) /\ \A j \in 1..Len(l) : trim(l[j]) = l[j]
  BY <1>1, <1>2, TrimType
<1>4. PICK S : S = ToSet(l) \ {Blank}
  OBVIOUS
<1>5. S \subseteq ToSet(l) /\ Blank \notin S /\ \A p \in S : trim(p) = p
  <2>1. \A p \in ToSet(l) : \E j \in 1..Len(l) : l[j] = p
    BY <1>3, FiniteRange
  <2>. QED  BY <1>3, <1>4, <2>1
<1>6. Tidy(Listed(S, l))
  BY <1>3, <1>5, ListedClean
<1>. QED  BY <1>1, <1>2, <1>4, <1>6 DEF merge_str_list, Parts

LEMMA NumbersClean ==
  ASSUME NEW s, Tidy(s), NEW b
  PROVE  Tidy(Numbers(s, b)) /\ \A p \in ToSet(Numbers(s, b)) : p >= 0 /\ p < b
<1>. DEFINE S == {p \in ToSet(s) : p >= 0 /\ p < b}
<1>1. /\ S \subseteq ToSet(s) /\ Blank \notin S /\ s \in Seq(Int)
  BY DEF Tidy
<1>5. \A p \in S : trim(p) = p
  BY DEF Tidy
<1>2. \A p \in S : p >= 0 /\ p < b
  OBVIOUS
<1>3. Numbers(s, b) = Listed(S, s)
  BY DEF Numbers
<1>. HIDE DEF S
<1>4. Tidy(Listed(S, s)) /\ ToSet(Listed(S, s)) \subseteq S
  BY <1>1, <1>5, ListedClean
<1>. QED  BY <1>2, <1>3, <1>4

\* Reading such a list again changes nothing, nor does ticking some of it.
LEMMA MergeAgain ==
  ASSUME NEW s, Tidy(s), NEW ticks \in Seq({<<v>> : v \in ToSet(s)})
  PROVE  merge_str_list(Given(s) \o ticks) = s
<1>1. s \in Seq(Int) /\ Blank \notin ToSet(s) /\ \A j, k \in 1..Len(s) : s[j] = s[k] => j = k
  BY DEF Tidy
<1>4. ASSUME NEW r \in Seq(ToSet(s))
      PROVE  [j \in DOMAIN r |-> trim(r[j])] = r
  <2>1. \A p \in ToSet(s) : trim(p) = p
    BY DEF Tidy
  <2>2. DOMAIN r = 1..Len(r) /\ \A j \in 1..Len(r) : r[j] \in ToSet(s)
    OBVIOUS
  <2>3. \A j \in DOMAIN r : trim(r[j]) = r[j]
    BY <2>1, <2>2
  <2>4. r = [j \in DOMAIN r |-> r[j]]
    OBVIOUS
  <2>. QED  BY <2>3, <2>4
<1>5. ASSUME NEW values, NEW r \in Seq(ToSet(s)), r = FlattenSeq(values)
      PROVE  merge_str_list(values) = Listed(ToSet(r) \ {Blank}, r)
  BY Zenon, <1>4, <1>5 DEF merge_str_list, Parts
<1>2. CASE s = <<>>
  <2>1. ToSet(s) = {}
    BY <1>2 DEF ToSet
  <2>2. {<<v>> : v \in ToSet(s)} = {}
    BY <2>1
  <2>3. ticks = <<>>
    BY <2>2
  <2>4. Given(s) \o ticks = <<>>
    BY <1>2, <2>3 DEF Given
  <2>5. <<>> \in Seq(Seq({})) /\ <<>> \in Seq({})
    OBVIOUS
  <2>6. FlattenSeq(<<>>) \in Seq({})
    BY <2>5, FlattenProperties
  <2>7. PICK r : r = FlattenSeq(<<>>)
    OBVIOUS
  <2>8. ToSet(r) = {} /\ r \in Seq({})
    BY <2>6, <2>7, FiniteRange
  <2>9. Listed({}, r) \in Seq({})
    BY <2>8, ListedProperties
  <2>10. Listed({}, r) = <<>>
    BY <2>9
  <2>11. r \in Seq(ToSet(s)) /\ ToSet(r) \ {Blank} = {}
    BY <2>1, <2>8
  <2>12. merge_str_list(<<>>) = Listed({}, r)
    BY <1>5, <2>7, <2>11
  <2>. QED  BY <1>2, <2>4, <2>10, <2>12
<1>3. CASE s # <<>>
  <2>1. PICK S : S = ToSet(s)
    OBVIOUS
  <2>2. s \in Seq(S)
    <3>1. \A k \in 1..Len(s) : s[k] \in S
      BY <1>1, <2>1 DEF ToSet
    <3>. QED  BY <1>1, <3>1
  <2>3. \A v \in S : <<v>> \in Seq(S)
    OBVIOUS
  <2>4. {<<v>> : v \in S} \subseteq Seq(S)
    BY <2>3
  <2>5. ticks \in Seq(Seq(S))
    BY <2>1, <2>4, SeqWider
  <2>6. PICK ss : ss = <<s>> \o ticks
    OBVIOUS
  <2>7. ss \in Seq(Seq(S)) /\ ss # <<>> /\ ss[1] = s
    <3>1. <<s>> \in Seq(Seq(S)) /\ Len(<<s>>) = 1 /\ <<s>>[1] = s
      BY <2>2
    <3>2. /\ ss \in Seq(Seq(S)) /\ Len(ss) = 1 + Len(ticks)
          /\ \A k \in 1..(1 + Len(ticks)) : ss[k] = IF k <= 1 THEN <<s>>[k] ELSE ticks[k - 1]
      BY <2>5, <2>6, <3>1, ConcatProperties
    <3>3. Len(ticks) \in Nat
      BY <2>5
    <3>. QED  BY <3>1, <3>2, <3>3
  <2>8. PICK r : r = FlattenSeq(ss)
    OBVIOUS
  <2>9. r \in Seq(S) /\ Len(r) >= Len(s) /\ \A k \in 1..Len(s) : r[k] = s[k]
    BY <2>7, <2>8, FlattenProperties
  <2>10. ToSet(r) = S
    <3>1. ToSet(r) \subseteq S
      BY <2>9, FiniteRange
    <3>2. ASSUME NEW x \in S  PROVE x \in ToSet(r)
      <4>1. PICK k \in 1..Len(s) : s[k] = x
        BY <1>1, <2>1, FiniteRange
      <4>2. k \in 1..Len(r) /\ r[k] = x /\ DOMAIN r = 1..Len(r)
        <5>1. Len(r) \in Nat /\ Len(s) \in Nat /\ DOMAIN r = 1..Len(r)
          BY <1>1, <2>9
        <5>. QED  BY <2>9, <4>1, <5>1
      <4>. QED  BY <4>2 DEF ToSet
    <3>. QED  BY <3>1, <3>2
  <2>11. Listed(S, r) = s
    BY <1>1, <2>1, <2>9, ListedAgain
  <2>12. Given(s) \o ticks = ss
    BY <1>3, <2>6 DEF Given
  <2>13. ToSet(r) \ {Blank} = S
    BY <1>1, <2>1, <2>10
  <2>14. r \in Seq(ToSet(s))
    BY <2>1, <2>9
  <2>15. merge_str_list(ss) = Listed(S, r)
    BY Zenon, <1>5, <2>8, <2>13, <2>14
  <2>. QED  BY Zenon, <2>11, <2>12, <2>15
<1>. QED  BY <1>2, <1>3

LEMMA NumbersAgain ==
  ASSUME NEW s, Tidy(s), NEW b, \A p \in ToSet(s) : p >= 0 /\ p < b
  PROVE  Numbers(s, b) = s
<1>1. {p \in ToSet(s) : p >= 0 /\ p < b} = ToSet(s)
  OBVIOUS
<1>2. s \in Seq(Int) /\ \A j, k \in 1..Len(s) : s[j] = s[k] => j = k
  BY DEF Tidy
<1>3. \A k \in 1..Len(s) : s[k] \in ToSet(s)
  BY <1>2 DEF ToSet
<1>4. s \in Seq(ToSet(s))
  BY <1>2, <1>3
<1>5. Listed(ToSet(s), s) = s
  <2>1. Len(s) >= Len(s)
    BY <1>2
  <2>. QED  BY <1>2, <1>4, <2>1, ListedAgain
<1>. QED  BY Zenon, <1>1, <1>5 DEF Numbers

LEMMA OnlyPart == \A v \in Seq(Int) : Len(v) = 1 => v[1] \in Int
OBVIOUS

Mos == {"mos_min", "mos_max"}

\* A query string that says what the filters f do, and whatever is ticked.
Says(url, f) ==
  /\ url["from"] = Minutes(f.from) /\ url["to"] = Minutes(f.to)
  /\ \A k \in Texts : url[k] = Given(f.text[k])
  /\ \A k \in Lists : \E ticks \in Seq({<<v>> : v \in ToSet(f.list[k])}) :
                        url[k] = Given(f.list[k]) \o ticks
  /\ \A k \in Bounds \ Mos : url[k] = Number(f.bound[k])
  /\ \A k \in Mos : url[k] = IF f.bound[k] = None THEN <<>> ELSE <<<<Decimal(f.bound[k])>>>>
  /\ url["caller_in"] = <<>> /\ url["called_in"] = <<>> /\ url["page_size"] = <<>>

LEMMA TimeAgain ==
  ASSUME NEW v \in Seq(Int), NEW t, t = parse_dt(v), NEW url \in Query, NEW k \in Keys,
         url[k] = Minutes(t)
  PROVE  parse_dt(First(url, k)) = t
<1>1. CASE t = None
  <2>1. First(url, k) = <<>>
    BY <1>1 DEF First, Minutes
  <2>. QED  BY <1>1, <2>1 DEF parse_dt
<1>2. CASE t # None
  <2>1. t \in Int /\ t >= 0 /\ t % Minute = 0
    <3>1. Len(v) = 1 => v[1] \in Int
      BY OnlyPart
    <3>. QED  BY <1>2, <3>1 DEF parse_dt
  <2>2. t - (t % Minute) = t
    BY <2>1
  <2>3. First(url, k) = <<t>>
    <3>1. url[k] = <<<<t>>>>
      BY <1>2, <2>2 DEF Minutes
    <3>. QED  BY <3>1 DEF First
  <2>. QED  BY <2>1, <2>3 DEF parse_dt
<1>. QED  BY <1>1, <1>2

LEMMA Digits == \A p \in Int : p >= 0 => trim(p) = p
BY SpacedFacts DEF trim

LEMMA NothingParsed == \A b : parse_opt(<<>>, b) = None
BY DEF parse_opt, Blank

LEMMA NumberAgain ==
  ASSUME NEW v \in Seq(Int), NEW b, NEW x, x = parse_opt(v, b), NEW url \in Query, NEW k \in Keys,
         url[k] = Number(x)
  PROVE  parse_opt(First(url, k), b) = x
<1>1. CASE x = None
  <2>1. First(url, k) = <<>>
    BY <1>1 DEF First, Number
  <2>. QED  BY <1>1, <2>1, NothingParsed
<1>2. CASE x # None
  <2>1. PICK y : y = IF Len(v) = 1 THEN trim(v[1]) ELSE Blank
    OBVIOUS
  <2>2. parse_opt(v, b) = IF y >= 0 /\ y < b THEN y ELSE None
    BY <2>1 DEF parse_opt
  <2>3. x = y /\ x >= 0 /\ x < b
    BY <1>2, <2>2
  <2>4. x \in Int
    <3>1. Len(v) = 1 => v[1] \in Int
      BY OnlyPart
    <3>. QED  BY <2>1, <2>3, <3>1, TrimType DEF Blank
  <2>5. First(url, k) = <<x>>
    <3>1. url[k] = <<<<x>>>>
      BY <1>2 DEF Number
    <3>. QED  BY <3>1 DEF First
  <2>6. Len(<<x>>) = 1 /\ trim(<<x>>[1]) = x
    BY <2>3, <2>4, Digits
  <2>. QED  BY <2>3, <2>5, <2>6 DEF parse_opt
<1>. QED  BY <1>1, <1>2

LEMMA TextAgain ==
  ASSUME NEW v \in Seq(Int), NEW x, x = Text(v), NEW url \in Query, NEW k \in Keys,
         url[k] = Given(x)
  PROVE  Text(First(url, k)) = x
<1>1. CASE x = <<>>
  <2>1. First(url, k) = <<>>
    BY <1>1 DEF First, Given
  <2>. QED  BY <1>1, <2>1 DEF Text
<1>2. CASE x # <<>>
  <2>1. x = v /\ v # <<Blank>>
    BY <1>2 DEF Text
  <2>2. First(url, k) = x
    <3>1. url[k] = <<x>>
      BY <1>2 DEF Given
    <3>. QED  BY <3>1 DEF First
  <2>. QED  BY <2>1, <2>2 DEF Text
<1>. QED  BY <1>1, <1>2

\* It is read as the filters that it says, without the rest.
LEMMA ReadAgain ==
  ASSUME NEW old \in Query, NEW f, f = build_filters(old), NEW url \in Query, Says(url, f),
         NEW g, g = build_filters(url)
  PROVE  /\ g.from = f.from /\ g.to = f.to /\ g.text = f.text /\ g.list = f.list
         /\ \A k \in Bounds \ Mos : g.bound[k] = f.bound[k]
         /\ \A k \in Mos : g.bound[k] = None
         /\ g.exact = [caller |-> <<>>, called |-> <<>>] /\ g.page_size = None
<1>1. \A k \in Keys : First(old, k) \in Seq(Int) /\ old[k] \in Seq(Seq(Int))
  BY FirstType DEF Query
<1>2. /\ Texts \subseteq Keys /\ Lists \subseteq Keys /\ Bounds \subseteq Keys
      /\ {"from", "to", "caller_in", "called_in", "page", "page_size"} \subseteq Keys
  BY DEF Keys
<1>3. g.from = f.from /\ g.to = f.to
  <2>1. /\ f.from = parse_dt(First(old, "from")) /\ f.to = parse_dt(First(old, "to"))
        /\ g.from = parse_dt(First(url, "from")) /\ g.to = parse_dt(First(url, "to"))
    BY DEF build_filters
  <2>2. url["from"] = Minutes(f.from) /\ url["to"] = Minutes(f.to)
    BY DEF Says
  <2>. QED  BY <1>1, <1>2, <2>1, <2>2, TimeAgain
<1>4. g.text = f.text
  <2>1. /\ f.text = [k \in Texts |-> Text(First(old, k))]
        /\ g.text = [k \in Texts |-> Text(First(url, k))]
    BY DEF build_filters
  <2>2. ASSUME NEW k \in Texts  PROVE Text(First(url, k)) = Text(First(old, k))
    <3>1. url[k] = Given(Text(First(old, k))) /\ k \in Keys /\ First(old, k) \in Seq(Int)
      BY <1>1, <1>2, <2>1 DEF Says
    <3>. QED  BY <3>1, TextAgain
  <2>. QED  BY <2>1, <2>2
<1>5. g.exact = [caller |-> <<>>, called |-> <<>>]
  <2>1. g.exact = [caller |-> merge_str_list(url["caller_in"]),
                   called |-> Numbers(merge_str_list(url["called_in"]), U32)]
    BY DEF build_filters
  <2>2. url["caller_in"] = <<>> /\ url["called_in"] = <<>>
    BY DEF Says
  <2>3. merge_str_list(<<>>) = <<>> /\ Numbers(<<>>, U32) = <<>>
    <3>1. Tidy(<<>>) /\ ToSet(<<>>) = {}
      BY DEF Tidy, ToSet
    <3>2. <<>> \in Seq({<<v>> : v \in ToSet(<<>>)}) /\ Given(<<>>) \o <<>> = <<>>
      BY DEF Given
    <3>. QED  BY <3>1, <3>2, MergeAgain, NumbersAgain
  <2>. QED  BY <2>1, <2>2, <2>3
<1>6. g.list = f.list
  <2>1. /\ f.list = [k \in Lists |-> LET s == merge_str_list(old[k])
                                     IN IF k \in Ports THEN Numbers(s, 65536) ELSE s]
        /\ g.list = [k \in Lists |-> LET s == merge_str_list(url[k])
                                     IN IF k \in Ports THEN Numbers(s, 65536) ELSE s]
    BY DEF build_filters
  <2>2. ASSUME NEW k \in Lists  PROVE g.list[k] = f.list[k]
    <3>1. PICK s : s = merge_str_list(old[k])
      OBVIOUS
    <3>2. Tidy(s)
      BY <1>1, <1>2, <3>1, MergeClean
    <3>3. f.list[k] = IF k \in Ports THEN Numbers(s, 65536) ELSE s
      BY <2>1, <3>1
    <3>4. PICK r : r = f.list[k]
      OBVIOUS
    <3>5. Tidy(r) /\ (k \in Ports => \A p \in ToSet(r) : p >= 0 /\ p < 65536)
      BY <3>2, <3>3, <3>4, NumbersClean
    <3>6. merge_str_list(url[k]) = r
      <4>1. PICK ticks \in Seq({<<v>> : v \in ToSet(r)}) : url[k] = Given(r) \o ticks
        BY <3>4 DEF Says
      <4>. QED  BY <3>5, <4>1, MergeAgain
    <3>7. g.list[k] = IF k \in Ports THEN Numbers(r, 65536) ELSE r
      BY <2>1, <3>6
    <3>8. k \in Ports => Numbers(r, 65536) = r
      BY <3>5, NumbersAgain
    <3>. QED  BY <3>4, <3>7, <3>8
  <2>. QED  BY <2>1, <2>2
<1>7. /\ \A k \in Bounds \ Mos : g.bound[k] = f.bound[k]
      /\ \A k \in Mos : g.bound[k] = None
  <2>. DEFINE most(k) == IF k \in {"mos_min", "mos_max"} THEN 256 ELSE U32
  <2>1. /\ f.bound = [k \in Bounds |-> parse_opt(First(old, k), most(k))]
        /\ g.bound = [k \in Bounds |-> parse_opt(First(url, k), most(k))]
    BY DEF build_filters
  <2>. HIDE DEF most
  <2>2. ASSUME NEW k \in Bounds \ Mos  PROVE g.bound[k] = f.bound[k]
    <3>1. /\ f.bound[k] = parse_opt(First(old, k), most(k)) /\ First(old, k) \in Seq(Int)
          /\ g.bound[k] = parse_opt(First(url, k), most(k)) /\ k \in Keys
      BY <1>1, <1>2, <2>1
    <3>2. url[k] = Number(f.bound[k])
      BY DEF Says
    <3>. QED  BY <3>1, <3>2, NumberAgain
  <2>3. ASSUME NEW k \in Mos  PROVE g.bound[k] = None
    <3>1. k \in Bounds
      BY DEF Mos, Bounds
    <3>2. /\ f.bound[k] = parse_opt(First(old, k), most(k)) /\ First(old, k) \in Seq(Int)
          /\ g.bound[k] = parse_opt(First(url, k), most(k))
      BY <1>1, <1>2, <2>1, <3>1
    <3>3. url[k] = IF f.bound[k] = None THEN <<>> ELSE <<<<Decimal(f.bound[k])>>>>
      BY DEF Says
    <3>4. CASE f.bound[k] = None
      <4>1. First(url, k) = <<>>
        BY <3>3, <3>4 DEF First
      <4>. QED  BY <3>2, <4>1, NothingParsed
    <3>5. CASE f.bound[k] # None
      <4>1. f.bound[k] \in Nat
        BY <3>2, <3>5, ParseTypes
      <4>2. PICK d : d = Decimal(f.bound[k])
        OBVIOUS
      <4>3. d \in Int /\ d <= -100
        BY <4>1, <4>2 DEF Decimal
      <4>4. trim(d) = d
        BY <4>3, SpacedFacts DEF trim
      <4>5. First(url, k) = <<d>>
        <5>1. url[k] = <<<<d>>>>
          BY <3>3, <3>5, <4>2
        <5>. QED  BY <5>1 DEF First
      <4>. QED  BY <3>2, <4>3, <4>4, <4>5 DEF parse_opt
    <3>. QED  BY <3>4, <3>5
  <2>. QED  BY <2>2, <2>3
<1>8. g.page_size = None
  <2>1. g.page_size = parse_opt(First(url, "page_size"), U32)
    BY DEF build_filters
  <2>2. First(url, "page_size") = <<>>
    BY DEF Says, First
  <2>. QED  BY <2>1, <2>2, NothingParsed
<1>. QED  BY <1>3, <1>4, <1>5, <1>6, <1>7, <1>8

\* The search is the same exactly when there was no rest.
LEMMA SearchAgain ==
  ASSUME NEW f \in Filters, NEW g \in Filters,
         g.from = f.from, g.to = f.to, g.text = f.text, g.list = f.list,
         \A k \in Bounds \ Mos : g.bound[k] = f.bound[k], \A k \in Mos : g.bound[k] = None,
         g.exact = [caller |-> <<>>, called |-> <<>>], g.page_size = None,
         NEW t, NEW tz, NEW m, m = normalized(g, t, tz), NEW n, n = normalized(f, t, tz)
  PROVE  Search(m) = Search(n) <=>
           /\ f.bound["mos_min"] = None /\ f.bound["mos_max"] = None
           /\ f.exact = [caller |-> <<>>, called |-> <<>>] /\ n.page_size = DefaultPageSize
<1>1. /\ m.from = n.from /\ m.to = n.to /\ m.text = n.text /\ m.list = n.list
  BY DEF normalized
<1>2. m.page_size = DefaultPageSize
  BY SizeAssumption DEF normalized
<1>3. m.in = n.in <=> f.exact = [caller |-> <<>>, called |-> <<>>]
  <2>1. PICK a, b : a = Split(f.text["caller"]) /\ b = Numbers(Split(f.text["called"]), U32)
    OBVIOUS
  <2>2. /\ n.in = [caller |-> a \o f.exact.caller, called |-> b \o f.exact.called]
        /\ m.in = [caller |-> a \o g.exact.caller, called |-> b \o g.exact.called]
    BY <2>1 DEF normalized
  <2>3. a \in Seq(Int) /\ b \in Seq(Int)
    <3>1. /\ f.text["caller"] \in Seq(Int) /\ f.text["called"] \in Seq(Int)
      BY DEF Filters, Texts
    <3>2. \A v \in Seq(Int) : Split(v) \in Seq(Int)
      BY PartsType DEF Split
    <3>. QED  BY <2>1, <3>1, <3>2, NumbersType
  <2>4. PICK c, d : c = f.exact.caller /\ d = f.exact.called
    OBVIOUS
  <2>5. c \in Seq(Int) /\ d \in Seq(Int) /\ f.exact = [caller |-> c, called |-> d]
    BY <2>4 DEF Filters
  <2>6. g.exact.caller = <<>> /\ g.exact.called = <<>>
    OBVIOUS
  <2>7. \A x, y \in Seq(Int) : x \o <<>> = x /\ (x \o y = x <=> y = <<>>)
    <3>1. SUFFICES ASSUME NEW x \in Seq(Int), NEW y \in Seq(Int)
                   PROVE  x \o <<>> = x /\ (x \o y = x <=> y = <<>>)
      OBVIOUS
    <3>2. x \o <<>> = x /\ Len(x \o y) = Len(x) + Len(y)
      OBVIOUS
    <3>3. Len(y) = 0 <=> y = <<>>
      OBVIOUS
    <3>4. Len(x) \in Nat /\ Len(y) \in Nat
      OBVIOUS
    <3>. QED  BY <3>2, <3>3, <3>4
  <2>8. m.in = [caller |-> a, called |-> b] /\ n.in = [caller |-> a \o c, called |-> b \o d]
    BY <2>2, <2>3, <2>4, <2>6, <2>7
  <2>9. m.in = n.in <=> a \o c = a /\ b \o d = b
    <3>1. PICK x, y : x = a \o c /\ y = b \o d
      OBVIOUS
    <3>2. [caller |-> a, called |-> b] = [caller |-> x, called |-> y] <=> x = a /\ y = b
      OBVIOUS
    <3>. QED  BY Zenon, <2>8, <3>1, <3>2
  <2>. QED  BY <2>3, <2>5, <2>7, <2>9
<1>4. m.bound = n.bound <=> f.bound["mos_min"] = None /\ f.bound["mos_max"] = None
  <2>. DEFINE tenths(k, v) == IF k \in {"mos_min", "mos_max"} /\ v # None THEN 10 * v ELSE v
  <2>1. /\ m.bound = [k \in Bounds |-> tenths(k, g.bound[k])]
        /\ n.bound = [k \in Bounds |-> tenths(k, f.bound[k])]
    BY DEF normalized
  <2>2. \A k \in Bounds \ Mos : tenths(k, g.bound[k]) = tenths(k, f.bound[k])
    OBVIOUS
  <2>3. ASSUME NEW k \in Mos
        PROVE  tenths(k, g.bound[k]) = tenths(k, f.bound[k]) <=> f.bound[k] = None
    <3>1. f.bound[k] \in Maybe /\ g.bound[k] = None
      BY DEF Filters, Mos, Bounds
    <3>2. f.bound[k] # None => f.bound[k] \in Int /\ 10 * f.bound[k] \in Int
      BY <3>1 DEF Maybe
    <3>. QED  BY <3>1, <3>2, NoneAssumption DEF Mos
  <2>4. Mos \subseteq Bounds /\ Mos = {"mos_min", "mos_max"}
    BY DEF Mos, Bounds
  <2>. HIDE DEF tenths
  <2>5. m.bound = n.bound <=> \A k \in Mos : tenths(k, g.bound[k]) = tenths(k, f.bound[k])
    BY <2>1, <2>2, <2>4
  <2>. QED  BY <2>3, <2>4, <2>5
<1>5. Search(m) = Search(n) <=> m.in = n.in /\ m.bound = n.bound /\ m.page_size = n.page_size
  BY <1>1 DEF Search
<1>. QED  BY Zenon, <1>2, <1>3, <1>4, <1>5

LEMMA LinksSay ==
  ASSUME PageInv, view # None
  PROVE  Says(next_url(view), view.f) /\ Says(prev_url(view), view.f) /\ Says(inputs(view), view.f)
<1>. DEFINE e == export_query(view.f)
<1>1. /\ Sound(view, view.asked) /\ view.f \in Filters
      /\ \A k \in Distinct : view.chips[k] \in ChipsOf(view.n, k)
  BY SoundTypes DEF PageInv, Rendered
<1>2. /\ e["from"] = Minutes(view.f.from) /\ e["to"] = Minutes(view.f.to)
      /\ e["caller_in"] = <<>> /\ e["called_in"] = <<>> /\ e["page_size"] = <<>>
  BY DEF export_query, Keys, Texts, Lists, Addresses, Ports, Bounds
<1>3. \A k \in Texts : e[k] = Given(view.f.text[k])
  BY DEF export_query, Keys, Texts, Lists, Addresses, Ports, Bounds
<1>4. \A k \in Lists : e[k] = Given(view.f.list[k])
  BY DEF export_query, Keys, Texts, Lists, Addresses, Ports, Bounds
<1>5. /\ \A k \in Bounds \ Mos : e[k] = Number(view.f.bound[k])
      /\ \A k \in Mos : e[k] = IF view.f.bound[k] = None THEN <<>>
                               ELSE <<<<Decimal(view.f.bound[k])>>>>
  <2>1. \A k \in Mos : e[k] = IF view.f.bound[k] = None THEN <<>>
                              ELSE <<<<Decimal(view.f.bound[k])>>>>
    BY DEF export_query, Keys, Texts, Lists, Addresses, Ports, Bounds, Mos
  <2>2. /\ e["duration_min"] = Number(view.f.bound["duration_min"])
        /\ e["duration_max"] = Number(view.f.bound["duration_max"])
    BY DEF export_query, Keys, Texts, Lists, Addresses, Ports, Bounds
  <2>3. Bounds \ Mos = {"duration_min", "duration_max"}
    BY DEF Bounds, Mos
  <2>. HIDE DEF e
  <2>. QED  BY <2>1, <2>2, <2>3
<1>7. e = [k \in Keys |-> e[k]]
  BY DEF export_query
<1>. HIDE DEF e
<1>8. ASSUME NEW url,
             \A k \in Keys \ ({"page", "tz_offset_secs"} \cup Distinct) : url[k] = e[k],
             \A k \in Distinct : \E ticks \in Seq({<<v>> : v \in ToSet(view.f.list[k])}) :
                                   url[k] = e[k] \o ticks
      PROVE  Says(url, view.f)
  <2>1. url["from"] = Minutes(view.f.from) /\ url["to"] = Minutes(view.f.to)
    BY <1>2, <1>8 DEF Keys, Distinct, Addresses
  <2>2. /\ url["caller_in"] = <<>> /\ url["called_in"] = <<>> /\ url["page_size"] = <<>>
    BY <1>2, <1>8 DEF Keys, Distinct, Addresses
  <2>3. ASSUME NEW k \in Texts  PROVE url[k] = Given(view.f.text[k])
    <3>1. url[k] = e[k]
      BY <1>8 DEF Keys, Texts, Distinct, Addresses
    <3>. QED  BY <1>3, <3>1
  <2>4. ASSUME NEW k \in Lists
        PROVE  \E ticks \in Seq({<<v>> : v \in ToSet(view.f.list[k])}) :
                 url[k] = Given(view.f.list[k]) \o ticks
    <3>1. CASE k \in Distinct
      BY <1>4, <1>8, <3>1
    <3>2. CASE k \notin Distinct
      <4>1. url[k] = e[k]
        BY <1>8, <3>2 DEF Keys, Lists, Ports, Addresses, Distinct
      <4>2. url[k] = Given(view.f.list[k])
        BY <1>4, <4>1
      <4>3. Given(view.f.list[k]) \o <<>> = Given(view.f.list[k])
        <5>1. view.f.list[k] \in Seq(Int)
          BY <1>1 DEF Filters
        <5>2. Given(view.f.list[k]) \in Seq(Seq(Int))
          BY <5>1 DEF Given
        <5>. QED  BY <5>2
      <4>4. <<>> \in Seq({<<v>> : v \in ToSet(view.f.list[k])})
        OBVIOUS
      <4>. QED  BY <4>2, <4>3, <4>4
    <3>. QED  BY <3>1, <3>2
  <2>5. \A k \in Bounds : url[k] = e[k]
    BY <1>8 DEF Keys, Bounds, Distinct, Addresses
  <2>6. \A k \in Bounds \ Mos : url[k] = Number(view.f.bound[k])
    BY <1>5, <2>5
  <2>7. \A k \in Mos : url[k] = IF view.f.bound[k] = None THEN <<>>
                              ELSE <<<<Decimal(view.f.bound[k])>>>>
    <3>1. Mos \subseteq Bounds
      BY DEF Mos, Bounds
    <3>. QED  BY <1>5, <2>5, <3>1
  <2>. QED  BY <2>1, <2>2, <2>3, <2>4, <2>6, <2>7 DEF Says
<1>9. \A k \in Distinct : view.chips[k] \in Seq({<<v>> : v \in ToSet(view.f.list[k])})
  <2>1. SUFFICES ASSUME NEW k \in Distinct
                 PROVE  view.chips[k] \in Seq({<<v>> : v \in ToSet(view.f.list[k])})
    OBVIOUS
  <2>2. view.n = normalized(view.f, view.asked, view.tz)
    BY <1>1 DEF Sound
  <2>3. ToSet(view.n.list[k]) \subseteq ToSet(view.f.list[k])
    BY <1>1, <2>2, NormalLists
  <2>4. {<<v>> : v \in ToSet(view.n.list[k])} \subseteq {<<v>> : v \in ToSet(view.f.list[k])}
    BY <2>3
  <2>5. view.chips[k] \in Seq({<<v>> : v \in ToSet(view.n.list[k])})
    BY <1>1 DEF ChipsOf
  <2>. QED  BY <2>4, <2>5, SeqWider
<1>10. ASSUME NEW p  PROVE Says(Page(e, p), view.f)
  <2>1. \A k \in Keys \ {"page"} : Page(e, p)[k] = e[k]
    BY <1>7 DEF Page
  <2>2. ASSUME NEW k \in Distinct
        PROVE  \E ticks \in Seq({<<v>> : v \in ToSet(view.f.list[k])}) :
                 Page(e, p)[k] = e[k] \o ticks
    <3>1. k \in Lists /\ k \in Keys /\ k # "page"
      BY DEF Distinct, Lists, Keys, Addresses
    <3>2. e[k] \in Seq(Seq(Int))
      <4>1. view.f.list[k] \in Seq(Int)
        BY <1>1, <3>1 DEF Filters
      <4>2. Given(view.f.list[k]) \in Seq(Seq(Int))
        BY <4>1 DEF Given
      <4>. QED  BY <1>4, <3>1, <4>2
    <3>3. Page(e, p)[k] = e[k] \o <<>>
      BY <2>1, <3>1, <3>2
    <3>4. <<>> \in Seq({<<v>> : v \in ToSet(view.f.list[k])})
      OBVIOUS
    <3>. QED  BY <3>3, <3>4
  <2>. QED  BY <1>8, <2>1, <2>2
<1>11. Says(inputs(view), view.f)
  <2>1. PICK u : u = inputs(view)
    OBVIOUS
  <2>2. /\ \A k \in Keys \ Distinct : u[k] = e[k]
        /\ \A k \in Distinct : u[k] = e[k] \o view.chips[k]
    BY <1>7, <2>1 DEF inputs, e, Distinct, Addresses, Keys, Lists
  <2>3. ASSUME NEW k \in Distinct
        PROVE  \E ticks \in Seq({<<v>> : v \in ToSet(view.f.list[k])}) : u[k] = e[k] \o ticks
    BY <1>9, <2>2
  <2>. QED  BY <1>8, <2>1, <2>2, <2>3
<1>. QED  BY <1>10, <1>11 DEF next_url, prev_url, e

\* Without a blank in a text, the encoding of the form changes nothing.
LEMMA FormSays ==
  ASSUME PageInv, view # None,
         \A k \in Texts : Unspaced(view.f.text[k]), \A k \in Lists : Unspaced(view.f.list[k])
  PROVE  Says(form_url(view), view.f)
<1>. DEFINE i == inputs(view)
            u == form_url(view)
            Plain(values) == \A j \in DOMAIN values : Unspaced(values[j])
<1>1. i \in Query /\ Says(i, view.f)
  BY LinksType, LinksSay
<1>2. /\ view.f \in Filters /\ view.f = build_filters(view.url) /\ view.url \in Query
  BY SoundTypes DEF PageInv, Rendered, Sound
<1>3. /\ u = [[k \in Keys |-> form_encoded(i[k])] EXCEPT !["tz_offset_secs"] = <<<<view.tz>>>>]
      /\ "tz_offset_secs" \in Keys
  BY DEF form_url, Keys
<1>. HIDE DEF i, u
<1>4. \A k \in Keys \ {"tz_offset_secs"} : u[k] = form_encoded(i[k])
  BY <1>3
<1>5. ASSUME NEW values \in Seq(Seq(Int)), Plain(values)
      PROVE  form_encoded(values) = values
  <2>1. ASSUME NEW j \in DOMAIN values
        PROVE  [x \in DOMAIN values[j] |->
                  IF values[j][x] \in Spaced THEN Plussed[values[j][x]] ELSE values[j][x]] = values[j]
    <3>1. PICK v \in Seq(Int) : v = values[j]
      OBVIOUS
    <3>2. \A x \in DOMAIN v : v[x] \notin Spaced
      BY <1>5, <3>1 DEF Unspaced
    <3>3. v = [x \in DOMAIN v |-> v[x]]
      OBVIOUS
    <3>. QED  BY <3>1, <3>2, <3>3
  <2>2. values = [j \in DOMAIN values |-> values[j]]
    OBVIOUS
  <2>. QED  BY <2>1, <2>2 DEF form_encoded
<1>6. ASSUME NEW p \in Int, p >= -1 \/ p <= -100
      PROVE  Plain(<<<<p>>>>)
  <2>1. p \notin Spaced
    BY <1>6, SpacedFacts
  <2>. QED  BY <2>1 DEF Unspaced
<1>7. Plain(<<>>)
  OBVIOUS
<1>8. ASSUME NEW t \in Int, t >= 0  PROVE Plain(Minutes(t)) /\ Plain(Number(t))
  <2>1. t - (t % Minute) \in Int /\ t - (t % Minute) >= 0
    <3>1. Minute \in Int /\ Minute > 0
      BY SizeAssumption
    <3>2. PICK q : q = t \div Minute
      OBVIOUS
    <3>3. PICK r : r = t % Minute
      OBVIOUS
    <3>4. r \in Int /\ r <= t
      BY <1>8, <3>1, <3>3
    <3>. QED  BY <3>3, <3>4
  <2>2. Plain(<<<<t - (t % Minute)>>>>) /\ Plain(<<<<t>>>>)
    BY <1>6, <1>8, <2>1
  <2>3. t # None
    BY NoneAssumption
  <2>. QED  BY <2>2, <2>3 DEF Minutes, Number
<1>9. \A k \in {"from", "to"} : Plain(i[k])
  <2>1. \A v \in Seq(Int) : parse_dt(v) # None => parse_dt(v) \in Int /\ parse_dt(v) >= 0
    <3>1. \A v \in Seq(Int) : Len(v) = 1 => v[1] \in Int
      OBVIOUS
    <3>. QED  BY <3>1 DEF parse_dt
  <2>2. /\ view.f.from = parse_dt(First(view.url, "from")) /\ First(view.url, "from") \in Seq(Int)
        /\ view.f.to = parse_dt(First(view.url, "to")) /\ First(view.url, "to") \in Seq(Int)
    BY <1>2, FirstType DEF build_filters, Keys
  <2>3. Plain(Minutes(view.f.from)) /\ Plain(Minutes(view.f.to))
    <3>1. Plain(Minutes(None))
      BY <1>7 DEF Minutes
    <3>. QED  BY <1>8, <2>1, <2>2, <3>1
  <2>4. i["from"] = Minutes(view.f.from) /\ i["to"] = Minutes(view.f.to)
    BY <1>1 DEF Says
  <2>. QED  BY <2>3, <2>4
<1>10. \A k \in Texts : Plain(i[k])
  <2>1. SUFFICES ASSUME NEW k \in Texts  PROVE Plain(i[k])
    OBVIOUS
  <2>2. i[k] = Given(view.f.text[k]) /\ Unspaced(view.f.text[k])
    BY <1>1 DEF Says
  <2>. QED  BY <2>2 DEF Given
<1>11. \A k \in Lists : Plain(i[k])
  <2>1. SUFFICES ASSUME NEW k \in Lists  PROVE Plain(i[k])
    OBVIOUS
  <2>2. PICK s \in Seq(Int) : s = view.f.list[k]
    BY <1>2 DEF Filters
  <2>3. PICK ticks \in Seq({<<v>> : v \in ToSet(s)}) : i[k] = Given(s) \o ticks
    BY <1>1, <2>2 DEF Says
  <2>4. Unspaced(s) /\ \A v \in ToSet(s) : v \notin Spaced
    BY <2>2 DEF Unspaced, ToSet
  <2>5. ASSUME NEW j \in 1..Len(ticks)  PROVE Unspaced(ticks[j])
    <3>1. ticks[j] \in {<<v>> : v \in ToSet(s)}
      OBVIOUS
    <3>2. PICK v \in ToSet(s) : ticks[j] = <<v>>
      BY <3>1
    <3>3. v \notin Spaced
      BY <2>4
    <3>. QED  BY <3>2, <3>3 DEF Unspaced
  <2>6. ticks \in Seq(Seq(Int)) /\ Given(s) \in Seq(Seq(Int))
    <3>1. ToSet(s) \subseteq Int
      BY FiniteRange
    <3>2. \A v \in Int : <<v>> \in Seq(Int)
      OBVIOUS
    <3>3. {<<v>> : v \in ToSet(s)} \subseteq Seq(Int)
      BY <3>1, <3>2
    <3>4. Given(s) \in Seq(Seq(Int))
      BY DEF Given
    <3>. QED  BY <3>3, <3>4, SeqWider
  <2>7. \A j \in 1..Len(Given(s)) : Unspaced(Given(s)[j])
    BY <2>4 DEF Given
  <2>8. PICK g \in Seq(Seq(Int)) : g = Given(s)
    BY <2>6
  <2>9. PICK w : w = g \o ticks
    OBVIOUS
  <2>10. /\ w \in Seq(Seq(Int)) /\ Len(w) = Len(g) + Len(ticks)
         /\ \A j \in 1..(Len(g) + Len(ticks)) : w[j] = IF j <= Len(g) THEN g[j] ELSE ticks[j - Len(g)]
    BY <2>6, <2>9, ConcatProperties
  <2>11. Len(g) \in Nat /\ Len(ticks) \in Nat
    BY <2>6, <2>8
  <2>12. ASSUME NEW j \in 1..Len(w)  PROVE Unspaced(w[j])
    <3>1. CASE j <= Len(g)
      <4>1. j \in 1..Len(g) /\ w[j] = g[j]
        BY <2>10, <2>11, <3>1
      <4>2. \A x \in 1..Len(g) : Unspaced(g[x])
        BY Zenon, <2>7, <2>8
      <4>. QED  BY Zenon, <4>1, <4>2
    <3>2. CASE ~(j <= Len(g))
      <4>1. j - Len(g) \in 1..Len(ticks) /\ w[j] = ticks[j - Len(g)]
        BY <2>10, <2>11, <3>2
      <4>. QED  BY <2>5, <4>1
    <3>. QED  BY <3>1, <3>2
  <2>13. DOMAIN w = 1..Len(w)
    BY <2>10
  <2>14. Plain(w)
    BY <2>12, <2>13
  <2>. QED  BY <2>3, <2>8, <2>9, <2>14
<1>12. \A k \in Bounds : Plain(i[k])
  <2>1. SUFFICES ASSUME NEW k \in Bounds  PROVE Plain(i[k])
    OBVIOUS
  <2>2. PICK x : x = view.f.bound[k]
    OBVIOUS
  <2>3. \/ k \notin Mos /\ i[k] = Number(x)
        \/ k \in Mos /\ i[k] = IF x = None THEN <<>> ELSE <<<<Decimal(x)>>>>
    BY <1>1, <2>2 DEF Says
  <2>4. x # None => x \in Nat
    <3>1. \E b : x = parse_opt(First(view.url, k), b)
      BY <1>2, <2>2 DEF build_filters
    <3>2. First(view.url, k) \in Seq(Int)
      BY <1>2, FirstType DEF Keys
    <3>. QED  BY <3>1, <3>2, ParseTypes
  <2>5. CASE x = None
    <3>1. i[k] = <<>>
      BY <2>3, <2>5 DEF Number
    <3>. QED  BY <1>7, <3>1
  <2>6. CASE x # None
    <3>1. Plain(Number(x))
      BY <1>8, <2>4, <2>6
    <3>2. PICK d : d = Decimal(x)
      OBVIOUS
    <3>3. d \in Int /\ d <= -100
      BY <2>4, <2>6, <3>2 DEF Decimal
    <3>4. Plain(<<<<d>>>>)
      BY <1>6, <3>3
    <3>. QED  BY <2>3, <2>6, <3>1, <3>2, <3>4
  <2>. QED  BY <2>5, <2>6
<1>13. \A k \in {"caller_in", "called_in", "page_size"} : Plain(i[k])
  BY <1>1, <1>7 DEF Says
<1>14. ASSUME NEW k \in {"from", "to", "caller_in", "called_in", "page_size"}
                            \cup Texts \cup Lists \cup Bounds
       PROVE  u[k] = i[k]
  <2>1. k \in Keys /\ k # "tz_offset_secs"
    BY DEF Keys, Texts, Lists, Addresses, Ports, Bounds
  <2>2. Plain(i[k])
    BY <1>9, <1>10, <1>11, <1>12, <1>13
  <2>3. i[k] \in Seq(Seq(Int))
    BY <1>1, <2>1 DEF Query
  <2>. QED  BY <1>4, <1>5, <2>1, <2>2, <2>3
<1>15. Mos \subseteq Bounds
  BY DEF Mos, Bounds
<1>16. Says(u, view.f)
  <2>1. \A k \in Bounds : u[k] = i[k]
    BY <1>14
  <2>2. \A k \in Texts : u[k] = i[k]
    BY <1>14
  <2>3. \A k \in Lists : u[k] = i[k]
    BY <1>14
  <2>4. \A k \in {"from", "to", "caller_in", "called_in", "page_size"} : u[k] = i[k]
    BY <1>14
  <2>. QED  BY <1>1, <1>15, <2>1, <2>2, <2>3, <2>4 DEF Says
<1>. QED  BY <1>16 DEF u

\* The zone: of the session for the links, that of the page for the form.
LEMMA LinkZones ==
  ASSUME PageInv, view # None
  PROVE  /\ QueryZone(next_url(view)) = None /\ QueryZone(prev_url(view)) = None
         /\ QueryZone(form_url(view)) = view.tz
<1>. DEFINE e == export_query(view.f)
<1>1. /\ e = [k \in Keys |-> e[k]]
      /\ e["tz_offset_secs"] = <<>> /\ e["tz_offset_hours"] = <<>>
  BY DEF export_query, Keys, Texts, Lists, Addresses, Ports, Bounds
<1>2. {"tz_offset_secs", "tz_offset_hours", "page"} \subseteq Keys
  BY DEF Keys
<1>. HIDE DEF e
<1>3. \A p : Page(e, p)["tz_offset_secs"] = <<>> /\ Page(e, p)["tz_offset_hours"] = <<>>
  BY <1>1, <1>2 DEF Page
<1>4. \A p : QueryZone(Page(e, p)) = None
  <2>1. SUFFICES ASSUME NEW p  PROVE QueryZone(Page(e, p)) = None
    OBVIOUS
  <2>2. First(Page(e, p), "tz_offset_hours") = <<>>
    BY <1>3 DEF First
  <2>. QED  BY <1>3, <2>2 DEF QueryZone
<1>5. QueryZone(form_url(view)) = view.tz
  <2>1. form_url(view)["tz_offset_secs"] = <<<<view.tz>>>>
    BY <1>2 DEF form_url
  <2>2. First(form_url(view), "tz_offset_secs") = <<view.tz>>
    BY <2>1 DEF First
  <2>. QED  BY <2>1, <2>2 DEF QueryZone
<1>. QED  BY <1>4, <1>5 DEF next_url, prev_url, e

LEMMA Kept ==
  ASSUME PageInv, view # None, NEW url \in Query, Says(url, view.f)
  PROVE  KeepsFilters(url) /\ (Reread(url).tz = view.tz => KeepsSearch(url))
<1>1. /\ view.url \in Query /\ view.f = build_filters(view.url)
      /\ view.n = normalized(view.f, view.asked, view.tz)
  BY DEF PageInv, Rendered, Sound
<1>2. PICK g, tz : g = build_filters(url) /\ tz = resolve_tz(view.session, QueryZone(url))
  OBVIOUS
<1>3. view.f \in Filters /\ g \in Filters
  BY <1>1, <1>2, FilterTypes
<1>4. /\ g.from = view.f.from /\ g.to = view.f.to /\ g.text = view.f.text /\ g.list = view.f.list
      /\ \A k \in Bounds \ Mos : g.bound[k] = view.f.bound[k]
      /\ \A k \in Mos : g.bound[k] = None
      /\ g.exact = [caller |-> <<>>, called |-> <<>>] /\ g.page_size = None
  BY <1>1, <1>2, ReadAgain
<1>5. /\ Reread(url).f = g /\ Reread(url).tz = tz
      /\ Reread(url).n = normalized(g, view.asked, tz)
  BY <1>2 DEF Reread
<1>6. KeepsFilters(url)
  <2>1. {"duration_min", "duration_max"} \subseteq Bounds \ Mos
    BY DEF Bounds, Mos
  <2>2. Written(g) = Written(view.f)
    BY <1>4, <2>1 DEF Written
  <2>. QED  BY Zenon, <1>5, <2>2 DEF KeepsFilters
<1>7. ASSUME tz = view.tz  PROVE KeepsSearch(url)
  <2>1. PICK m : m = normalized(g, view.asked, view.tz)
    OBVIOUS
  <2>2. Search(m) = Search(view.n) <=>
           /\ view.f.bound["mos_min"] = None /\ view.f.bound["mos_max"] = None
           /\ view.f.exact = [caller |-> <<>>, called |-> <<>>]
           /\ view.n.page_size = DefaultPageSize
    BY <1>1, <1>3, <1>4, <2>1, SearchAgain
  <2>3. Reread(url).n = m /\ Reread(url).tz = view.tz
    BY Zenon, <1>5, <1>7, <2>1
  <2>. QED  BY Zenon, <2>2, <2>3 DEF KeepsSearch, AllWritten
<1>. QED  BY <1>5, <1>6, <1>7

LEMMA LinksHold == PageInv => LinksKeepSearch
<1>1. SUFFICES ASSUME PageInv, view # None
      PROVE /\ \A url \in {next_url(view), prev_url(view)} :
                 /\ KeepsFilters(url)
                 /\ QueryZone(view.url) \in {None, 0} => KeepsSearch(url)
            /\ (\A k \in Texts : Unspaced(view.f.text[k]))
                 /\ (\A k \in Lists : Unspaced(view.f.list[k]))
                 => /\ KeepsFilters(form_url(view))
                    /\ ZoneOfADay => KeepsSearch(form_url(view))
  BY DEF LinksKeepSearch
<1>2. /\ view.session \in Maybe /\ view.tz = resolve_tz(view.session, QueryZone(view.url))
  BY <1>1, ZoneTypes DEF PageInv, Rendered, Sound
<1>3. ASSUME NEW url \in {next_url(view), prev_url(view)}
      PROVE  KeepsFilters(url) /\ (QueryZone(view.url) \in {None, 0} => KeepsSearch(url))
  <2>1. url \in Query /\ Says(url, view.f) /\ QueryZone(url) = None
    BY <1>1, <1>3, LinksType, LinksSay, LinkZones
  <2>2. Reread(url).tz = resolve_tz(view.session, None)
    BY <2>1 DEF Reread
  <2>3. QueryZone(view.url) \in {None, 0} => resolve_tz(view.session, None) = view.tz
    BY <1>2 DEF resolve_tz
  <2>. QED  BY <1>1, <2>1, <2>2, <2>3, Kept
<1>4. ASSUME \A k \in Texts : Unspaced(view.f.text[k]), \A k \in Lists : Unspaced(view.f.list[k])
      PROVE  KeepsFilters(form_url(view)) /\ (ZoneOfADay => KeepsSearch(form_url(view)))
  <2>1. form_url(view) \in Query /\ Says(form_url(view), view.f)
    BY <1>1, <1>4, LinksType, FormSays
  <2>2. Reread(form_url(view)).tz = resolve_tz(view.session, view.tz)
    BY <1>1, LinkZones DEF Reread
  <2>3. ZoneOfADay => resolve_tz(view.session, view.tz) = view.tz
    BY <1>1, <1>2, ZoneAgain DEF ZoneOfADay
  <2>. QED  BY <1>1, <2>1, <2>2, <2>3, Kept
<1>. QED  BY <1>3, <1>4

\* What the links of a page and its form, encoded as the browser does, write
\* is read by parse_query_params, build_filters and resolve_tz as the filters
\* and the search of the page, as far as LinksKeepSearch says.
THEOREM LinksKeepTheSearch == Spec => []LinksKeepSearch
<1>1. PageInv => LinksKeepSearch
  BY LinksHold
<1>. QED  BY <1>1, PageInvariant, PTL

-----------------------------------------------------------------------------
(* Nothing is missed.                                                      *)

\* Of the calls that the walk has to show, those that it has not shown are
\* behind the rows, and at places of the list beyond a bound.
Covered(n, tz, more, rows, bound) ==
  \A c \in walk.start \cap Table \cap Selected(n, tz, ip_shape) :
    \/ c \in walk.seen
    \/ /\ more /\ \A d \in rows : Place(Order, d) < Place(Order, c)
       /\ Pos(c, Selected(n, tz, ip_shape) \cap Table) > bound

\* Before the page of n, and after p is that page.
Before(n, tz) ==
  /\ (n.page - 1) * n.page_size <= Len(Order)
  /\ Covered(n, tz, TRUE, {}, (n.page - 1) * n.page_size)

After(n, tz, p) ==
  /\ p.has_more => n.page * n.page_size < Len(Order)
  /\ Covered(n, tz, p.has_more, ToSet(p.rows), n.page * n.page_size)

Walking(n, tz) == walk.whole /\ walk.search = Search(n) /\ walk.tz = tz

WalkType == /\ calls = [c \in Cdr |-> calls[c]]
           /\ walk = [search |-> walk.search, tz |-> walk.tz, start |-> walk.start,
                      seen |-> walk.seen, whole |-> walk.whole]
           /\ walk.start \subseteq Cdr /\ \A c \in walk.start : calls[c] # "talking"

Asked == req # None /\ Walking(req.n, req.tz) => Before(req.n, req.tz)

Paged == page # None /\ walk.whole => Walking(req.n, req.tz) /\ After(req.n, req.tz, page)

Viewed == view # None /\ req = None /\ walk.whole =>
            Walking(view.n, view.tz) /\ After(view.n, view.tz, view)

WalkInv == PageInv /\ WalkType /\ Asked /\ Paged /\ Viewed

LEMMA OrderPlaces ==
  /\ IsFiniteSet(Cdr)
  /\ \A c \in Cdr : Place(Order, c) \in Int
  /\ \A c, d \in Cdr : Place(Order, c) = Place(Order, d) => c = d
<1>1. Order \in Seq(Nat) /\ Cdr = ToSet(Order)
  BY OrderAssumption DEF Cdr
<1>2. \A c \in Cdr : Place(Order, c) \in 1..Len(Order) /\ Order[Place(Order, c)] = c
  BY <1>1, PlaceProperties
<1>3. IsFiniteSet(Cdr)
  BY <1>1, FiniteRange
<1>. QED  BY <1>2, <1>3

LEMMA PosType ==
  ASSUME NEW S, S \subseteq Cdr, NEW c \in S
  PROVE  Pos(c, S) \in Nat /\ Pos(c, S) >= 1
<1>. DEFINE U == {d \in S : Place(Order, d) <= Place(Order, c)}
<1>1. IsFiniteSet(U)
  <2>1. U \subseteq Cdr
    OBVIOUS
  <2>. QED  BY <2>1, OrderPlaces, FS_Subset
<1>2. c \in U
  BY OrderPlaces
<1>3. Cardinality(U) \in Nat /\ Cardinality(U) # 0
  BY <1>1, <1>2, FS_CardinalityType, FS_EmptySet
<1>4. Pos(c, S) = Cardinality(U)
  BY DEF Pos
<1>. HIDE DEF U
<1>. QED  BY <1>3, <1>4

LEMMA PosGrows ==
  ASSUME NEW S, NEW T, S \subseteq Cdr, T \subseteq Cdr, NEW c \in Cdr,
         \A d \in S : Place(Order, d) <= Place(Order, c) => d \in T
  PROVE  Pos(c, S) \in Nat /\ Pos(c, T) \in Nat /\ Pos(c, S) <= Pos(c, T)
<1>. DEFINE U == {d \in S : Place(Order, d) <= Place(Order, c)}
            V == {d \in T : Place(Order, d) <= Place(Order, c)}
<1>1. U \subseteq V /\ V \subseteq Cdr
  OBVIOUS
<1>2. Pos(c, S) = Cardinality(U) /\ Pos(c, T) = Cardinality(V)
  BY DEF Pos
<1>. HIDE DEF U, V
<1>3. IsFiniteSet(V)
  BY <1>1, OrderPlaces, FS_Subset
<1>4. IsFiniteSet(U) /\ Cardinality(U) <= Cardinality(V)
  BY <1>1, <1>3, FS_Subset
<1>. QED  BY <1>2, <1>3, <1>4, FS_CardinalityType

\* Calls that come and go leave behind the page what was behind it.
LEMMA CoveredKept ==
  ASSUME WalkType, NEW x \in Cdr, CallEnds(x) \/ Clean(x),
         NEW n, NEW tz, NEW more, NEW rows, NEW bound \in Int,
         Covered(n, tz, more, rows, bound)
  PROVE  Covered(n, tz, more, rows, bound)'
<1>1. UNCHANGED <<walk, ip_shape>>
  BY DEF CallEnds, Clean, browser
<1>2. PICK S, Z : S = Selected(n, tz, ip_shape) /\ Z = Table
  OBVIOUS
<1>3. PICK Zp : Zp = Table'
  OBVIOUS
<1>4. S \subseteq Cdr /\ Z \subseteq Cdr /\ Zp \subseteq Cdr
  BY <1>2, <1>3 DEF Selected, Table
<1>5. \A c \in Zp : c \in walk.start => c \in Z
  <2>1. CASE CallEnds(x)
    BY <1>2, <1>3, <2>1 DEF CallEnds, Table, WalkType
  <2>2. CASE Clean(x)
    BY <1>2, <1>3, <2>2 DEF Clean, Table, WalkType
  <2>. QED  BY <2>1, <2>2
<1>6. \A c \in Zp \cap Z, d \in Z : Place(Order, d) <= Place(Order, c) => d \in Zp
  <2>1. CASE CallEnds(x)
    BY <1>2, <1>3, <2>1 DEF CallEnds, Table, WalkType
  <2>2. CASE Clean(x)
    <3>1. Zp = Z \ {x}
      BY <1>2, <1>3, <2>2 DEF Clean, Table, WalkType
    <3>2. x \in Z /\ \A d \in Z : Place(Order, d) <= Place(Order, x)
      BY <1>2, <2>2 DEF Clean
    <3>3. SUFFICES ASSUME NEW c \in Z \ {x}  PROVE ~(Place(Order, x) <= Place(Order, c))
      BY <3>1
    <3>4. Place(Order, c) <= Place(Order, x) /\ Place(Order, c) # Place(Order, x)
      BY <1>4, <3>2, <3>3, OrderPlaces
    <3>5. Place(Order, c) \in Int /\ Place(Order, x) \in Int
      BY <1>4, <3>2, <3>3, OrderPlaces
    <3>. QED  BY <3>4, <3>5
  <2>. QED  BY <2>1, <2>2
<1>7. SUFFICES ASSUME NEW c \in walk.start \cap Zp \cap S, c \notin walk.seen
      PROVE  /\ more /\ \A d \in rows : Place(Order, d) < Place(Order, c)
             /\ Pos(c, S \cap Zp) > bound
  BY <1>1, <1>2, <1>3 DEF Covered
<1>8. c \in walk.start \cap Z \cap S
  BY <1>5
<1>9. /\ more /\ \A d \in rows : Place(Order, d) < Place(Order, c)
      /\ Pos(c, S \cap Z) > bound
  BY <1>2, <1>7, <1>8 DEF Covered
<1>10. Pos(c, S \cap Z) \in Nat /\ Pos(c, S \cap Zp) \in Nat /\ Pos(c, S \cap Z) <= Pos(c, S \cap Zp)
  <2>1. \A d \in S \cap Z : Place(Order, d) <= Place(Order, c) => d \in S \cap Zp
    BY <1>6, <1>7, <1>8
  <2>. QED  BY <1>4, <1>8, <2>1, PosGrows
<1>. QED  BY <1>9, <1>10

LEMMA OneLess == \A p, s \in Int : (p - 1) * s + s = p * s
OBVIOUS

\* Bounds are integers.
LEMMA BoundTypes ==
  ASSUME NEW q, NEW t, Sound(q, t)
  PROVE  /\ (q.n.page - 1) * q.n.page_size \in Nat /\ q.n.page * q.n.page_size \in Nat
         /\ (q.n.page - 1) * q.n.page_size + q.n.page_size = q.n.page * q.n.page_size
<1>1. q.n.page \in Int /\ q.n.page >= 1 /\ q.n.page_size \in 1..MaxPageSize
  BY SoundTypes
<1>2. PICK p, s : p = q.n.page /\ s = q.n.page_size /\ p \in Nat /\ p >= 1 /\ s \in Nat
  BY <1>1, SizeAssumption
<1>3. p - 1 \in Nat
  BY <1>2
<1>4. (p - 1) * s \in Nat /\ p * s \in Nat
  BY <1>2, <1>3
<1>5. (p - 1) * s + s = p * s
  <2>1. p \in Int /\ s \in Int
    BY <1>2
  <2>. QED  BY Zenon, <2>1, OneLess
<1>. QED  BY <1>2, <1>4, <1>5

LEMMA CallsKeepWalk ==
  ASSUME WalkInv, NEW x \in Cdr, CallEnds(x) \/ Clean(x)
  PROVE  (WalkType /\ Asked /\ Paged /\ Viewed)'
<1>1. UNCHANGED <<now, ip_shape, session_tz, req, page, chips, view, walk>>
  BY DEF CallEnds, Clean, browser
<1>2. WalkType /\ PageInv
  BY DEF WalkInv
<1>3. WalkType'
  <2>1. x \in Cdr /\ calls' \in {[calls EXCEPT ![x] = "in"], [calls EXCEPT ![x] = "cleaned"]}
    BY DEF CallEnds, Clean
  <2>2. calls' = [c \in Cdr |-> calls'[c]]
    BY <1>2, <2>1 DEF WalkType
  <2>3. \A c \in Cdr : calls[c] # "talking" => calls'[c] # "talking"
    BY <1>2, <2>1 DEF WalkType
  <2>. QED  BY <1>1, <1>2, <2>2, <2>3 DEF WalkType
<1>4. ASSUME req # None  PROVE Sound(req, req.at)
  BY <1>2, <1>4 DEF PageInv, Requested
<1>5. ASSUME view # None  PROVE Sound(view, view.asked)
  BY <1>2, <1>5 DEF PageInv, Rendered
<1>6. Asked'
  <2>1. SUFFICES ASSUME req # None, Walking(req.n, req.tz)  PROVE Before(req.n, req.tz)'
    BY <1>1 DEF Asked, Walking
  <2>2. PICK n, tz, bound : n = req.n /\ tz = req.tz /\ bound = (n.page - 1) * n.page_size
    OBVIOUS
  <2>3. bound \in Int
    BY <1>4, <2>1, <2>2, BoundTypes
  <2>4. bound <= Len(Order) /\ Covered(n, tz, TRUE, {}, bound)
    BY <2>1, <2>2 DEF WalkInv, Asked, Before
  <2>5. Covered(n, tz, TRUE, {}, bound)'
    BY <1>2, <2>3, <2>4, CoveredKept
  <2>. QED  BY <1>1, <2>2, <2>4, <2>5 DEF Before
<1>7. Paged'
  <2>1. SUFFICES ASSUME page # None, walk.whole, Walking(req.n, req.tz)
                 PROVE  After(req.n, req.tz, page)'
    BY <1>1 DEF Paged, Walking, WalkInv
  <2>2. PICK n, tz, more, rows, bound : /\ n = req.n /\ tz = req.tz /\ bound = n.page * n.page_size
                                        /\ more = page.has_more /\ rows = ToSet(page.rows)
    OBVIOUS
  <2>3. bound \in Int
    <3>1. req # None
      BY <1>2, <2>1 DEF PageInv, Found
    <3>. QED  BY <1>4, <2>2, <3>1, BoundTypes
  <2>4. (page.has_more => bound < Len(Order)) /\ Covered(n, tz, more, rows, bound)
    BY <2>1, <2>2 DEF WalkInv, Paged, After
  <2>5. Covered(n, tz, more, rows, bound)'
    BY <1>2, <2>3, <2>4, CoveredKept
  <2>. QED  BY <1>1, <2>2, <2>4, <2>5 DEF After
<1>8. Viewed'
  <2>1. SUFFICES ASSUME view # None, req = None, walk.whole, Walking(view.n, view.tz)
                 PROVE  After(view.n, view.tz, view)'
    BY <1>1 DEF Viewed, Walking, WalkInv
  <2>2. PICK n, tz, more, rows, bound : /\ n = view.n /\ tz = view.tz /\ bound = n.page * n.page_size
                                        /\ more = view.has_more /\ rows = ToSet(view.rows)
    OBVIOUS
  <2>3. bound \in Int
    BY <1>5, <2>1, <2>2, BoundTypes
  <2>4. (view.has_more => bound < Len(Order)) /\ Covered(n, tz, more, rows, bound)
    BY <2>1, <2>2 DEF WalkInv, Viewed, After
  <2>5. Covered(n, tz, more, rows, bound)'
    BY <1>2, <2>3, <2>4, CoveredKept
  <2>. QED  BY <1>1, <2>2, <2>4, <2>5 DEF After
<1>. QED  BY <1>3, <1>6, <1>7, <1>8

\* The Next link asks for the next page of the same list.
LEMMA NextPage ==
  ASSUME PageInv, view # None, view.n.page + 1 < U32
  PROVE  build_filters(next_url(view)).page = view.n.page + 1
<1>1. view.n.page \in Int /\ view.n.page >= 1
  BY SoundTypes DEF PageInv, Rendered
<1>2. PICK p : p = view.n.page + 1
  OBVIOUS
<1>3. p \in Int /\ p >= 0 /\ p < U32
  BY <1>1, <1>2
<1>4. next_url(view)["page"] = <<<<p>>>>
  <2>1. "page" \in DOMAIN export_query(view.f)
    BY DEF export_query, Keys
  <2>. QED  BY <1>2, <2>1 DEF next_url, Page
<1>5. First(next_url(view), "page") = <<p>>
  BY <1>4 DEF First
<1>6. build_filters(next_url(view)).page = parse_opt(First(next_url(view), "page"), U32)
  BY DEF build_filters
<1>7. trim(p) = p
  BY <1>3, SpacedFacts DEF trim
<1>. QED  BY <1>2, <1>3, <1>5, <1>6, <1>7 DEF parse_opt

\* Only the search, not the page, decides what is selected.
LEMMA SameSearch ==
  ASSUME NEW m, NEW n, Search(m) = Search(n), NEW tz, NEW shape
  PROVE  Selected(m, tz, shape) = Selected(n, tz, shape) /\ m.page_size = n.page_size
<1>1. /\ m.from = n.from /\ m.to = n.to /\ m.text = n.text /\ m.in = n.in /\ m.list = n.list
      /\ m.bound = n.bound /\ m.page_size = n.page_size
  BY DEF Search
<1>2. \A c \in Cdr : /\ InWindow(c, m, tz) <=> InWindow(c, n, tz)
                     /\ \A k \in Texts : HasText(c, m, k) <=> HasText(c, n, k)
                     /\ \A k \in Lists : Listing(c, m, k, shape) <=> Listing(c, n, k, shape)
                     /\ \A column, low, high :
                          Within(c, m, column, low, high) <=> Within(c, n, column, low, high)
  BY <1>1 DEF InWindow, HasText, Listing, Within
<1>. QED  BY <1>1, <1>2 DEF Selected

LEMMA AsksKeepWalk ==
  ASSUME WalkInv, Browse
  PROVE  (WalkType /\ Asked /\ Paged /\ Viewed)'
<1>1. PICK url \in Query, how \in {"goto", "next", "previous", "apply"} :
        /\ Asks(url, how)
        /\ how = "next" => view # None /\ view.has_more /\ url = next_url(view)
  BY BrowseAsks DEF WalkInv
<1>2. /\ req = None /\ view' = None /\ page' = page
      /\ walk' = IF how = "next" THEN walk ELSE NoWalk
      /\ UNCHANGED <<now, calls, ip_shape, session_tz>>
  BY <1>1 DEF Asks
<1>3. page = None
  BY <1>2 DEF WalkInv, PageInv, Found
<1>4. Paged' /\ Viewed'
  BY <1>2, <1>3 DEF Paged, Viewed
<1>5. CASE how # "next"
  BY <1>2, <1>4, <1>5 DEF WalkInv, WalkType, NoWalk, Asked, Walking
<1>6. CASE how = "next"
  <2>1. walk' = walk /\ view # None /\ view.has_more /\ url = next_url(view)
    BY <1>1, <1>2, <1>6
  <2>2. WalkType'
    BY <1>2, <2>1 DEF WalkInv, WalkType
  <2>3. /\ req'.f = build_filters(url)
        /\ \E tz : req'.n = normalized(build_filters(url), now, tz)
    BY <1>1 DEF Asks
  <2>4. SUFFICES ASSUME Walking(req.n, req.tz)'  PROVE Before(req.n, req.tz)'
    BY <1>4, <2>2 DEF Asked
  <2>5. walk.whole /\ walk.search = Search(req'.n) /\ walk.tz = req'.tz
    BY <2>1, <2>4 DEF Walking
  <2>6. Walking(view.n, view.tz) /\ After(view.n, view.tz, view)
    BY <1>2, <2>1, <2>5 DEF WalkInv, Viewed
  <2>7. PICK m, n, tz : m = view.n /\ n = req'.n /\ tz = view.tz
    OBVIOUS
  <2>8. Search(m) = Search(n) /\ tz = req'.tz
    BY <2>5, <2>6, <2>7 DEF Walking
  <2>9. Sound(view, view.asked)
    BY <2>1 DEF WalkInv, PageInv, Rendered
  <2>10. m.page \in Int /\ m.page >= 1 /\ m.page_size \in Int /\ m.page_size >= 1
    BY <2>7, <2>9, SoundTypes
  <2>11. m.page * m.page_size < Len(Order)
    BY <2>1, <2>6, <2>7 DEF After
  <2>12. m.page + 1 < U32
    <3>1. PICK p, s : p = m.page /\ s = m.page_size
      OBVIOUS
    <3>2. p \in Int /\ s \in Int /\ p >= 1 /\ s >= 1 /\ p * s < Len(Order)
      BY <2>10, <2>11, <3>1
    <3>3. p <= p * s /\ p * s \in Int
      BY <3>2
    <3>4. Len(Order) \in Nat /\ Len(Order) < U32 /\ U32 \in Nat
      BY OrderAssumption, TableAssumption, SizeAssumption
    <3>5. p + 1 < U32
      BY <3>2, <3>3, <3>4
    <3>. QED  BY <3>1, <3>5
  <2>13. n.page = m.page + 1
    <3>1. build_filters(url).page = m.page + 1
      BY <2>1, <2>7, <2>12, NextPage DEF WalkInv
    <3>2. n.page = IF build_filters(url).page \in {None, 0} THEN 1 ELSE build_filters(url).page
      BY <2>3, <2>7 DEF normalized
    <3>3. m.page + 1 # None /\ m.page + 1 # 0
      BY <2>10, NoneAssumption
    <3>. QED  BY <3>1, <3>2, <3>3
  <2>14. (n.page - 1) * n.page_size = m.page * m.page_size
    <3>1. n.page_size = m.page_size
      BY <2>8, SameSearch
    <3>2. n.page - 1 = m.page
      BY <2>10, <2>13
    <3>. QED  BY <3>1, <3>2
  <2>15. Selected(n, tz, ip_shape) = Selected(m, tz, ip_shape)
    BY <2>8, SameSearch
  <2>16. Covered(m, tz, TRUE, {}, m.page * m.page_size)
    BY <2>6, <2>7 DEF After, Covered
  <2>17. Covered(n, tz, TRUE, {}, m.page * m.page_size)
    BY <2>15, <2>16 DEF Covered
  <2>18. Covered(n, tz, TRUE, {}, m.page * m.page_size)'
    BY <1>2, <2>1, <2>17 DEF Covered, Table
  <2>19. m.page * m.page_size <= Len(Order)
    <3>1. \A p, s \in Int : p * s \in Int
      OBVIOUS
    <3>2. m.page * m.page_size \in Int /\ Len(Order) \in Int
      BY <2>10, <3>1, OrderAssumption
    <3>. QED  BY <2>11, <3>2
  <2>. QED  BY <2>7, <2>8, <2>14, <2>18, <2>19 DEF Before
<1>. QED  BY <1>5, <1>6

LEMMA ListKeepsWalk ==
  ASSUME WalkInv, List
  PROVE  (WalkType /\ Asked /\ Paged /\ Viewed)'
<1>1. /\ req # None /\ page = None
      /\ UNCHANGED <<now, calls, ip_shape, session_tz, req, chips, view>>
  BY DEF List
<1>2. PICK S, off, size, found, rows :
        /\ S = Selected(req.n, req.tz, ip_shape) \cap Table /\ off = offset(req.n)
        /\ size = req.n.page_size /\ off \in Nat /\ size \in Nat /\ size >= 1
        /\ found = Slice(Ranked(S), off, size + 1)
        /\ Len(found) > size => rows = SubSeq(found, 1, size)
        /\ ~(Len(found) > size) => rows = found
        /\ page' = [rows |-> rows, has_more |-> Len(found) > size]
        /\ walk' = Followed(req.n, rows)
  BY ListEffect DEF WalkInv
<1>3. Sound(req, req.at) /\ PageInv /\ WalkType
  BY <1>1 DEF WalkInv, PageInv, Requested
<1>4. PICK n, tz, before, after :
        /\ n = req.n /\ tz = req.tz /\ before = (n.page - 1) * n.page_size
        /\ after = n.page * n.page_size
  OBVIOUS
<1>5. before \in Nat /\ after \in Nat /\ before + size = after
  BY <1>2, <1>3, <1>4, BoundTypes
<1>6. S \subseteq Cdr /\ S = Selected(n, tz, ip_shape) \cap Table
  BY <1>2, <1>4 DEF Table
<1>7. PICK more \in BOOLEAN : more <=> Len(found) > size
  OBVIOUS
<1>8. page'.rows = rows /\ page'.has_more = (Len(found) > size)
  BY <1>2
<1>9. IsPage(rows, S, off, size, Len(found) > size)
  BY <1>2, <1>6, PageProperties
<1>. HIDE <1>2
<1>10. /\ Table' = Table /\ walk' = Followed(n, rows)
       /\ size \in Nat /\ off = before % U32
  BY <1>1, <1>2, <1>4 DEF Table, offset
<1>11. \A c \in S : Pos(c, S) \in Nat /\ Pos(c, S) >= 1
  BY <1>6, PosType
<1>12. /\ WalkType'
       /\ walk'.whole =>
            /\ Walking(n, tz)' /\ before <= Len(Order) /\ ToSet(rows) \subseteq walk'.seen
            /\ \A c \in walk'.start \cap S : c \in walk'.seen \/ Pos(c, S) > before
  <2>1. CASE walk.search = Search(n) /\ walk.tz = tz
    <3>1. walk' = [walk EXCEPT !.seen = @ \cup ToSet(rows)]
      BY <1>4, <1>10, <2>1 DEF Followed
    <3>2. /\ walk'.search = walk.search /\ walk'.tz = walk.tz /\ walk'.start = walk.start
          /\ walk'.whole = walk.whole /\ walk'.seen = walk.seen \cup ToSet(rows)
          /\ walk' = [search |-> walk'.search, tz |-> walk'.tz, start |-> walk'.start,
                      seen |-> walk'.seen, whole |-> walk'.whole]
      BY <1>3, <3>1 DEF WalkType
    <3>3. WalkType'
      BY <1>1, <1>3, <3>2 DEF WalkType
    <3>4. ASSUME walk'.whole
          PROVE  /\ before <= Len(Order)
                 /\ \A c \in walk'.start \cap S : c \in walk'.seen \/ Pos(c, S) > before
      <4>1. Before(n, tz)
        BY <1>1, <1>4, <2>1, <3>2, <3>4 DEF WalkInv, Asked, Walking
      <4>2. Covered(n, tz, TRUE, {}, before) /\ before <= Len(Order)
        BY <1>4, <4>1 DEF Before
      <4>3. \A c \in walk.start \cap S : c \in walk.seen \/ Pos(c, S) > before
        BY <1>6, <4>2 DEF Covered
      <4>. QED  BY <3>2, <4>2, <4>3
    <3>. QED  BY <2>1, <3>2, <3>3, <3>4 DEF Walking
  <2>2. CASE ~(walk.search = Search(n) /\ walk.tz = tz)
    <3>1. walk' = [search |-> Search(n), tz |-> tz, start |-> Table, seen |-> ToSet(rows),
                   whole |-> n.page = 1]
      BY <1>4, <1>10, <2>2 DEF Followed
    <3>2. /\ walk'.search = Search(n) /\ walk'.tz = tz /\ walk'.start = Table
          /\ walk'.whole = (n.page = 1) /\ walk'.seen = ToSet(rows)
          /\ walk' = [search |-> walk'.search, tz |-> walk'.tz, start |-> walk'.start,
                      seen |-> walk'.seen, whole |-> walk'.whole]
      BY <3>1
    <3>3. WalkType'
      <4>1. Table \subseteq Cdr /\ \A c \in Table : calls[c] # "talking"
        BY DEF Table
      <4>. QED  BY <1>1, <1>3, <3>2, <4>1 DEF WalkType
    <3>4. ASSUME walk'.whole  PROVE before = 0
      <4>1. n.page = 1 /\ n.page_size = size
        BY <1>2, <1>4, <3>2, <3>4
      <4>. QED  BY <1>4, <1>10, <4>1
    <3>5. Len(Order) \in Nat
      BY OrderAssumption
    <3>. QED  BY <1>11, <3>2, <3>3, <3>4, <3>5 DEF Walking
  <2>. QED  BY <2>1, <2>2
<1>13. Asked'
  <2>1. SUFFICES ASSUME Walking(n, tz)'  PROVE Before(n, tz)'
    BY <1>1, <1>4 DEF Asked
  <2>2. walk'.whole
    BY <2>1 DEF Walking
  <2>3. \A c \in walk'.start \cap S : c \in walk'.seen \/ Pos(c, S) > before
    BY <1>12, <2>2
  <2>4. Covered(n, tz, TRUE, {}, before)'
    BY <1>1, <1>6, <1>10, <2>3 DEF Covered
  <2>. QED  BY <1>4, <1>12, <2>2, <2>4 DEF Before
<1>14. Paged'
  <2>1. SUFFICES ASSUME walk'.whole  PROVE Walking(n, tz)' /\ After(n, tz, page)'
    BY <1>1, <1>4 DEF Paged
  <2>2. off = before
    <3>1. before <= Len(Order) /\ Len(Order) \in Nat /\ Len(Order) < U32 /\ U32 \in Nat
      BY <1>12, <2>1, OrderAssumption, TableAssumption, SizeAssumption
    <3>2. before % U32 = before
      BY <1>5, <3>1
    <3>. QED  BY <1>10, <3>2
  <2>3. /\ more => after < Len(Order)
        /\ \A c \in S : \/ Pos(c, S) <= before
                        \/ c \in ToSet(rows)
                        \/ /\ more /\ Pos(c, S) > after
                           /\ \A d \in ToSet(rows) : Place(Order, d) < Place(Order, c)
    BY <1>5, <1>7, <1>9, <2>2 DEF IsPage
  <2>4. \A c \in walk'.start \cap S :
          \/ c \in walk'.seen
          \/ /\ more /\ \A d \in ToSet(rows) : Place(Order, d) < Place(Order, c)
             /\ Pos(c, S) > after
    BY <1>5, <1>11, <1>12, <2>1, <2>3
  <2>5. page'.has_more <=> more
    BY <1>7, <1>8
  <2>6. Covered(n, tz, page.has_more, ToSet(page.rows), after)'
    BY <1>1, <1>6, <1>8, <1>10, <2>4, <2>5 DEF Covered
  <2>. QED  BY <1>4, <1>12, <2>1, <2>3, <2>5, <2>6 DEF After
<1>15. Viewed'
  BY <1>1 DEF Viewed
<1>. QED  BY <1>12, <1>13, <1>14, <1>15

LEMMA StepWalkInv ==
  ASSUME WalkInv, [Next]_vars
  PROVE  WalkInv'
<1>1. PageInv'
  BY StepPageInv DEF WalkInv
<1>2. SUFFICES (WalkType /\ Asked /\ Paged /\ Viewed)'
  BY <1>1 DEF WalkInv
<1>3. ASSUME UNCHANGED <<calls, ip_shape, req, page, view, walk>>
      PROVE  (WalkType /\ Asked /\ Paged /\ Viewed)'
  BY <1>3 DEF WalkInv, WalkType, Asked, Paged, Viewed, Walking, Before, After, Covered, Table
<1>4. CASE Tick \/ UNCHANGED vars
  BY <1>3, <1>4 DEF Tick, vars, browser
<1>5. CASE \E c \in Cdr : CallEnds(c) \/ Clean(c)
  BY <1>5, CallsKeepWalk
<1>6. CASE \E tz \in Zones \cup {None} : set_tz(tz)
  BY <1>3, <1>6 DEF set_tz
<1>7. CASE Browse
  BY <1>7, AsksKeepWalk
<1>8. CASE List
  BY <1>8, ListKeepsWalk
<1>9. CASE DistinctValues
  BY <1>3, <1>9 DEF DistinctValues
<1>10. CASE Render
  <2>1. /\ req # None /\ page # None /\ req' = None /\ page' = None
        /\ UNCHANGED <<calls, ip_shape, walk>>
        /\ view'.n = req.n /\ view'.tz = req.tz /\ view'.rows = page.rows
        /\ view'.has_more = page.has_more
    BY <1>10 DEF Render, Answer, Done
  <2>2. WalkType' /\ Asked' /\ Paged'
    BY <2>1 DEF WalkInv, WalkType, Asked, Paged
  <2>3. Viewed'
    <3>1. SUFFICES ASSUME walk.whole  PROVE (Walking(view.n, view.tz) /\ After(view.n, view.tz, view))'
      BY <2>1 DEF Viewed
    <3>2. Walking(req.n, req.tz) /\ After(req.n, req.tz, page)
      BY <2>1, <3>1 DEF WalkInv, Paged
    <3>. QED  BY <2>1, <3>2 DEF Walking, After, Covered, Table
  <2>. QED  BY <2>2, <2>3
<1>11. CASE Fail
  <2>1. /\ req # None /\ req' = None /\ page' = None
        /\ UNCHANGED <<calls, ip_shape, walk, view>>
    BY <1>11 DEF Fail, Answer
  <2>2. view = None
    BY <2>1 DEF WalkInv, PageInv, Requested
  <2>. QED  BY <2>1, <2>2 DEF WalkInv, WalkType, Asked, Paged, Viewed
<1>. QED  BY <1>4, <1>5, <1>6, <1>7, <1>8, <1>9, <1>10, <1>11 DEF Next, Handle

THEOREM WalkInvariant == Spec => []WalkInv
<1>1. Init => WalkInv
  <2>1. Init => PageInv
    BY DEF Init, NoChips, PageInv, Requested, Found, Chosen, Rendered
  <2>. QED  BY <2>1 DEF Init, NoWalk, WalkInv, WalkType, Asked, Paged, Viewed
<1>2. WalkInv /\ [Next]_vars => WalkInv'
  BY StepWalkInv
<1>. QED  BY <1>1, <1>2, PTL DEF Spec

\* The offset of every page of the walk leaves nothing out that was there
\* when the walk began and still is.
THEOREM NothingMissed == Spec => []NoneMissed
<1>1. WalkInv => NoneMissed
  BY DEF WalkInv, Viewed, After, Covered, NoneMissed
<1>. QED  BY <1>1, WalkInvariant, PTL
=============================================================================
