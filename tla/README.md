# A TLA+ model of rusto-voip-mon

rusto-voip-mon is a web front end for VoIPmonitor: it reads VoIPmonitor's MySQL
tables and its directory of minute archives, and serves lists of calls (CDRs), their
SIP and RTP, pcap files and audio. This directory models the program's own logic in
TLA+, checks it on small instances with TLC, and proves what matters most for every
instance with TLAPS. Every definition follows the Rust source (or, where said, the
script inside a template); `PROJECT.json` gives the lines of each.

Run a check with `tlc -config X.cfg MCX.tla`, and the proofs with `tlapm XProofs.tla`.

## 1. Inventory

### 1.1 Components

| Component | State it keeps | Operations | What makes it correct |
|---|---|---|---|
| **API token store** `auth/token.rs`, `routes/auth.rs`, bearer half of `auth/session.rs` | a map token -> (user, created, expires) behind a mutex, in memory only | create, lookup, list, revoke; `POST/GET/DELETE /auth/tokens` | a revoked or expired token is never accepted again; a request acts for the user its token was issued to; only the owner removes a live token |
| **User administration** `routes/users.rs`, `users/mod.rs`, `auth/password.rs` | VoIPmonitor's `users` table | create, update, delete, reset-password, `verify_login` | somebody can always administer the system; an administrator cannot lock itself out; a deleted account stays deleted |
| **Session cookie, login, middleware** `auth/session.rs`, `routes/login.rs`, `middleware.rs`, `templates/cdr_list.html` | none on the server: user, time zone, ticked CDRs and expiry are in a signed cookie (readable, not forgeable); the page holds a set of ticks and a 400 ms timer | login, logout, `/tz`, `/cdr/select`, the redirect of `require_login`, the extractor | idle sessions end; a change of one part of the session does not touch the others; redirects end |
| **Batch PCAP download** `routes/pcap.rs` 560-980, 1594-1718 of `cdr/mod.rs` | per request: the list of CDRs, a task per CDR, a channel, a zip in memory | resolve ids or filter, spawn, build, zip, answer | each CDR once, in the zip or counted as failed; the download ends |
| **PCAP selection and merge** `routes/pcap.rs` 97-556, 1046-1400 | none (reads `cdr_tar_part` and the archives) | choose the source, find the archive, slice, decompress, merge by time | all of the call's packets and nothing else, in order |
| **CDR queries, filters, paging** `cdr/mod.rs`, `cdr/ip.rs`, `routes/cdr.rs` | none (the URL) | list, stream, ids, distinct values, build_filters | the same filter gives the same calls everywhere; pages cover the table |
| **CDR CSV export** `cdr/mod.rs` 1549-1590, `routes/cdr.rs`, `db.rs` | a channel of 64 rows, one of 16 pooled connections | list_stream, response stream | every row once, a cap, connections given back |
| **RTP analysis** `cdr/rtp_pcap.rs` | per stream: counters, previous arrival, jitter | parse, group by SSRC, jitter, loss, MOS per bucket | RFC 3550 arithmetic at 16- and 32-bit wrap |
| **Audio synthesis** `cdr/wav.rs` | per leg: previous sequence number, samples | decode, fill gaps, write WAV | length is that of the call |
| **SIP reading** `cdr/sip_pcap.rs`, `parse_cseq` | none | parse SIP from pcap, call flow | the messages of the call, in order |
| **Sensor registry** `sensors/mod.rs`, `routes/sensors.rs` | VoIPmonitor's `sensors` table | list (with back-fill from `cdr`), create, update, delete | what is deleted stays deleted |
| **Time zone resolution** `state.rs`, `routes/login.rs` | query parameter, cookie, configuration | resolve_tz, parse_tz_form_value | a total order of precedence |
| **Start-up, configuration** `main.rs`, `config.rs`, `db.rs` | the pool, the router, the detected address column types | read the environment, connect | - |
| **Errors and time limits** `error.rs` | none | `with_query_timeout`, status codes | no query holds a request for ever |
| Templates, static files, module lists, build script | - | - | - |

### 1.2 How they interact

* A **browser** holds the cookie and sends it with each request. `require_login` only
  looks whether there is a cookie of that name; the `SessionUser` extractor then tries a
  bearer token (token store) and only then the cookie. What it yields, a *snapshot* of the
  user row at the time of login or of token creation, is never refreshed: a handler trusts
  `is_admin` and `can_pcap` of the snapshot.
* **Handlers** run as tokio tasks and interleave at each `.await`; each SQL statement takes
  its own connection from the pool and no two statements share a transaction. The token
  store is the only shared memory, behind a mutex taken once per method.
* **VoIPmonitor** writes CDRs and archives, and deletes the old ones, at the same time.
* A **batch** request runs one task per CDR and one blocking worker; they share an mpsc
  channel, and the worker and the response body share another.

### 1.3 What is hard

Check-then-act over several statements or several locks; snapshots that outlive what they
were taken from; cookies of overlapping requests overwriting each other; answers that are
late or lost; clocks set back; channels closed by their last sender; errors of one part of
a batch; wrap-around of 16- and 32-bit counters. `PROJECT.json` lists each hazard at the
line where it bites, with the properties that would notice.

## 2. Plan

In the order of importance of what goes wrong when they fail.

| # | Module | Abstract specification | Runs | Theorems | State |
|---|---|---|---|---|---|
| 1 | `TokenStore` | `TokenLifecycle` | 2 users' tokens and requests, clock 0..3 | all invariants, both kinds of action property, refinement | done |
| 2 | `UserAdmin` | - | two racing requests with forms of every kind | all invariants and action properties | done |
| 3 | `BrowserSession` | `SessionRegister` | one request at a time; two that overlap | types (ticks never repeat nor pass the cap), idle sessions, no lost change without overlap, refinement for one request | done |
| 4 | `BatchZip` | - | three CDRs, all kinds of request, faults | conservation, completeness, no waiting, the right CDRs | done |
| 5 | `PcapBuild` | - | four ways of storing a call of two minutes, cut-off and deleted archives | order, purity by name, no torn record, no packet left out | done |
| 6 | `CsvExport` | - | an export of each kind and a page over one connection, channels of one | bounded reading after a hang-up, no row lost or out of place | done |
| 7 | `CdrFilters`, `CdrList` | - | an operator who pages, filters and changes zones over a table that moves | the four invariants: right day, nothing missed, links and form keep the search | done |
| 8 | `Sensors` | - | three people's requests over two sensors | saved settings, complete lists | done |
| 9 | `RtpStats`, `CallMedia` | - | a call of six packets each way with two faults | the three invariants: calm charts, audio that keeps time, players that play | done |

Left: reading of SIP, which is text; and what is beyond the prover (end of section 4).

`Option` only holds the constant `None`, the value of an absent `Option<T>`. Each proof module
extends the module it is about; `AdminProofs` has the proofs of `UserAdmin` and of `Sensors`,
`DownloadProofs` those of `CsvExport` and of `CallMedia`, and `CdrListsProofs` the facts about lists (of `CdrLists`, and generic ones) that several need.

## 3. The modules

### 3.1 TokenStore, TokenLifecycle

`store`, `now` are the map and the wall clock of `auth/token.rs`; `task[r]` is where a
request is between the extractor and its answer; `issuer`, `finished` only observe. Each
method takes the mutex once, so it is one action; `DELETE /auth/tokens/:id` is two
(`RevokeFind`, `RevokeRemove`), as the code locks twice. `Tick`, `ClockSetBack` and
`Restart` are the environment. `create` draws 32 random bytes: ids never collide.

`TokenLifecycle` says what a client may rely on: a token is unissued, active, then dead for
ever, and a principal that acts by token acts for its holder. `ImplementsLifecycle` maps
the store to it (an id in the map is active, one no longer there is dead).

* `token_store`: 2 users, 2 tokens, 2 concurrent requests, lifetimes clamped to 1..2, clock
  0..3. Two tokens and two requests are what a mix-up or a race between a lookup, a list and
  a revocation needs; the clock has room for an expiry, a set-back, and a second expiry.

### 3.2 UserAdmin

`row` is the table, `used` the AUTO_INCREMENT values given out, `sessions` the snapshots in
live cookies, `task` each handler's locals. Every SQL statement is an action. A form body is
a record of what `parse_edit_form` distinguishes. Initially any table with unique names and
one administrator who can log in.

* `user_admin`: two accounts, two concurrent requests, forms that promote, demote, block,
  expire and rename, one without a name and one with a short password, under every session an
  earlier state of the table could give. Two requests are what a race needs, and two accounts
  what "the last administrator" and "one's own row" need.
* `user_admin_delete` (violated): two administrators delete each other.

Deadlock is not checked: ids run out (AUTO_INCREMENT is bounded by `Uid`) and all sessions
may end with nobody left to log in.

### 3.3 BrowserSession, SessionRegister

`jar` is the browser's cookie, `page[t]` what tab `t` shows (with the ticks of its script and
whether the timer runs), `wire[r]` a request in flight or its answer. A handler never looks
at `jar`, only at the cookie its message carries: this is where sessions get lost. A
navigation is one request per tab at a time (`Steady`); the script's fetches are not bound by
it. What a script may send (`ScriptIds`) is any list of CDR ids (`ScriptAssumption`), repeats
included; no cookie is taken for an absent one (`NoneAssumption`). `Lose`, `CookieDropped`, `NewSecret` and `Tick` are the environment.

`SessionRegister` is the session as an operator thinks of it: one register on a server.

* `session_serial`: one request at a time; the register is implemented although answers are
  lost (the change is then not made), cookies expire and the secret changes; every chain of
  redirects ends. Two users, a cap of one with ids repeated by a script, lifetime 2.
* `session_race`: two requests overlap. Late answers never extend an idle session; a change is
  lost only to a request that was under way with it.
* `session_logout` (violated): a late answer undoes a logout.

Fairness: weak, on serving a request that arrived and on delivering an answer that is not
lost. axum polls each connection's task; nothing is assumed of operators, script or clock.

### 3.4 BatchZip

One request for `/pcap/batch`. The handler resolves ids or filter, queries the metadata,
spawns the tasks one by one (`Spawn`), drops its own sender (`DropSender`) and starts the
worker (`StartWriter`). `task[k]` builds the pcap of `cdr_ids[k]`, or fails to, and sends
(`SendResult`); the worker takes the head of `queue` and writes, skips or, when a pcap passes
the 4 GiB of the zip format, closes (`WriteTooLarge`). `Senders` is what keeps the channel
open. The sidecar is entry 0. Meanwhile `Clean` deletes the oldest CDR and the client may
hang up, which drops a handler that waits for the database but neither tasks nor worker.

* `batch_zip`: seven kinds of request over three CDRs with a cap of three: ids with a zero and
  repeats, more than the cap, unknown ids, a filter, both, neither, no permission; the pcap of
  CDR 3 is too large. Three tasks are the least for which one is late on both sides of another.

Fairness: weak, on the handler, the worker and each task: tokio polls what is ready, a blocking
worker has a thread, and a build ends because MySQL answers, its time limit passes or the
connection breaks, and the rest of it is local work. Deadlock is not checked: a request that
has been answered is over.

### 3.5 PcapBuild

`build_pcap_bytes` for one CDR, called for a single download; a batch calls it in each task
(`Build` in `BatchZip` only says whether it succeeded). `install` is what VoIPmonitor has
stored about the call, `disk` the archives still there, `mode` the path the three queries
lead to, `sources` what is still to be read, `blobs` what has been read and sliced, `packets`
the answer. The variable `lost` only observes which archives were gone, unread, damaged or cut off
when they were needed.

A pcap record is two items, its halves: the least with which a file can end, or be split,
inside a record. The name of a file in a tar is a base, a sequence that can be a prefix of
another, and an ending. Sorting (the stable sorts of the sources and of the records, the walk
of a tar) is one operator, `Listing`, on triples of keys. `Scan` is one action: the directory
is searched without an await, and a clean-up that falls within shows as one right after it.
VoIPmonitor is external: it deletes its oldest minute, and archives in `hot` are still being
written, so that a read ends anywhere in them. What the code relies on in its files is in three
assumptions: a mark at the head of a chunk is no part of a record (`MarkAssumption`); what is
stored is a stream of whole records, and an offset in `cdr_tar_part` is where a record begins
(`StreamAssumption`); and a call's packets are in what its offsets lead to, or in the files named
after it (`WholeAssumption`). The code cannot check any of them: it slices and joins bytes.

* `pcap_build`: a call of two minutes and another one whose name begins with its name, stored
  with offsets into one pcap per minute; with two offsets into one archive and some past its
  end; in files of its own, one split inside a record over two chunks, compressed and plain;
  and with neither offsets nor a name. The tar type OTHER, which only
  offsets lead to, is among the rows and on the disk. A compressed chunk may fail to decompress: it is passed through
  (`Damaged`), and no record is found in it.

`WholeCall` is about each archive by itself: whatever becomes of the others, the answer has every
record of those that were not lost. `InOrder` says that the answer is a stable merge: every record
that was taken is in it once, and its place is the number of those with an earlier time, or with
the same time further up in the blobs, before it.

No fairness: no liveness is claimed. Deadlock is not checked: an answered request is over.

### 3.6 CsvExport

A GET is answered with 200 at once and leaves two tasks: the query task of `list_stream`
(`conn`, `cursor`, `qhand`) and the CSV worker (`worker`, `first`, `held`), joined by the
channel `rowq` and to the client by `csvq`. Each hand holds the one item its task is about to
send. A POST resolves and fetches first (`phase`), and its worker then streams from memory: it
shares the worker's actions, with `rowq` full from the start and the query already over.
`result` is fixed when the query starts, as InnoDB reads consistently. `page` are requests for
other pages, each with one query under `with_query_timeout`; both kinds take their connection
from the same pool (`Busy`, `Free`). The client reads, sees the end, or hangs up at any time:
axum then drops a handler that is still running, with its connection, but the two tasks of a
stream only notice when they next send.

* `csv_export`: one connection, both channels of one item, a result of five rows, which is more
  than channels and hands hold (three of the rows wait behind a client that does not read); a GET
  with and without its cap, a POST with ids that are repeated, zero and out of order, one with
  none that is positive, one by filter and one with nothing; CDRs cleaned up at any moment. The
  one connection is what sixteen stand for when all but one are taken.

Fairness: weak, on what the pool does (it hands out a free connection or its 5 s pass), on the
query task (MySQL answers a streaming query or its connection breaks), on sending and on the
worker (tokio polls what is ready), on the timer of a page. Nothing is assumed of clients, nor of
the query of a page, which may hang: `PageIsAnswered` holds by the two timers alone, and
`FreesConnection` by each task noticing that the next one has gone. Deadlock is not checked: all
requests may be over.

### 3.7 CdrFilters, CdrList

`CdrFilters` has the pure part: a query string (each key with its values, a value a sequence of
parts) is parsed (`build_filters`), completed (`normalized`), turned into the set of CDRs that
the SQL selects (`Selected`), and written out again for the links of the page (`export_query`).
The filter's SQL is the conjunction of its parts, each over one column of `Call[c]`.

`CdrList` runs it: `req` fixes filters, zone and date when a request arrives; `List` and the four
statements of `DistinctValues` run in any order, each on the table of its moment, as
`tokio::join!` polls them; `view` is what the browser shows, and the next request comes from its
links (`FollowNext`, `FollowPrevious`), its form (`Apply`) or elsewhere (`GoTo`). Calls end and
are cleaned up meanwhile, the session's zone changes in another tab, midnight passes. `walk` only
observes what an operator who follows Next has seen. `ip_shape` may be right or wrong for the
table, as a database error at start-up leaves it.

* `cdr_list`: three calls, two of which begin at the same instant, days of two seconds over three
  instants (so that midnight passes within a walk), an operator east of UTC by default, at UTC by
  choice or west by query, a database west of UTC; pages of one row, which makes a walk of three
  pages, and of two at most; query strings with a substring, ports, the sentinel 0, comma lists
  with empty parts and repeats, blanks in a text and around a part, repeated keys, an address that
matches, a MOS, a page size beyond the largest, the zone's legacy key, and a zone that does not
parse in front of one.

A query string is percent-decoded and no more. The links encode every byte, so what they write is
what is read; a form, which the browser encodes (`form_encoded`), sends `+` for a blank and gets a
`+` back. Texts with blanks are the domain of two constants, `Trimmed` and `Plussed`
(`SpacedAssumption`). A number with a sign or leading zeros, which Rust parses too, is not
distinguished from other texts, which do not parse.

`LinksKeepSearch` is about the same session and the moment of the page. Links and form always carry
the window, the texts, the lists and the durations (`KeepsFilters`). They stand for the same search
in the same zone (`KeepsSearch`) exactly when there is no MOS, no exact list and no page size other
than the default (`AllWritten`): the property says what is dropped, and breaks if more is, or less.
Two conditions are left. A link carries no zone, so that of a page opened with a zone of its own
leads to the session's zone. The form carries it, but not a text with a blank. `FormKeepsZone` is about pages
whose query asks for no zone or one less than a day from UTC: the form takes no other. `NoneMissed` is about
calls that stay in the table: OFFSET paging over a table that only grows in front and shrinks
behind repeats rows but skips none. It needs the table to be smaller than 2^32 rows (`TableAssumption`), as
the `u32` product of section 5 is the offset otherwise. The `Order` in which the SQL lists calls is
that of their begin, newest first, whatever it does with equal ones (`OrderAssumption`). Deadlock is not checked: the clock is bounded (`LastTime`).

### 3.8 Sensors

`sensors` is the table, `cdr` the ids with traffic, `task[p]` the request of a person: every
statement of the six handlers is an action. `saved` only observes what was last saved for an id,
and a task's `producing` what had traffic when its back-fill ran.

* `sensors`: two administrators and an operator who is none, each with one request at a time;
  one sensor with traffic and one without; a form that saves everything, one that does not parse
  and an empty one. Two concurrent writers and a list are what an overwritten setting needs.
  Deadlock is not checked for the same reason as before: there always is a step, but nothing
  has to happen.

### 3.9 RtpStats, CallMedia

`RtpStats` is `cdr/rtp_pcap.rs` as functions of a sequence of packets: what is RTP, the clock
rate (a median of ratios), the split by the caller's address, the dominant stream (any of several
with the same number of packets, as the order of a `HashMap` decides), the buckets, and RFC 3550
jitter. Floating point is fixed point here: the properties only tell zero from more.

`CallMedia` sends a call through a network that loses, delays, doubles and mistypes packets, lets
VoIPmonitor write the CDR, and serves the player, the chart and the audio from it while row and
archive may be cleaned up in between, and while the query of the row may fail. A WAV is a sequence of runs, one for each packet: its samples
behind the silence for what is missing before it, the silence being nobody's. `build_pcap_bytes`
yields the call, its SIP only, or a failure. Two assumptions are about the phones, and the code
cannot check them: a packet has audio and a payload type of seven bits (`SenderAssumption`), and
no call lasts for a whole cycle of the timestamps (`CycleAssumption`: at 48 kHz, a day).

`KeepsTime` is about a leg whose packets are one stream with no gap beyond `MaxFill`. `SteadyIsCalm`
is about one that dominates its direction alone and whose packets all took equally long, except
those that were overtaken (`Steady`). Two more premises say what the code can take. `Few`: less
than half of the pairs from which the clock is measured begin with an overtaken packet, or the
median is one of theirs. `SeenAsOvertaken`: none was sent before a wrap of the timestamps and overtaken
by one sent behind it, as the code then takes the late one for the newest (section 5). TLC finds the
property violated when any of these premises is dropped.

* `call_media`: six packets each way with different clocks, two faults; sequence numbers modulo 16
  and timestamps modulo 256 so that both wrap in the middle of the caller's six; a packet held up
  by three units is overtaken by one; three ways of recording the call, with all addresses and
  codecs, behind a proxy, and with addresses and codecs missing. Two faults are what it takes to
  lose one packet and overtake another; six packets, and a `Window` of five of them, make pairs
  enough for the median to stand one outlier, and leave one behind the window. Deadlock is not checked: an archive that is gone is the end.

## 4. What is proved

Each proof module has an inductive invariant, `IInv` unless another name is given, the three facts `Init => IInv`,
`IInv /\ [Next]_vars => IInv'` and `IInv => ` the property, with one lemma or step per action.
The constants are arbitrary under the named assumptions of each module (None is not a value
of the type it stands for; bounds are natural numbers; ids are positive and distinct); TLC
evaluates these in every run.

* **TokenStoreProofs.** `TypeCorrect`, `Finality`, `Identity`, `Lifetimes`, `OwnerOnly`,
  `Refinement`. What makes the invariant inductive is that an entry's user is the one its id
  was issued to (`EntriesMatchIssuer`), that a task's user is its token's issuer and, between
  the two locks of a DELETE, its target's (`TasksMatchIssuer`), and that a finished id is in
  the map no more and was issued (`FinishedInv`), so that it can never be drawn again.
* **AdminProofs**, of `UserAdmin`. `TypeCorrect`, `LastAdmin`, `SelfProtection`, `NoResurrection`.
  `DeleteChecked`: a handler about to DELETE an administrator has seen another one;
  `SaveProtected`: what a handler is about to write to the caller's own row is no worse than
  the row it read; `InsertReady`: what it inserts is a row.
* **AdminProofs**, of `Sensors`. `SensorsTypeCorrect`, `SettingsSurvive`, `ListsAreComplete`. `Kept` is the property
  itself; `Ready`: what a task is about to write is a row, for an id; `Listing`: between the
  back-fill and the list every id the task saw producing has a row, and after it is listed. The
  clause of `delete` about other people's lists is what keeps `Listing` inductive.
* **BrowserSessionProofs.** `IdleDies`, `OverlapOnly`. `Aged`: every cookie in the jar or on the
  wire, and every one an answer sets, expires at most `Ttl` after the last stamp; `WireOK`: an
  answer's cookie differs from its request's only in what the request was about. `SessionTypes` adds
  that whatever a script sends, the ticks a cookie keeps are distinct and at most `Cap`: the loop of
  `with_selection` is a fold, and `SelectedIsSelection` goes through it by induction on the number
  of ids (`EveryNatural`). `SerialSessionIsRegister`: with one request in flight the sessions
  implement `SessionRegister`. The register is what the jar holds, or, if a cookie was lost under
  way, what the request carried (`Held`); `Alone`: that request was made with the jar's cookie,
  and an answer that sets one follows from it. With two requests it is false (`session_logout`).
* **BatchZipProofs.** `TypeCorrect`, `Conservation`, `Completeness`, `NonBlocking`,
  `OnlyAskedFor`. `Room`: the
  results in the channel and the tasks still to send are disjoint sets of slots among those of
  the list, so their number is bounded by the capacity; `Phases` ties the handler's place to
  what has been spawned and whether its sender is still held. `OnlyAskedFor` follows from
  `ListedProperties` of **CdrListsProofs**: ranks by a key that tells the members of a finite
  set apart are `1..n` without a gap, so `Listed` has every member once, in the given order.
  That module also has `ListedAgain` (listing a list leaves it as it is), `FlattenProperties`
  and `EveryNatural`, the induction that is a fact about sets of numbers and needs no operator.
* **PcapBuildProofs.** `TypeCorrect`, `TimeOrdered`, `NamedIsPure`, from `ListingProperties`: a
  finite set of integer triples is listed completely, once each, in order (`Rank` is an
  injection into `1..n`, hence onto; so the answer is as long as the records taken are many, and
  each of them stands where the stable order puts it). `AsWritten`: archives are deleted but never rewritten;
  `Within`: slicing, stripping, cutting and joining bring in no item from elsewhere;
  `ByNameOnly`, `OwnBlobs`: on the path by name every source is read by name, so every blob
  holds the call's records only, provided that VoIPmonitor keeps others' out of the files
  named after the call (`InstallAssumption`); `Early`, `Chosen` order the handler's steps.
  `RecordsAreWhole`: every blob is a stream of records up to its end, where the last may be cut
  (`TInv`). A chunk that was cut off while read is the beginning of the whole one (`IsCut`; but
  for a header that only a whole chunk is known to have), slicing and stripping begin where a
  record does, and the two halves of a record therefore stay together (`PairInBlob`).
  `NothingLeftOut`: of an archive that is not lost, each source the mode calls for (`Planned`) is
  still to be read or is a blob (`Looked`), and once answered each of its complete records is a
  packet of the answer (`Answers`).
* **CdrListProofs.** `RowsOfTheRightDay`, `FormKeepsTheZone`, `LinksKeepTheSearch`,
  `NothingMissed`. `PageInv`: a request, and the page it becomes, has the filters, zone and window
  that its query string is read as, and its rows and chips are among those the filters select.
  The form's zone follows from it by arithmetic. For the links, what `export_query` writes is read
  back (`ReadAgain`): a list of values is written part by part (`FlattenProperties`) and its
  distinct parts listed again (`ListedAgain`), a number is its own part, a tenth is none. The form's
  encoding changes nothing of a query string without blanks (`FormSays`), and what is not written
  is missed in the search if it was there (`SearchAgain`). `WalkInv`: on the way through the pages
  a call not yet seen lies behind the rows of the page; since ranks only fall when an older call is
  cleaned up and every new call ranks first, it lies beyond `page * size`, where the next page
  begins.

* **DownloadProofs**, of `CsvExport`. `TypeCorrect`, `StopsSoon`, `RowsInOrder`, `OrderAsTicked`. `IInv` adds to the types `Hands`
  (a hand holds at most one item, the channel of rows no more than its capacity while its query
  runs, and nothing travels before the handler has answered) and `Winding`: once the client has
  gone, each row read since is in the query task's hand, in the channel or in the worker's hand,
  or the worker has stopped and the next send ends the query; so what has been read is at most
  what had been at the hang-up and what these hold. `RowsInv` adds `Lined`: the slots of an
  export (its header, then its rows) are, without a gap, those the client has got, then those
  in the body, the worker's hand, the channel and the query task's hand, up to the last that
  was read, with perhaps an error or the cut at the end. It is a predicate of values, so each
  move of an item is a lemma about sequences (`MovePull`, `MoveRead`, ...), and each action
  cites one. `TicksInv` adds `Ticked`: the list and then the result of a POST with ids follow
  what was asked for, and nothing can cut its body off, as its first row has no timer.
* **DownloadProofs**, of `CallMedia`. `MediaInvariant`, `PlayersPlay`, `AudioKeepsTime`, `SteadyCallsAreCalm`.
  `MInv`: each captured packet has the numbers and the clock of its phone for its place in the
  stream, or is known noise (`Capturing`); row, request, answer and page are of one call (`OfCall`);
  and an answer was made from a list of such packets, as `encode_wav_from_rtp` or
  `compute_rtp_stats` make it (`Encoded`, `Drawn`). The rest is about these functions, for every
  list. A strict order on a finite set ranks it without a gap (`OrderRanks`), so filters, sorts and
  the median are what they should be (`ThoseProperties`, `NthByPlace`); folds over the packets are
  followed by `EveryNatural`. For `KeepsTime`: modulo the cycle, `Lost` is what lies between two
  packets if the later is ahead by no more than `MaxFill` (`LostBetween`), and after k packets the
  samples reach to every packet so far, not only to the last (`TimeKept`). For `SteadyIsCalm`:
  rates are ordered as fractions (`SlowerOrder`, `RateOrder`), and what less than half of a set
  can be is neither below nor above all others where the middle is (`MiddleOfMost`). A measured pair that
  begins with a packet not overtaken runs at the sender's clock (`GoodPair`), so the median is that
  clock. From then on no jitter arises: the last
  accepted packet was not overtaken and has the latest timestamp so far (`CalmUpTo`, `CalmStep`),
  within a cycle two timestamps are as far apart as the packets were sent, or there was a wrap between
  them (`TimedApart`), and after it all packets are passed over.

Every invariant and action property that a passing run checks is a theorem, and so are both
refinements. Only model-checked: liveness (`NavigationEnds`, `ZipEnds`, `FreesConnection`,
`PageIsAnswered`), which is beyond the prover, and the two violations of section 5. That a session is
a register is proved for one request at a time only; of overlapping requests it is false. The
bounds of `Tick` in `TokenStore` and `BrowserSession` (`MaxTime`) and of the accounts (`Uid`) are
constants the proofs leave arbitrary.

## 5. Where code and documentation disagree

Two disagreements have a run that shows the shortest behaviour (`findings` in `PROJECT.json`):
the last administrator (`user_admin_delete`) and logout (`session_logout`). The others met while
modelling follow; for those about modelled code the definition that shows them is named.

* `routes/auth.rs:173`: the `debug_assert!` that a token just found is still there fails when two
  DELETEs overlap (`RevokeFind`, `RevokeRemove` of `TokenStore`).
* `routes/users.rs:370-392`: reset-password hands an empty user name to `parse_edit_form` and so
  always answers 400 (`UserAdmin`).
* `docs/API.md:26-30`: a bearer token is enough; `middleware.rs:25` sends a request without a cookie
  to the login page before the extractor sees it (`RequireLogin`).
* `routes/pcap.rs:409-410`: the slice from an offset "is the call's"; it begins at the offset and
  goes on to the end of the minute's pcap, with the packets of other calls (`PcapBuild`).
* `users/mod.rs:355-357` says `count_admins` guards "delete / demote"; `update` never counts.
* `auth/session.rs:41-43`: the zone "survives navigation"; ticks saved while `/tz` is under way
  put the old zone back (the lost update that `LostOnlyByOverlap` confines to overlaps).
* `routes/login.rs:280-281`: ticks survive navigation; not within the 400 ms of the timer.
* `routes/login.rs:33-34`: the home page bounces an invalid session to `/login`; the extractor
  answers 401 in plain text.
* `auth/session.rs:104-106`: "the most recent N are kept"; an id sent again keeps its first place.
* `middleware.rs:30`: "so we can bounce back after login"; a bounced `POST /tz` comes back as
  `GET /tz`, which is 405.
* `auth/token.rs:224`: `len` is the number of valid tokens; expired ones are counted.
* `routes/pcap.rs:767-769`: without metadata "ship the pcaps without the CSV"; the CSV is written.
* `cdr/mod.rs:1590-1593`: the ids are sorted "so the resulting zip reads naturally"; entries are
  written in the order in which builds end.
* `docs/API.md:286-288`: a batch is not buffered; the zip is built in memory and sent whole.
* `routes/pcap.rs:749-750`: "a single bad CDR doesn't fail the whole batch"; one past 4 GiB does.
* `docs/API.md:363-364`: more than 100 ids are a 400; they are cut off at the cap (10000 by
  default), with a 200 (`Truncate` of `BatchZip`).
* `docs/API.md:300-301`: global headers are stripped from "every chunk after the first"; the
  first chunk's goes too (`StripChunk`), and with it the link type unless another source has it.
* `docs/API.md:420-422`: every database call has the query timeout; `fetch_cdr_time_range` and the
  batch's queries have none.
* `routes/pcap.rs:146` calls the whole minute the "last resort"; a failed or timed-out query for
  the name gets there too (`FetchFbasename`), and then, though the answer is to be "SIP and
  RTP", a minute with SIP gives only that (`FromMinutes`).
* `routes/pcap.rs:266`: nothing found is a 404; an archive read in which nothing was found still
  makes a blob, an empty one, and the answer is a pcap of a header only, with 200 (`Merge`).
* `docs/API.md` documents `tz_offset_hours` with 0 clearing it; the code reads `tz_offset_secs`,
  where 0 is UTC in the form and "no override" in a query (`state.rs:56`, `resolve_tz`).
* `README.md:133` and `routes/cdr.rs:2404-2408`: an export whose first row is late gets a 504; the
  200 and the header row have gone by then, and the body is broken off (`FirstRowTimesOut`). The
  query goes on with its connection until it has a row to send (`SendRow`).
* A database error in the middle of an export ends the body as if it were complete (`Pull`).
* The CSV of a filter has the times and the window of the default zone, not the session's.
* `docs/API.md:177`: MOS bounds are decimals; `mos_min` and `mos_max` parse as whole numbers, and
  the links and the form print them with a decimal, so that the next page has none
  (`export_query`, `parse_opt`).
* The links of a page drop `page_size`, `caller_in`, `called_in` and the zone (`export_query`). The
  list's own comment (`templates/cdr_list.html:98-101`) has the zone in the URL "shareable": it is
  after Apply, no longer after Next.
* `docs/API.md:171`: `to` is exclusive; the SQL says `<=` (`InWindow`). A link's `to` is a whole minute, so
  Yesterday ends at 23:59:00 (`Minutes`).
* Without a window each page computes "today" anew: Next after midnight is another search.
* `parse_query_params` (`routes/cdr.rs:2691-2692`) decodes `%20` but not `+`, which a form sends for
  a blank: Apply looks for another text (`form_encoded`, excepted in `LinksKeepSearch`).
* An unreadable `tz_offset_secs` is not replaced by a `tz_offset_hours` that is there too, and the
  alias is taken in seconds (`QueryZone`).
* `cdr/mod.rs:1198`: the offset is a `u32` product, which wraps in a release build (`offset`).
* `db.rs:61`: a database error at start-up is taken for the old kind of address columns for good.
* `sensors/mod.rs:115`: a port is in 1..=65535; 0 is accepted (a test says so too), as is a sensor 0.
* A deleted sensor is back, blank, with the next view of the list while it has traffic; of two
  people who save a sensor the last wins without notice (`backfill_from_cdr`, `update`).
* `cdr/rtp_pcap.rs:109-111`: both directions have as many buckets, at the same offsets; each has
  its own, from its own first packet, and a second without packets has none, nor any loss
  (`BucketsOf`, `Loss`).
* `cdr/rtp_pcap.rs:418-423`: a packet "reordered" is passed over; after a wrap of the timestamps that
  is every packet, and the jitter no longer moves. A packet from before the wrap that comes behind
  one from after it is accepted and measured, although it was overtaken (`Accepts`).
* `cdr/wav.rs:188-194`: gaps are filled with silence; so is the way on from a packet that was
  overtaken, and one that came twice plays twice (`Fill`).
* `routes/cdr.rs:1044-1045`: audio of a leg without an address is a 404; every packet is played
  (1098-1112, `LegPackets`). `routes/cdr.rs:1102-1104`: chart and audio split the legs the same way;
  one goes by `sipcallerip`, the other by `a_saddr` and `b_saddr` (`AtoB`, `LegPackets`).
* Chart and audio read the call's packets without the `can_pcap` that a download asks for.

## 6. What is not modelled

* Reading SIP (`cdr/sip_pcap.rs`, `parse_cseq`, the call flow and branches of the detail page): pure
  parsing and drawing of text, with no state; its errors are about strings, which unit tests reach.
* Start-up and configuration run once and keep no state of their own, but for the shape of the
  address columns, which is part of `CdrList`.
* Templates (but for the script and the form of the CDR list), style sheets, module lists and the
  build script have no behaviour of interest.
* Left out inside the modelled parts: cryptography (a cookie decodes or does not; a password is
  right or not), the bytes of tar, zstd, LZO and pcap headers (of a chunk that fails to
  decompress the bytes could happen to look like a record; the model finds none), of RTP headers, of CSV and of WAV; the decoding of G.711
  samples; the textual form of addresses (`cdr/ip.rs`); wording of pages and logs; SQL beyond what a
  statement reads and writes; and the form pages and lists that change nothing. Legs other than
  `a` and `b` are a 400 before anything is read.
