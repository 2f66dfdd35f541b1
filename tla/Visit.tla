-------------------------------- MODULE Visit --------------------------------
(***************************************************************************)
(* A tab of the web app around the flows of WebFlow.tla: whose book it     *)
(* shows and where it lands (App.tsx, access.ts), and what it tells the    *)
(* API of itself: the funnel (analytics.ts; beacon.js on the site) and its *)
(* errors (errors.tsx), which apps/api takes in under limits by the minute *)
(* (events.ts, clientlog.ts).                                              *)
(*                                                                         *)
(* A wallet reconnects, connects and goes while the visitor clicks; a      *)
(* render computes the view and runs the effects in the order they are     *)
(* written.  Requests are fired and forgotten: they arrive in any order or *)
(* not at all, and the API counts the rows of the last minute before it    *)
(* adds one.                                                               *)
(***************************************************************************)
EXTENDS Integers, Sequences, FiniteSets

CONSTANTS
  Accounts,     \* addresses of the visitor's wallets
  Watched,      \* addresses of others, that links are shared of
  Failures,     \* errors that differ in action or message
  NoOne,        \* no address, no path, no time
  EventCap,     \* MAX_TOTAL_PER_MIN of events.ts
  LogCap,       \* MAX_TOTAL_PER_MIN of clientlog.ts
  IpCap,        \* MAX_PER_IP_PER_MIN
  MaxRecent,    \* reports that are remembered
  Minute,       \* in ticks of the clock
  Visits        \* how a tab opens, and bounds on what is done in it

Paths == {"/", "/tokens", "/position", "/access"}
Tables == {"event", "log"}
Doings == {"click", "wallet", "error", "request", "tick"}

(* A tab opens at a link, perhaps a shared book's, with a wallet that was  *)
(* connected before or not, and storage that works or throws.              *)
Start ==
  [path : Paths, param : Watched \cup {NoOne}, storage : BOOLEAN, status : {"none", "reconnecting"}]

ASSUME VisitAssumption ==
  /\ {EventCap, LogCap, IpCap, MaxRecent} \subseteq Nat
  /\ Minute \in Nat \ {0}
  /\ Visits \subseteq [start : Start, budget : [Doings -> Nat]]
  /\ Accounts \cap (Watched \cup Failures) = {} /\ Paths \cap (Accounts \cup Failures) = {}
  /\ "off" \notin Accounts \cup Watched \cup Paths
  /\ NoOne \notin Accounts \cup Watched \cup Paths \cup Nat \cup {"off"}
  /\ Failures # {}

VARIABLES
  tab,       \* where the tab is, what it has rendered and what it remembers
  account,   \* the wallet connection
  recent,    \* errors.tsx: when an error was last sent
  wire,      \* requests on their way or in the API, or lost
  rows,      \* D1: client_events and client_errors
  atOnce,    \* history: the most requests of a kind between count and insert
  flooded,   \* history: the memory of reports was cleared
  done,      \* of each kind of doing, how many there were
  budget     \* and how many there may be

visitVars == <<tab, account, recent, wire, rows, atOnce, flooded, done, budget>>

Addresses == Accounts \cup Watched
Now == done["tick"]

Entry == [path : Paths, param : Addresses \cup {NoOne, "off"}]

(* here is the entry of the history, past those behind it; key the sticky  *)
(* view in sessionStorage, book what is shown.  asked, moved and returning *)
(* are history: the address the visitor asked for last, whether he went    *)
(* anywhere, whether his wallet came back by itself.                       *)
Tab ==
  [here : Entry, past : Seq(Entry), stale : BOOLEAN, key : Watched \cup {NoOne},
   storage : BOOLEAN, landed : BOOLEAN, lastPath : Paths \cup {NoOne}, seen : SUBSET Accounts,
   book : Addresses \cup {NoOne}, asked : Watched \cup {NoOne}, moved : BOOLEAN,
   returning : BOOLEAN, entry : Paths]

Account == [status : {"none", "reconnecting", "connected"}, address : Accounts \cup {NoOne}]

(* A request: born when it was sent, at when the API counted.              *)
Request ==
  [id : Nat, kind : Tables, what : Paths \cup Accounts \cup Failures, own : BOOLEAN, born : Nat,
   at : Nat \cup {NoOne}]

VisitTypeOK ==
  /\ tab \in Tab
  /\ account \in Account
  /\ recent \in [Failures -> Nat \cup {NoOne}]
  /\ wire \cup rows \subseteq Request
  /\ atOnce \in [Tables -> Nat]
  /\ flooded \in BOOLEAN
  /\ budget \in [Doings -> Nat]
  /\ \A d \in Doings : done[d] \in 0 .. budget[d]

VisitInit ==
  /\ \E visit \in Visits :
       /\ tab = [here |-> [path |-> visit.start.path, param |-> visit.start.param], past |-> <<>>,
                 stale |-> TRUE, key |-> NoOne, storage |-> visit.start.storage, landed |-> FALSE,
                 lastPath |-> NoOne, seen |-> {}, book |-> NoOne, asked |-> NoOne, moved |-> FALSE,
                 returning |-> FALSE, entry |-> visit.start.path]
       /\ account = [status |-> visit.start.status, address |-> NoOne]
       /\ budget = visit.budget
  /\ recent = [f \in Failures |-> NoOne]
  /\ wire = {} /\ rows = {}
  /\ atOnce = [k \in Tables |-> 0]
  /\ flooded = FALSE
  /\ done = [d \in Doings |-> 0]

Does(d) ==
  /\ done[d] < budget[d]
  /\ done' = [done EXCEPT ![d] = @ + 1]

-----------------------------------------------------------------------------
(* The visitor and the wallet.                                             *)

Go(place, past) ==
  /\ ~tab.stale
  /\ Does("click")
  /\ tab' = [tab EXCEPT !.here = place, !.past = past, !.stale = TRUE, !.moved = TRUE]
  /\ UNCHANGED <<account, recent, wire, rows, atOnce, flooded, budget>>

(* useKeepNavigate takes the address along.                                *)
Navigate(path) ==
  /\ path # tab.here.path
  /\ Go([path |-> path, param |-> tab.here.param], Append(tab.past, tab.here))

(* A link within the app's page with an address, or with "off".            *)
FollowLink(param) ==
  /\ param # tab.here.param
  /\ Go([path |-> tab.here.path, param |-> param], Append(tab.past, tab.here))

(* useBack pops the tab's own entry, or goes where the screen comes from.  *)
Back ==
  IF tab.past # <<>>
  THEN Go(tab.past[Len(tab.past)], SubSeq(tab.past, 1, Len(tab.past) - 1))
  ELSE /\ tab.here.path = "/position"
       /\ Go([path |-> "/", param |-> tab.here.param], <<tab.here>>)

Connection(status, address, returning) ==
  /\ Does("wallet")
  /\ account' = [status |-> status, address |-> address]
  /\ tab' = [tab EXCEPT !.stale = TRUE, !.returning = returning]
  /\ UNCHANGED <<recent, wire, rows, atOnce, flooded, budget>>

(* wagmi ends the reconnection it began at page load.                      *)
Reconnect ==
  /\ account.status = "reconnecting"
  /\ \/ Connection("none", NoOne, FALSE)
     \/ \E a \in Accounts : Connection("connected", a, TRUE)

Connect(a) == account.status = "none" /\ Connection("connected", a, FALSE)

SwitchAccount(a) == account.status = "connected" /\ Connection("connected", a, tab.returning)

Disconnect == account.status = "connected" /\ Connection("none", NoOne, FALSE)

-----------------------------------------------------------------------------
(* What is sent.                                                           *)

NewRequest(kind, what, own, n) ==
  [id |-> done["request"] + n, kind |-> kind, what |-> what, own |-> own, born |-> Now, at |-> NoOne]

(* Those beyond the bound are lost.                                        *)
Fire(kind, whats, own) ==
  LET room == budget["request"] - done["request"]
      few == IF Len(whats) < room THEN Len(whats) ELSE room
  IN /\ done' = [done EXCEPT !["request"] = @ + few]
     /\ wire' = wire \cup {NewRequest(kind, whats[n], own, n) : n \in 1 .. few}

(* Faulty: sends every page view.                                          *)
PageViewAlways(path) == <<path>>

(* track: same-path page views collapse.                                   *)
PageView(path) == IF path = tab.lastPath THEN <<>> ELSE <<path>>

(* Faulty: sends every connection.                                         *)
WalletConnectAlways == IF account.address = NoOne THEN <<>> ELSE <<account.address>>

(* trackWalletConnect: once per address and tab.                           *)
WalletConnect ==
  IF account.address \in tab.seen \cup {NoOne} THEN <<>> ELSE <<account.address>>

-----------------------------------------------------------------------------
(* A render and its effects.                                               *)

(* Faulty: looks at the link and does not keep it.                         *)
KeyNever(param) == NoOne

(* stickyView keeps the address of a link, and drops it for "off".         *)
StickyKey(param) ==
  CASE param = "off" -> NoOne
    [] param \in Watched -> IF tab.storage THEN param ELSE tab.key
    [] OTHER -> tab.key

(* A link goes before a connected wallet, and that before the key.         *)
StickyView(param) ==
  CASE param = "off" -> NoOne
    [] param \notin {"off", NoOne} -> param
    [] OTHER -> IF account.status = "connected" THEN NoOne ELSE tab.key

(* Faulty: lands before the wallet has had its time to reconnect.          *)
LandsAtOnce == ~tab.landed

(* The landing decision waits for the reconnection, and is made once.      *)
Lands == account.status # "reconnecting" /\ ~tab.landed

(* Where the effects leave the tab: an old link at the tokens, and so a    *)
(* visitor without a wallet that lands on the positions.  Both drop the    *)
(* query.                                                                  *)
Redirected ==
  IF tab.here.path = "/access" \/ (Lands /\ account.address = NoOne /\ tab.here.path = "/")
  THEN [path |-> "/tokens", param |-> NoOne] ELSE tab.here

Render ==
  /\ tab.stale
  /\ LET view == StickyView(tab.here.param)
         there == Redirected
     IN /\ tab' = [tab EXCEPT !.key = StickyKey(tab.here.param),
                     !.book = IF view # NoOne THEN view ELSE account.address,
                     !.here = there, !.stale = there # tab.here, !.landed = @ \/ Lands,
                     !.lastPath = there.path,
                     !.seen = @ \cup ({account.address} \ {NoOne}),
                     !.asked = IF tab.here.param \in Watched THEN tab.here.param
                               ELSE IF tab.here.param = "off" \/ account.status = "connected" THEN NoOne
                               ELSE @]
        /\ Fire("event", PageView(there.path) \o WalletConnect, TRUE)
  /\ UNCHANGED <<account, recent, rows, atOnce, flooded, budget>>

-----------------------------------------------------------------------------
(* Reports, and other visitors.                                            *)

(* Faulty: reports without a memory.                                       *)
RepeatedNever(f) == FALSE

(* An identical report within the minute.                                  *)
Repeated(f) == recent[f] # NoOne /\ Now - recent[f] < Minute

(* report: it is remembered first, and a full memory is cleared with it.   *)
Report(f) ==
  /\ done["error"] < budget["error"]
  /\ LET told == [recent EXCEPT ![f] = Now]
         full == Cardinality({g \in Failures : told[g] # NoOne}) > MaxRecent
         send == ~Repeated(f) /\ done["request"] < budget["request"]
     IN /\ recent' = IF Repeated(f) THEN recent
                     ELSE IF full THEN [g \in Failures |-> NoOne] ELSE told
        /\ flooded' = (flooded \/ (~Repeated(f) /\ full))
        /\ wire' = IF send THEN wire \cup {NewRequest("log", f, TRUE, 1)} ELSE wire
        /\ done' = [done EXCEPT !["error"] = @ + 1, !["request"] = IF send THEN @ + 1 ELSE @]
  /\ UNCHANGED <<tab, account, rows, atOnce, budget>>

(* A page of the site, whose beacon counts each load, or another tab.      *)
OtherPage(kind) ==
  /\ done["request"] < budget["request"]
  /\ Fire(kind, <<IF kind = "event" THEN "/" ELSE CHOOSE f \in Failures : TRUE>>, FALSE)
  /\ UNCHANGED <<tab, account, recent, rows, atOnce, flooded, budget>>

-----------------------------------------------------------------------------
(* The API.                                                                *)

LastMinute(kind) == {r \in rows : r.kind = kind /\ Now - r.at < Minute}

(* Faulty: one row too many.                                               *)
FullBeyond(m) == Cardinality(LastMinute(m.kind)) > IF m.kind = "event" THEN EventCap ELSE LogCap

(* The table has its fill of the minute, or the sender has.                *)
Full(m) ==
  IF m.kind = "event" THEN Cardinality(LastMinute("event")) >= EventCap
  ELSE \/ Cardinality(LastMinute("log")) >= LogCap
       \/ Cardinality({r \in LastMinute("log") : r.own = m.own}) >= IpCap

(* handleClientEvent and handleClientLog count, and refuse.                *)
CountRows(m) ==
  /\ m \in wire /\ m.at = NoOne
  /\ wire' = (wire \ {m}) \cup IF Full(m) THEN {} ELSE {[m EXCEPT !.at = Now]}
  /\ atOnce' = [k \in Tables |->
       LET n == Cardinality({r \in wire' : r.kind = k /\ r.at # NoOne})
       IN IF n > atOnce[k] THEN n ELSE atOnce[k]]
  /\ UNCHANGED <<tab, account, recent, rows, flooded, done, budget>>

(* They insert, with the time of the count.                                *)
InsertRow(m) ==
  /\ m \in wire /\ m.at # NoOne
  /\ wire' = wire \ {m}
  /\ rows' = rows \cup {m}
  /\ UNCHANGED <<tab, account, recent, atOnce, flooded, done, budget>>

Tick ==
  /\ Does("tick")
  /\ UNCHANGED <<tab, account, recent, wire, rows, atOnce, flooded, budget>>

VisitNext ==
  \/ \E path \in Paths : Navigate(path)
  \/ \E param \in Watched \cup {"off"} : FollowLink(param)
  \/ Back
  \/ Reconnect \/ Disconnect
  \/ \E a \in Accounts : Connect(a) \/ SwitchAccount(a)
  \/ Render
  \/ \E f \in Failures : Report(f)
  \/ \E kind \in Tables : OtherPage(kind)
  \/ \E m \in wire : CountRows(m) \/ InsertRow(m)
  \/ Tick

VisitSpec == VisitInit /\ [][VisitNext]_visitVars

-----------------------------------------------------------------------------
(* Properties.                                                             *)

(* "double-counted funnel is worse than none": a tab counts a wallet once  *)
(* whatever wagmi does, two page views of a page have another request      *)
(* between them (a landing that is redirected is one), and an error is     *)
(* told once a minute unless the memory of errors was cleared in between;  *)
(* whichever of the requests arrive.                                       *)
CountedOnce ==
  LET own == {m \in wire \cup rows : m.own}
  IN \A m \in own : \A n \in {r \in own : r.id > m.id /\ r.what = m.what} :
       CASE m.what \in Accounts -> FALSE
         [] m.what \in Failures -> n.born - m.born >= Minute \/ flooded
         [] OTHER -> n.id > m.id + 1

(* The limits count and then insert, so that requests that are in the API  *)
(* together all find room: what comes in within a minute stays below the   *)
(* limit and as many more as were ever there at once.                      *)
IntakeBounded ==
  \A k \in Tables :
    LET beyond == IF atOnce[k] = 0 THEN 0 ELSE atOnce[k] - 1
    IN /\ Cardinality(LastMinute(k)) <= (IF k = "event" THEN EventCap ELSE LogCap) + beyond
       /\ k = "log" => \A own \in BOOLEAN :
            Cardinality({r \in LastMinute(k) : r.own = own}) <= IpCap + beyond

(* A link to somebody's book shows it, through redirects that drop the     *)
(* query, screens that do not carry it and the way back, until "off" or a  *)
(* wallet; a visitor whose wallet comes back is not sent off the page he   *)
(* came to; and nobody is shown an address he neither asked for nor owns.  *)
BookKept ==
  ~tab.stale =>
    /\ tab.asked # NoOne /\ tab.storage => tab.book = tab.asked
    /\ tab.returning /\ ~tab.moved /\ tab.entry # "/access" => tab.here.path = tab.entry
    /\ tab.book \in Accounts => tab.book = account.address
=============================================================================
