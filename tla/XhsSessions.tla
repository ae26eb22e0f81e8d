----------------------------- MODULE XhsSessions -----------------------------
(***************************************************************************)
(* The browser and the cookies with which the bot visits Xiaohongshu for   *)
(* one user (app/tools/xhs_ops.py).  _xhs_sessions has at most one browser *)
(* for the user and Redis the cookies of the last login.  The tool calls   *)
(* of one round of a sub-agent run side by side (gemini_provider.py:1297), *)
(* and the calls of other users sweep away what has been idle, so the      *)
(* awaits within opening, closing and logging in are where they meet.      *)
(***************************************************************************)
EXTENDS Naturals, FiniteSets

CONSTANTS Visits,      \* tool calls that may be under way at once
          MaxBrowsers, \* bound: browsers that are opened
          MaxScans,    \* bound: QR codes that the user scans
          MaxVisits,   \* bound: tool calls
          MaxXhsFaults \* bound: awaits that raise or time out, commands of Redis that fail

ASSUME XhsConstants == {MaxBrowsers, MaxScans, MaxVisits, MaxXhsFaults} \subseteq Nat

VARIABLES
  inTable,  \* _xhs_sessions[session_key]: its browser, 0 if there is none
  browsers,  \* those that are open
  jar,      \* the login whose cookies a browser has, 0 for none
  loggedIn, \* the browsers whose session says logged_in
  stored,   \* the login whose cookies Redis has, 0 for none
  shown,    \* the browsers whose page still shows a QR code that nobody polls
  visit,    \* [op, at, b, then]: a tool call, the await it is in, its browser,
            \* and where it goes on once a browser is closed
  opened, scans, visits, xhsFaults,
  crossed,  \* history: whether the last visit began while another was under way
  leftAt    \* history: the last login before a logout that no other visit overlapped
            \* and whose DEL went through

xhsVars == <<inTable, browsers, jar, loggedIn, stored, shown, visit, opened, scans, visits, xhsFaults,
             crossed, leftAt>>

Browsers == 1 .. MaxBrowsers
NoVisit == [op |-> "none", at |-> "idle", b |-> 0, then |-> "end"]
Ops == {"none", "look", "search", "check", "login", "publish", "close", "logout"}
Places == {"idle", "closing", "saved", "opening", "lookup", "launch", "loading", "context", "page",
           "qr", "creator", "leaving"}

XhsTypeOK ==
  /\ inTable \in 0 .. MaxBrowsers /\ browsers \subseteq Browsers /\ loggedIn \subseteq Browsers
  /\ jar \in [Browsers -> 0 .. MaxScans] /\ stored \in 0 .. MaxScans
  /\ shown \subseteq Browsers
  /\ visit \in [Visits -> [op: Ops, at: Places, b: 0 .. MaxBrowsers,
                           then: {"end", "opening", "lookup", "launch"}]]
  /\ opened \in 0 .. MaxBrowsers /\ scans \in 0 .. MaxScans /\ visits \in 0 .. MaxVisits
  /\ xhsFaults \in 0 .. MaxXhsFaults /\ crossed \in BOOLEAN /\ leftAt \in 0 .. MaxScans

XhsInit ==
  /\ inTable = 0 /\ browsers = {} /\ loggedIn = {} /\ stored = 0 /\ shown = {}
  /\ jar = [b \in Browsers |-> 0]
  /\ visit = [v \in Visits |-> NoVisit]
  /\ opened = 0 /\ scans = 0 /\ visits = 0 /\ xhsFaults = 0
  /\ crossed = FALSE /\ leftAt = 0

OfOp(v, ops) == visit[v].op \in ops
Goes(v, at) == visit' = [visit EXCEPT ![v].at = at]
VisitEnds(v) == visit' = [visit EXCEPT ![v] = NoVisit]

\* a call of op runs to its first await, with browser b
Begin(v, op, at, b, then) ==
  /\ visit[v].at = "idle" /\ visits < MaxVisits /\ visits' = visits + 1
  /\ visit' = [visit EXCEPT ![v] = [op |-> op, at |-> at, b |-> b, then |-> then]]
  /\ crossed' = (\E w \in Visits \ {v} : visit[w].at # "idle")

-----------------------------------------------------------------------------
(* _cleanup_xhs_session                                                    *)

XhsFault == xhsFaults < MaxXhsFaults /\ xhsFaults' = xhsFaults + 1

\* _save_cookies_to_redis and _clear_cookies_from_redis (0): the command is done,
\* or it fails, of which the caller hears nothing
Stores(login) ==
  \/ stored' = login /\ UNCHANGED xhsFaults
  \/ XhsFault /\ UNCHANGED stored

\* up to its first await: the session leaves the table
CloseSession(v, then) ==
  /\ visit' = [visit EXCEPT ![v].at = "closing", ![v].b = inTable, ![v].then = then]
  /\ inTable' = 0

\* the cookies of the browser are saved, though others may have changed those in
\* Redis since it left the table
SaveOnClose(v) ==
  LET b == visit[v].b IN
  /\ visit[v].at = "closing" /\ Goes(v, "saved")
  /\ IF b \in browsers /\ jar[b] # 0 THEN Stores(jar[b]) ELSE UNCHANGED <<stored, xhsFaults>>
  /\ UNCHANGED <<inTable, browsers, jar, loggedIn, shown, opened, scans, visits, crossed, leftAt>>

\* context, browser and driver are closed; if the first raises, the others stay
Closed(v) ==
  /\ visit[v].at = "saved"
  /\ \/ browsers' = browsers \ {visit[v].b} /\ UNCHANGED xhsFaults
     \/ XhsFault /\ UNCHANGED browsers
  /\ IF visit[v].then = "end" THEN VisitEnds(v)
     ELSE visit' = [visit EXCEPT ![v].at = visit[v].then, ![v].b = 0, ![v].then = "end"]
  /\ UNCHANGED <<inTable, jar, loggedIn, stored, shown, opened, scans, visits, crossed, leftAt>>

\* _handle_xhs_close, and _cleanup_stale_sessions in a call of another user
Close(v) ==
  /\ inTable # 0 /\ inTable' = 0
  /\ Begin(v, "close", "closing", inTable, "end")
  /\ UNCHANGED <<browsers, jar, loggedIn, stored, shown, opened, scans, xhsFaults, leftAt>>

-----------------------------------------------------------------------------
(* _get_or_create_xhs_session                                              *)

\* _handle_xhs_get_note, _handle_xhs_get_user, _xhs_search_impl
Look(v, op) ==
  /\ op \in {"look", "search"} /\ Begin(v, op, "opening", 0, "end")
  /\ UNCHANGED <<inTable, browsers, jar, loggedIn, stored, shown, opened, scans, xhsFaults, leftAt>>

\* the session in the table is swept if it was idle for ten minutes; then it is
\* taken, or closed if its browser is gone, or a browser is started
GetSession(v) ==
  /\ visit[v].at \in {"opening", "lookup"}
  /\ \/ visit[v].at = "opening" /\ inTable # 0 /\ CloseSession(v, "lookup")
     \/ /\ inTable \in browsers
        /\ visit' = [visit EXCEPT ![v].at = "page", ![v].b = inTable]
        /\ UNCHANGED inTable
     \/ inTable # 0 /\ inTable \notin browsers /\ CloseSession(v, "launch")
     \/ inTable = 0 /\ Goes(v, "launch") /\ UNCHANGED inTable
  /\ UNCHANGED <<browsers, jar, loggedIn, stored, shown, opened, scans, visits, xhsFaults,
                 crossed, leftAt>>

\* chromium.launch has returned
Launch(v) ==
  /\ visit[v].at = "launch" /\ opened < MaxBrowsers
  /\ opened' = opened + 1
  /\ browsers' = browsers \cup {opened + 1}
  /\ visit' = [visit EXCEPT ![v].at = "loading", ![v].b = opened + 1]
  /\ UNCHANGED <<inTable, jar, loggedIn, stored, shown, scans, visits, xhsFaults, crossed, leftAt>>

\* the cookies are read, or the GET fails and there are none, and wait for the context
LoadCookies(v) ==
  /\ visit[v].at = "loading" /\ Goes(v, "context")
  /\ \/ jar' = [jar EXCEPT ![visit[v].b] = stored] /\ UNCHANGED xhsFaults
     \/ stored # 0 /\ XhsFault /\ jar' = [jar EXCEPT ![visit[v].b] = 0]
  /\ UNCHANGED <<inTable, browsers, loggedIn, stored, shown, opened, scans, visits, crossed, leftAt>>

\* Mutant of Insert: the session is not put into the table.
InsertNothing(v) ==
  /\ visit[v].at = "context" /\ Goes(v, "page")
  /\ UNCHANGED <<inTable, browsers, jar, loggedIn, stored, shown, opened, scans, visits,
                 xhsFaults, crossed, leftAt>>

\* the session goes into the table, whatever is there by now
Insert(v) ==
  LET b == visit[v].b IN
  /\ visit[v].at = "context" /\ Goes(v, "page")
  /\ inTable' = b
  /\ loggedIn' = IF jar[b] # 0 THEN loggedIn \cup {b} ELSE loggedIn
  /\ UNCHANGED <<browsers, jar, stored, shown, opened, scans, visits, xhsFaults, crossed, leftAt>>

-----------------------------------------------------------------------------
(* The tools, with their page; a page of a closed browser raises           *)

OnPage(v, ops) == OfOp(v, ops) /\ visit[v].at = "page" /\ visit[v].b \in browsers

\* _handle_xhs_get_note, _handle_xhs_get_user, a search that finds something
Looked(v) ==
  /\ OnPage(v, {"look", "search"}) /\ VisitEnds(v) /\ shown' = shown \ {visit[v].b}
  /\ UNCHANGED <<inTable, browsers, jar, loggedIn, stored, opened, scans, visits, xhsFaults,
                 crossed, leftAt>>

\* _xhs_search_impl at the login wall: the cookies go, and the login that should
\* follow does not, for tenant_id is not defined there
Walled(v) ==
  /\ OnPage(v, {"search"}) /\ VisitEnds(v)
  /\ Stores(0) /\ loggedIn' = loggedIn \ {visit[v].b} /\ shown' = shown \ {visit[v].b}
  /\ UNCHANGED <<inTable, browsers, jar, opened, scans, visits, crossed, leftAt>>

\* _handle_xhs_check_login takes the session of the table as it is
Check(v) ==
  /\ IF inTable # 0 THEN Begin(v, "check", "page", inTable, "end")
     ELSE Begin(v, "check", "launch", 0, "end")
  /\ UNCHANGED <<inTable, browsers, jar, loggedIn, stored, shown, opened, scans, xhsFaults, leftAt>>

\* _handle_xhs_login drops it
Login(v) ==
  /\ IF inTable # 0 THEN Begin(v, "login", "closing", inTable, "opening")
     ELSE Begin(v, "login", "launch", 0, "end")
  /\ inTable' = 0
  /\ UNCHANGED <<browsers, jar, loggedIn, stored, shown, opened, scans, xhsFaults, leftAt>>

\* _check_login_success says yes: the cookies of the browser are saved
Recognised(v) ==
  LET b == visit[v].b IN
  /\ OnPage(v, {"check", "login"}) /\ jar[b] # 0 /\ VisitEnds(v)
  /\ loggedIn' = loggedIn \cup {b} /\ Stores(jar[b])
  /\ UNCHANGED <<inTable, browsers, jar, shown, opened, scans, visits, crossed, leftAt>>

\* it says no: check_login reports it, login deletes the cookies and shows a QR code
Unrecognised(v) ==
  /\ \/ /\ OnPage(v, {"check"}) /\ loggedIn' = loggedIn \ {visit[v].b} /\ VisitEnds(v)
        /\ UNCHANGED <<stored, xhsFaults>>
     \/ OnPage(v, {"login"}) /\ Stores(0) /\ Goes(v, "qr") /\ UNCHANGED loggedIn
  /\ UNCHANGED <<inTable, browsers, jar, shown, opened, scans, visits, crossed, leftAt>>

\* the user scans the code in time and the cookies of the new login are saved; the
\* publication goes on with them
Scanned(v) ==
  LET b == visit[v].b IN
  /\ visit[v].at = "qr" /\ b \in browsers /\ scans < MaxScans
  /\ scans' = scans + 1
  /\ jar' = [jar EXCEPT ![b] = scans + 1]
  /\ loggedIn' = loggedIn \cup {b} /\ Stores(scans + 1)
  /\ VisitEnds(v)
  /\ UNCHANGED <<inTable, browsers, shown, opened, visits, crossed, leftAt>>

\* or does not, and the code stays on the page
NotScanned(v) ==
  /\ visit[v].at = "qr" /\ VisitEnds(v) /\ shown' = shown \cup {visit[v].b}
  /\ UNCHANGED <<inTable, browsers, jar, loggedIn, stored, opened, scans, visits, xhsFaults,
                 crossed, leftAt>>

\* the user scans it after all: the browser is logged in, and nobody knows until
\* check_login looks or the browser is closed
ScannedLate ==
  /\ scans < MaxScans /\ scans' = scans + 1
  /\ \E b \in shown \cap browsers :
       jar' = [jar EXCEPT ![b] = scans + 1] /\ shown' = shown \ {b}
  /\ UNCHANGED <<inTable, browsers, loggedIn, stored, visit, opened, visits, xhsFaults, crossed,
                 leftAt>>

\* _handle_xhs_publish: a session that is logged in, as it is in the table
PublishNote(v) ==
  /\ inTable \in loggedIn /\ Begin(v, "publish", "page", inTable, "end")
  /\ UNCHANGED <<inTable, browsers, jar, loggedIn, stored, shown, opened, scans, xhsFaults, leftAt>>

\* the cookies are refreshed on the main site and saved
PublishRefresh(v) ==
  LET b == visit[v].b IN
  /\ OnPage(v, {"publish"}) /\ Goes(v, "creator")
  /\ IF jar[b] # 0 THEN Stores(jar[b]) ELSE UNCHANGED <<stored, xhsFaults>>
  /\ shown' = shown \ {b}
  /\ UNCHANGED <<inTable, browsers, jar, loggedIn, opened, scans, visits, crossed, leftAt>>

\* the creator site takes them and the note is published; or it does not, the
\* cookies of the browser are cleared if it is logged in, and a QR code is shown
PublishCreator(v) ==
  LET b == visit[v].b IN
  /\ visit[v].at = "creator" /\ b \in browsers
  /\ \/ VisitEnds(v) /\ UNCHANGED jar
     \/ Goes(v, "qr") /\ (jar' = [jar EXCEPT ![b] = 0] \/ UNCHANGED jar)
  /\ UNCHANGED <<inTable, browsers, loggedIn, stored, shown, opened, scans, visits, xhsFaults,
                 crossed, leftAt>>

\* _handle_xhs_logout: the session is popped and closed without saving
Logout(v) ==
  /\ Begin(v, "logout", "leaving", inTable, "end") /\ inTable' = 0
  /\ UNCHANGED <<browsers, jar, loggedIn, stored, shown, opened, scans, xhsFaults, leftAt>>

\* Mutant of CookiesLeft: the cookies stay in Redis.
CookiesStay(kept) == kept

\* _clear_cookies_from_redis
CookiesLeft(kept) == 0

\* then the cookies are deleted, even if closing raised; if the DEL fails, they
\* stay, and the answer to the user is the same
LoggedOut(v) ==
  /\ visit[v].at = "leaving" /\ VisitEnds(v)
  /\ \/ /\ \/ browsers' = browsers \ {visit[v].b} /\ UNCHANGED xhsFaults
           \/ visit[v].b # 0 /\ XhsFault /\ UNCHANGED browsers
        /\ stored' = CookiesLeft(stored)
        /\ leftAt' = IF crossed THEN leftAt ELSE scans
     \/ /\ browsers' = browsers \ {visit[v].b} /\ XhsFault
        /\ UNCHANGED <<stored, leftAt>>
  /\ UNCHANGED <<inTable, jar, loggedIn, shown, opened, scans, visits, crossed>>

-----------------------------------------------------------------------------
(* What goes wrong                                                         *)

\* an await raises, or the time of the search or of the whole run is up within it:
\* the call ends, and what it held is not closed
VisitFails(v) ==
  /\ visit[v].at # "idle"
  /\ \/ XhsFault
     \/ visit[v].at \in {"page", "qr", "creator"} /\ visit[v].b \notin browsers /\ UNCHANGED xhsFaults
  /\ VisitEnds(v)
  /\ UNCHANGED <<inTable, browsers, jar, loggedIn, stored, shown, opened, scans, visits,
                 crossed, leftAt>>

BrowserDies ==
  /\ \E b \in browsers : browsers' = browsers \ {b}
  /\ XhsFault
  /\ UNCHANGED <<inTable, jar, loggedIn, stored, visit, shown, opened, scans, visits, crossed,
                 leftAt>>

XhsNext ==
  \/ BrowserDies \/ ScannedLate
  \/ \E v \in Visits :
       \/ Look(v, "look") \/ Look(v, "search") \/ Check(v) \/ Login(v) \/ PublishNote(v)
       \/ Close(v) \/ Logout(v)
       \/ SaveOnClose(v) \/ Closed(v)
       \/ GetSession(v) \/ Launch(v) \/ LoadCookies(v) \/ Insert(v)
       \/ Looked(v) \/ Walled(v) \/ Recognised(v) \/ Unrecognised(v) \/ Scanned(v) \/ NotScanned(v)
       \/ PublishRefresh(v) \/ PublishCreator(v)
       \/ LoggedOut(v) \/ VisitFails(v)

XhsSpec == XhsInit /\ [][XhsNext]_xhsVars

-----------------------------------------------------------------------------
(* Properties                                                              *)

\* the browsers that nobody will ever close
Stray == browsers \ ({inTable} \cup {visit[v].b : v \in Visits})

\* A browser is lost only when calls for the same user overlap or an await fails:
\* otherwise each step leaves every open browser in the table or with the call
\* that is going to put it there or to close it (xhs_ops.py:1283-1390).
NoBrowserLost ==
  [][~crossed' /\ xhsFaults' = xhsFaults => Stray' \subseteq Stray]_xhsVars

\* A logout whose DEL went through holds: if no other call overlapped it, neither
\* Redis nor the session of the user has the cookies of an earlier login, whatever
\* is opened, swept, saved and searched later, and whichever of the later commands
\* fail (xhs_ops.py:3245-3276). One whose DEL failed is answered in the same words
\* and promises nothing.
LogoutHolds ==
  \A login \in {stored} \cup {jar[b] : b \in {inTable} \ {0}} : login = 0 \/ login > leftAt
=============================================================================
