----------------------------- MODULE ViewProofs -----------------------------
(***************************************************************************)
(* Proofs about what the page makes of the WELCOMEs it gets, for every     *)
(* URL, every --client-option, every set of window sizes and every bound   *)
(* on the frames under way.                                                *)
(***************************************************************************)
EXTENDS View, TLAPS

-----------------------------------------------------------------------------
(* The invariant.                                                          *)

\* The variables of the page that a WELCOME decides, and what they depend on.
Marks == {"phase", "isRO", "stdin", "shownRO", "roNotified", "notices", "query", "prefs",
          "osc52", "clipboardOK"}

\* The URL and the server give values to known keys.
GivenInv ==
  /\ DOMAIN page.query \subseteq PrefKeys
  /\ DOMAIN server.prefs \subseteq PrefKeys

\* A key that the URL gives has its value from the start; one that nobody gives
\* keeps the default.
PrefsInv ==
  /\ page.prefs = [k \in PrefKeys |-> page.prefs[k]]
  /\ \A k \in PrefKeys :
       /\ k \in DOMAIN page.query => page.prefs[k] = Themed(page.query)[k]
       /\ k \notin DOMAIN page.query \cup DOMAIN server.prefs => page.prefs[k] = Defaults[k]

\* One notice per connection, one addon per page.
OnceInv ==
  /\ page.notices = IF page.roNotified THEN 1 ELSE 0
  /\ page.osc52 \in {0, 1}
  /\ page.roNotified \in BOOLEAN

\* What is on its way is what the server says now: the preferences always, the
\* role in the last frame.
DownInv ==
  /\ \E S : down \in Seq(S)
  /\ \A i \in DOMAIN down : down[i].prefs = server.prefs
  /\ down # <<>> => LET w == down[Len(down)]
                    IN w.mode = server.role /\ w.osc52 = (server.osc52 /\ server.role = "rw")
  /\ server.role \in {"ro", "rw"}

\* What the server says is what the page shows.
Shows(p, mode, prefs, osc52) ==
  /\ p.isRO = (mode = "ro") /\ p.stdin = (mode = "rw") /\ p.shownRO = (mode = "ro")
  /\ \A k \in DOMAIN prefs \ DOMAIN p.query : p.prefs[k] = Themed(prefs)[k]
  /\ osc52 /\ p.clipboardOK => p.osc52 = 1

HonourInv ==
  page.phase = "in" /\ down = <<>> =>
    Shows(page, server.role, server.prefs, server.osc52 /\ server.role = "rw")

ViewInv ==
  /\ Marks \subseteq DOMAIN page
  /\ {"role", "prefs", "osc52"} \subseteq DOMAIN server
  /\ GivenInv /\ PrefsInv /\ OnceInv /\ DownInv /\ HonourInv

-----------------------------------------------------------------------------
(* Objects spread over others. *)

\* A spread has the keys of both; what is given wins.
LEMMA OverValues ==
  ASSUME NEW f, NEW g
  PROVE  /\ DOMAIN Over(f, g) = DOMAIN f \cup DOMAIN g
         /\ \A k \in DOMAIN f \cup DOMAIN g :
              Over(f, g)[k] = IF k \in DOMAIN f THEN f[k] ELSE g[k]
         /\ Over(f, g) = [k \in DOMAIN f \cup DOMAIN g |-> Over(f, g)[k]]
  BY DEF Over

\* The keys that are kept keep their values.
LEMMA OnlyValues ==
  ASSUME NEW f, NEW keys
  PROVE  /\ DOMAIN Only(f, keys) = DOMAIN f \cap keys
         /\ \A k \in DOMAIN f \cap keys : Only(f, keys)[k] = f[k]
  BY DEF Only

\* A merged theme takes the place of the one given.
LEMMA ThemedKeys ==
  ASSUME NEW prefs
  PROVE  DOMAIN Themed(prefs) = DOMAIN prefs
  BY DEF Themed

-----------------------------------------------------------------------------
(* A size that is reported or drawn is no mark. *)

\* Two pages that differ in sizes, frames and overlay only.
SameMarks(p, q) ==
  DOMAIN q = DOMAIN p /\ \A f \in Marks : f \in DOMAIN p => q[f] = p[f]

\* Reporting a size changes no mark.
LEMMA SendResizeKeeps ==
  ASSUME NEW p, NEW d
  PROVE  SameMarks(p, sendResize(p, d))
  BY DEF sendResize, SameMarks, Marks

\* Neither does a refit.
LEMMA RefitKeeps ==
  ASSUME NEW p
  PROVE  SameMarks(p, refit(p))
  BY SendResizeKeeps DEF refit, SameMarks, Marks

-----------------------------------------------------------------------------
(* Preferences. *)

\* A value for every key.
FullPrefs(prefs) == prefs = [k \in PrefKeys |-> prefs[k]]

\* Of what is given under some keys, what the URL leaves wins over what there was.
LEMMA SkippingValues ==
  ASSUME NEW old, FullPrefs(old), NEW query, NEW given, NEW keys,
         DOMAIN given \subseteq PrefKeys
  PROVE  LET new == ApplySkipping(old, query, Only(given, keys))
         IN /\ FullPrefs(new)
            /\ \A k \in PrefKeys :
                 new[k] = IF k \in (DOMAIN given \cap keys) \ DOMAIN query THEN given[k]
                          ELSE old[k]
<1> DEFINE some == Only(given, keys)
           kept == Only(some, PrefKeys \ DOMAIN query)
           new  == Over(kept, old)
<1>1. DOMAIN old = PrefKeys
  BY DEF FullPrefs
<1>2. /\ DOMAIN some = DOMAIN given \cap keys
      /\ \A k \in DOMAIN given \cap keys : some[k] = given[k]
  BY OnlyValues
<1>3. /\ DOMAIN kept = DOMAIN some \cap (PrefKeys \ DOMAIN query)
      /\ \A k \in DOMAIN some \cap (PrefKeys \ DOMAIN query) : kept[k] = some[k]
  BY OnlyValues
<1> HIDE DEF some, kept
<1>4. /\ DOMAIN new = DOMAIN kept \cup DOMAIN old
      /\ \A k \in DOMAIN kept \cup DOMAIN old :
           new[k] = IF k \in DOMAIN kept THEN kept[k] ELSE old[k]
      /\ new = [k \in DOMAIN kept \cup DOMAIN old |-> new[k]]
  BY OverValues, Zenon
<1> HIDE DEF new
<1>5. DOMAIN kept = (DOMAIN given \cap keys) \ DOMAIN query
  BY <1>2, <1>3
<1>6. DOMAIN kept \cup DOMAIN old = PrefKeys
  BY <1>1, <1>3
<1>7. FullPrefs(new)
  BY <1>4, <1>6 DEF FullPrefs
<1>8. ASSUME NEW k \in PrefKeys
      PROVE  new[k] = IF k \in (DOMAIN given \cap keys) \ DOMAIN query THEN given[k]
                      ELSE old[k]
  BY <1>2, <1>3, <1>4, <1>5, <1>6
<1> QED BY <1>7, <1>8 DEF new, kept, some, ApplySkipping

\* What ApplyPrefs leaves: the keys that the URL does not give have the values
\* given, the addon is loaded once, and nothing else of the marks changes.
Applied(p, q, given, osc52) ==
  /\ DOMAIN q = DOMAIN p
  /\ \A f \in Marks \ {"prefs", "osc52"} : q[f] = p[f]
  /\ q.osc52 = p.osc52 + (IF (osc52 /\ p.clipboardOK) /\ p.osc52 = 0 THEN 1 ELSE 0)
  /\ FullPrefs(q.prefs)
  /\ \A k \in PrefKeys :
       q.prefs[k] = IF k \in DOMAIN given \ DOMAIN p.query THEN Themed(given)[k]
                    ELSE p.prefs[k]

LEMMA ApplyPrefsValues ==
  ASSUME NEW p, Marks \subseteq DOMAIN p, FullPrefs(p.prefs),
         NEW given, DOMAIN given \subseteq PrefKeys, NEW osc52
  PROVE  Applied(p, ApplyPrefs(p, given, osc52), given, osc52)
<1> DEFINE themed == Themed(given)
           first  == ApplySkipping(p.prefs, p.query, Only(themed, XTERM_PREF_KEYS))
           before == [p EXCEPT !.prefs = first]
           drawn  == refit(before)
           second == ApplySkipping(first, p.query, Only(themed, BEHAVIOR_PREF_KEYS))
           after  == [drawn EXCEPT !.prefs = second]
           q      == LoadOsc52(after, osc52 /\ p.clipboardOK)
<1>1. DOMAIN themed = DOMAIN given
  BY ThemedKeys
<1>2. splitPrefs(Themed(given)).xterm = Only(themed, XTERM_PREF_KEYS)
      /\ splitPrefs(Themed(given)).behavior = Only(themed, BEHAVIOR_PREF_KEYS)
  BY DEF splitPrefs
<1>3. SameMarks(before, drawn)
  BY RefitKeeps
<1>4. /\ FullPrefs(first)
      /\ \A k \in PrefKeys :
           first[k] = IF k \in (DOMAIN themed \cap XTERM_PREF_KEYS) \ DOMAIN p.query
                      THEN themed[k] ELSE p.prefs[k]
  <2> HIDE DEF themed
  <2> QED BY <1>1, SkippingValues
<1>5. /\ FullPrefs(second)
      /\ \A k \in PrefKeys :
           second[k] = IF k \in (DOMAIN themed \cap BEHAVIOR_PREF_KEYS) \ DOMAIN p.query
                       THEN themed[k] ELSE first[k]
  <2> HIDE DEF first, themed
  <2> QED BY <1>1, <1>4, SkippingValues
<1>6. drawn.prefs = first /\ DOMAIN drawn = DOMAIN p
      /\ \A f \in Marks \ {"prefs"} : drawn[f] = p[f]
  <2> HIDE DEF first, drawn
  <2> QED BY <1>3 DEF SameMarks, Marks
<1>7. ApplyPrefs(p, given, osc52) = q
  <2>1. ApplyPrefs(p, given, osc52)
          = LoadOsc52([drawn EXCEPT !.prefs = ApplySkipping(@, p.query,
                                       Only(themed, BEHAVIOR_PREF_KEYS))],
                      osc52 /\ p.clipboardOK)
    BY <1>2 DEF ApplyPrefs
  <2> HIDE DEF first, drawn
  <2>2. [drawn EXCEPT !.prefs = ApplySkipping(@, p.query, Only(themed, BEHAVIOR_PREF_KEYS))]
          = [drawn EXCEPT !.prefs = ApplySkipping(first, p.query,
                                                  Only(themed, BEHAVIOR_PREF_KEYS))]
    BY <1>6 DEF Marks
  <2> QED BY <2>1, <2>2
<1> HIDE DEF first, drawn, second
<1>8. DOMAIN q = DOMAIN p
      /\ \A f \in Marks \ {"prefs", "osc52"} : q[f] = p[f]
  BY <1>6 DEF LoadOsc52, Marks
<1>9. q.prefs = second
  BY <1>6 DEF LoadOsc52, Marks
<1>10. q.osc52 = p.osc52 + (IF (osc52 /\ p.clipboardOK) /\ p.osc52 = 0 THEN 1 ELSE 0)
  BY <1>6 DEF LoadOsc52, Marks
<1> HIDE DEF q
<1>11. ASSUME NEW k \in PrefKeys
       PROVE  second[k] = IF k \in DOMAIN given \ DOMAIN p.query THEN Themed(given)[k]
                          ELSE p.prefs[k]
  BY <1>1, <1>4, <1>5 DEF PrefKeys
<1> QED BY <1>5, <1>7, <1>8, <1>9, <1>10, <1>11 DEF Applied

-----------------------------------------------------------------------------
(* The invariant holds: the start, then one lemma per kind of step.        *)

LEMMA InitView == ASSUME Init PROVE ViewInv
<1> PICK search \in Searches : page = NewPage(search, ClipboardOK)
  BY DEF Init
<1> PICK session \in {"shared", "per-client"}, policy \in {"owner", "all", "none"},
         options \in Options :
           server = NewServer(session, policy, options, AllowOsc52)
  BY DEF Init
<1> DEFINE query  == parseQueryPrefs(search)
           themed == Themed(query)
           start  == Over(themed, Defaults)
<1>1. page.query = query /\ page.prefs = start /\ page.phase = "off" /\ page.notices = 0
      /\ page.roNotified = FALSE /\ page.osc52 = 0 /\ Marks \subseteq DOMAIN page
  BY DEF NewPage, Marks
<1>2. DOMAIN query \subseteq PrefKeys
  <2> DEFINE keys == PrefKeys \ search.bad
  <2>1. query = Only(search.given, keys)
    BY DEF parseQueryPrefs
  <2>2. DOMAIN Only(search.given, keys) = DOMAIN search.given \cap keys
    BY OnlyValues, Zenon
  <2> HIDE DEF query
  <2> QED BY <2>1, <2>2
<1>3. DOMAIN themed = DOMAIN query
  BY ThemedKeys
<1> HIDE DEF query, themed
<1>4. /\ DOMAIN start = DOMAIN themed \cup DOMAIN Defaults
      /\ \A k \in DOMAIN themed \cup DOMAIN Defaults :
           start[k] = IF k \in DOMAIN themed THEN themed[k] ELSE Defaults[k]
      /\ start = [k \in DOMAIN themed \cup DOMAIN Defaults |-> start[k]]
  BY OverValues, Zenon
<1> HIDE DEF start
<1>5. DOMAIN Defaults = PrefKeys
  BY DEF Defaults, PrefKeys, XTERM_PREF_KEYS, BEHAVIOR_PREF_KEYS
<1>6. DOMAIN themed \cup DOMAIN Defaults = PrefKeys
  BY <1>2, <1>3, <1>5
<1>7. PrefsInv
  <2>1. page.prefs = [k \in PrefKeys |-> page.prefs[k]]
    BY <1>1, <1>4, <1>6
  <2>2. Themed(page.query) = themed
    BY <1>1 DEF themed
  <2>3. ASSUME NEW k \in PrefKeys
        PROVE  /\ k \in DOMAIN page.query => page.prefs[k] = Themed(page.query)[k]
               /\ k \notin DOMAIN page.query \cup DOMAIN server.prefs
                    => page.prefs[k] = Defaults[k]
    BY <1>1, <1>3, <1>4, <1>6, <2>2
  <2> QED BY <2>1, <2>3 DEF PrefsInv
<1>8. server.prefs = options /\ server.role = "ro"
      /\ {"role", "prefs", "osc52"} \subseteq DOMAIN server
  BY DEF NewServer
<1>9. GivenInv
  BY <1>1, <1>2, <1>8, OptionsAssumption DEF GivenInv
<1>10. OnceInv
  BY <1>1 DEF OnceInv
<1>11. down = <<>>
  BY DEF Init
<1>12. DownInv
  <2>1. down \in Seq({}) /\ Len(down) = 0
    BY <1>11
  <2>2. DOMAIN down = 1..0
    BY <2>1
  <2>3. \A i \in DOMAIN down : FALSE
    BY <2>2
  <2> QED BY <1>8, <1>11, <2>1, <2>3 DEF DownInv
<1>13. HonourInv
  BY <1>1 DEF HonourInv
<1> QED BY <1>1, <1>7, <1>8, <1>9, <1>10, <1>12, <1>13 DEF ViewInv

\* What the server does not change when it works on a client.
SameServer == \A f \in {"prefs", "osc52"} : server'[f] = server[f]
ServerFields == {"role", "prefs", "osc52"} \subseteq DOMAIN server'

\* A step that touches neither the marks nor the frames nor the role.
LEMMA QuietStep ==
  ASSUME ViewInv, SameMarks(page, page'), SameServer, ServerFields,
         server'.role = server.role, down' = down
  PROVE  ViewInv'
<1>1. \A f \in Marks : page'[f] = page[f]
  BY DEF ViewInv, SameMarks
<1>2. page'.query = page.query /\ page'.prefs = page.prefs
      /\ page'.phase = page.phase /\ page'.isRO = page.isRO
      /\ page'.stdin = page.stdin /\ page'.shownRO = page.shownRO
      /\ page'.notices = page.notices /\ page'.roNotified = page.roNotified
      /\ page'.osc52 = page.osc52 /\ page'.clipboardOK = page.clipboardOK
  BY <1>1 DEF Marks
<1>3. server'.prefs = server.prefs /\ server'.osc52 = server.osc52
  BY DEF SameServer
<1>4. Marks \subseteq DOMAIN page'
  BY DEF ViewInv, SameMarks
<1>5. GivenInv'
  BY <1>2, <1>3 DEF ViewInv, GivenInv
<1>6. PrefsInv'
  BY <1>2, <1>3 DEF ViewInv, PrefsInv
<1>7. OnceInv'
  BY <1>2 DEF ViewInv, OnceInv
<1>8. DownInv'
  BY <1>3 DEF ViewInv, DownInv
<1>9. HonourInv'
  BY <1>2, <1>3 DEF ViewInv, HonourInv, Shows
<1> QED BY <1>4, <1>5, <1>6, <1>7, <1>8, <1>9 DEF ViewInv, ServerFields

\* A step that sends a WELCOME that says what the server now says.
LEMMA PushStep ==
  ASSUME ViewInv, SameMarks(page, page'), SameServer, ServerFields,
         server'.role \in {"ro", "rw"}, down' = Append(down, Welcome(server'))
  PROVE  ViewInv'
<1>1. \A f \in Marks : page'[f] = page[f]
  BY DEF ViewInv, SameMarks
<1>2. page'.query = page.query /\ page'.prefs = page.prefs
      /\ page'.notices = page.notices /\ page'.roNotified = page.roNotified
      /\ page'.osc52 = page.osc52
  BY <1>1 DEF Marks
<1>3. server'.prefs = server.prefs /\ server'.osc52 = server.osc52
  BY DEF SameServer
<1>4. Marks \subseteq DOMAIN page'
  BY DEF ViewInv, SameMarks
<1>5. GivenInv' /\ PrefsInv' /\ OnceInv'
  BY <1>2, <1>3 DEF ViewInv, GivenInv, PrefsInv, OnceInv
<1> DEFINE w == Welcome(server')
<1>6. w.prefs = server.prefs /\ w.mode = server'.role
      /\ w.osc52 = (server'.osc52 /\ server'.role = "rw")
  BY <1>3 DEF Welcome
<1> HIDE DEF w
<1>7. PICK S : down \in Seq(S)
  BY DEF ViewInv, DownInv
<1>8. down \in Seq(S \cup {w})
  BY <1>7
<1>9. /\ down' \in Seq(S \cup {w}) /\ Len(down') = Len(down) + 1 /\ down' # <<>>
      /\ down'[Len(down) + 1] = w
      /\ \A i \in 1..Len(down) : down'[i] = down[i]
      /\ DOMAIN down' = 1..(Len(down) + 1) /\ DOMAIN down = 1..Len(down)
      /\ Len(down) \in Nat
  BY <1>8 DEF w
<1>10. \A i \in DOMAIN down' : down'[i].prefs = server.prefs
  BY <1>6, <1>9 DEF ViewInv, DownInv
<1>11. DownInv'
  <2>1. down'[Len(down')].mode = server'.role
        /\ down'[Len(down')].osc52 = (server'.osc52 /\ server'.role = "rw")
    BY <1>6, <1>9
  <2> QED BY <1>3, <1>9, <1>10, <2>1 DEF DownInv
<1>12. HonourInv'
  BY <1>9 DEF HonourInv
<1> QED BY <1>4, <1>5, <1>11, <1>12 DEF ViewInv, ServerFields

\* A connection that begins or ends: the page is not "in" then, and what a
\* WELCOME left is kept but for the notice, which is due again.
LEMMA OffStep ==
  ASSUME ViewInv, Marks \subseteq DOMAIN page', page'.phase # "in",
         page'.query = page.query, page'.prefs = page.prefs, page'.osc52 = page.osc52,
         \/ page'.notices = page.notices /\ page'.roNotified = page.roNotified
         \/ page'.notices = 0 /\ page'.roNotified = FALSE,
         SameServer, ServerFields, server'.role = server.role,
         down' = down \/ down' = <<>>
  PROVE  ViewInv'
<1>1. server'.prefs = server.prefs /\ server'.osc52 = server.osc52
  BY DEF SameServer
<1>2. GivenInv' /\ PrefsInv' /\ OnceInv'
  BY <1>1 DEF ViewInv, GivenInv, PrefsInv, OnceInv
<1>3. DownInv'
  <2>1. CASE down' = down
    BY <1>1, <2>1 DEF ViewInv, DownInv
  <2>2. CASE down' = <<>>
    <3>1. down' \in Seq({}) /\ Len(down') = 0
      BY <2>2
    <3>2. DOMAIN down' = 1..0
      BY <3>1
    <3>3. \A i \in DOMAIN down' : FALSE
      BY <3>2
    <3> QED BY <2>2, <3>1, <3>3 DEF ViewInv, DownInv
  <2> QED BY <2>1, <2>2
<1>4. HonourInv'
  BY DEF HonourInv
<1> QED BY <1>2, <1>3, <1>4 DEF ViewInv, ServerFields

LEMMA ConnectStep == ASSUME ViewInv, Connect PROVE ViewInv'
<1> PICK again \in {page.reconnecting, FALSE} :
         page' = [connectReset(page) EXCEPT !.reconnecting = again]
  BY DEF Connect
<1>1. /\ Marks \subseteq DOMAIN page' /\ page'.phase = "dialing"
      /\ page'.query = page.query /\ page'.prefs = page.prefs /\ page'.osc52 = page.osc52
      /\ page'.notices = 0 /\ page'.roNotified = FALSE
  BY DEF ViewInv, Marks, connectReset
<1>2. SameServer /\ ServerFields /\ server'.role = server.role /\ down' = down
  BY DEF Connect, SameServer, ServerFields, ViewInv
<1> QED BY <1>1, <1>2, OffStep

LEMMA OpenStep == ASSUME ViewInv, Open PROVE ViewInv'
<1> DEFINE drawn == refit(page)
<1>1. SameMarks(page, drawn)
  BY RefitKeeps
<1>2. page' = [drawn EXCEPT !.phase = "hello", !.up = <<Hello(drawn.term)>>,
                            !.lastReported = drawn.term]
  BY DEF Open, onopen
<1> HIDE DEF drawn
<1>3. /\ Marks \subseteq DOMAIN page' /\ page'.phase = "hello"
      /\ page'.query = page.query /\ page'.prefs = page.prefs /\ page'.osc52 = page.osc52
      /\ page'.notices = page.notices /\ page'.roNotified = page.roNotified
  BY <1>1, <1>2 DEF ViewInv, Marks, SameMarks
<1>4. SameServer /\ ServerFields /\ server'.role = server.role /\ down' = down
  BY DEF Open, SameServer, ServerFields, ViewInv
<1> QED BY <1>3, <1>4, OffStep

LEMMA LostStep == ASSUME ViewInv, Lost PROVE ViewInv'
<1>1. /\ Marks \subseteq DOMAIN page' /\ page'.phase = "off"
      /\ page'.query = page.query /\ page'.prefs = page.prefs /\ page'.osc52 = page.osc52
      /\ page'.notices = page.notices /\ page'.roNotified = page.roNotified
  BY DEF ViewInv, Marks, Lost
<1>2. SameServer /\ ServerFields /\ server'.role = server.role /\ down' = <<>>
  BY DEF Lost, SameServer, ServerFields, ViewInv
<1> QED BY <1>1, <1>2, OffStep

\* What the screen shows is no mark.
LEMMA ScreenKeeps ==
  ASSUME NEW p
  PROVE  SameMarks(p, ScreenReset(p)) /\ SameMarks(p, Cleared(p))
  BY DEF ScreenReset, Cleared, SameMarks, Marks

\* What the page is once it has read a WELCOME: the marks of its mode, one
\* notice, the preferences that the URL leaves, the addon.
Reads(p, q, w) ==
  /\ DOMAIN q = DOMAIN p
  /\ q.phase = "in" /\ q.query = p.query /\ q.clipboardOK = p.clipboardOK
  /\ q.isRO = (w.mode = "ro") /\ q.stdin = (w.mode = "rw") /\ q.shownRO = (w.mode = "ro")
  /\ q.roNotified = (p.roNotified \/ w.mode = "ro")
  /\ q.notices = p.notices + (IF w.mode = "ro" /\ ~p.roNotified THEN 1 ELSE 0)
  /\ q.osc52 = p.osc52 + (IF (w.osc52 /\ p.clipboardOK) /\ p.osc52 = 0 THEN 1 ELSE 0)
  /\ FullPrefs(q.prefs)
  /\ \A k \in PrefKeys :
       q.prefs[k] = IF k \in DOMAIN w.prefs \ DOMAIN p.query THEN Themed(w.prefs)[k]
                    ELSE p.prefs[k]

LEMMA WelcomeReads ==
  ASSUME NEW p, Marks \subseteq DOMAIN p, FullPrefs(p.prefs),
         NEW w, DOMAIN w.prefs \subseteq PrefKeys
  PROVE  LET drawn == refit(ReadWelcome(p, w))
         IN Reads(p, EndWelcome(ApplyPrefs(drawn, w.prefs, w.osc52)), w)
<1> DEFINE sized  == [p EXCEPT !.sessionMode = IF w.session = "none" THEN @ ELSE w.session,
                               !.sessionDims = w.dim]
           wiped  == ScreenReset(sized)
           read   == ApplyMode(wiped, w.mode)
           drawn  == refit(read)
           fitted == ApplyPrefs(drawn, w.prefs, w.osc52)
           shown  == IF fitted.reconnecting THEN Cleared(fitted) ELSE fitted
           q      == EndWelcome(fitted)
<1>1. DOMAIN sized = DOMAIN p /\ \A f \in Marks : sized[f] = p[f]
  BY DEF Marks
<1>2. SameMarks(sized, wiped)
  BY ScreenKeeps
<1>3. ReadWelcome(p, w) = read
  BY DEF ReadWelcome
<1> HIDE DEF sized, wiped
<1>4. DOMAIN wiped = DOMAIN p /\ \A f \in Marks : wiped[f] = p[f]
  BY <1>1, <1>2 DEF SameMarks
<1>5. /\ DOMAIN read = DOMAIN p
      /\ read.query = p.query /\ read.clipboardOK = p.clipboardOK
      /\ read.prefs = p.prefs /\ read.osc52 = p.osc52
      /\ read.isRO = (w.mode = "ro") /\ read.stdin = (w.mode = "rw")
      /\ read.shownRO = (w.mode = "ro")
      /\ read.roNotified = (p.roNotified \/ w.mode = "ro")
      /\ read.notices = p.notices + (IF w.mode = "ro" /\ ~p.roNotified THEN 1 ELSE 0)
  BY <1>4 DEF ApplyMode, Marks
<1>6. SameMarks(read, drawn)
  BY RefitKeeps
<1> HIDE DEF read
<1>7. DOMAIN drawn = DOMAIN p /\ \A f \in Marks : drawn[f] = read[f]
  BY <1>5, <1>6 DEF SameMarks
<1> HIDE DEF drawn
<1>8. drawn.prefs = p.prefs /\ drawn.query = p.query /\ drawn.osc52 = p.osc52
      /\ drawn.clipboardOK = p.clipboardOK
  BY <1>5, <1>7 DEF Marks
<1>9. Applied(drawn, fitted, w.prefs, w.osc52)
  <2>1. Marks \subseteq DOMAIN drawn /\ FullPrefs(drawn.prefs)
    BY <1>7, <1>8
  <2> QED BY <2>1, ApplyPrefsValues
<1> HIDE DEF fitted
<1>10. /\ DOMAIN q = DOMAIN fitted /\ q.phase = "in"
       /\ \A f \in Marks \ {"phase"} : q[f] = fitted[f]
  <2>1. SameMarks(fitted, shown)
    BY ScreenKeeps DEF SameMarks
  <2>2. q = [shown EXCEPT !.phase = "in", !.reconnecting = FALSE, !.welcomeDone = TRUE,
                          !.guarded = @ \/ fitted.prefs.confirmBeforeUnload]
    BY DEF EndWelcome
  <2>3. Marks \subseteq DOMAIN fitted
    BY <1>7, <1>9 DEF Applied
  <2> HIDE DEF shown, q
  <2> QED BY <2>1, <2>2, <2>3 DEF SameMarks, Marks
<1> HIDE DEF q
<1>11. /\ q.query = drawn.query /\ q.clipboardOK = drawn.clipboardOK
       /\ q.isRO = drawn.isRO /\ q.stdin = drawn.stdin /\ q.shownRO = drawn.shownRO
       /\ q.roNotified = drawn.roNotified /\ q.notices = drawn.notices
       /\ q.osc52 = fitted.osc52 /\ q.prefs = fitted.prefs
  BY <1>9, <1>10 DEF Applied, Marks
<1>12. /\ drawn.isRO = read.isRO /\ drawn.stdin = read.stdin /\ drawn.shownRO = read.shownRO
       /\ drawn.roNotified = read.roNotified /\ drawn.notices = read.notices
  BY <1>7 DEF Marks
<1>13. Reads(p, q, w)
  BY <1>5, <1>7, <1>8, <1>9, <1>10, <1>11, <1>12 DEF Reads, Applied
<1> QED BY <1>3, <1>13 DEF q, fitted, drawn

LEMMA RecvWelcomeStep == ASSUME ViewInv, RecvWelcome PROVE ViewInv'
<1> DEFINE w == Head(down)
<1>1. page' = EndWelcome(ApplyPrefs(refit(ReadWelcome(page, w)), w.prefs, w.osc52))
  BY DEF RecvWelcome, TakeWelcome
<1>2. PICK S : down \in Seq(S)
  BY DEF ViewInv, DownInv
<1>3. /\ down # <<>> /\ down' = Tail(down) /\ SameServer /\ ServerFields
      /\ server' = server
  BY DEF RecvWelcome, TakeWelcome, SameServer, ServerFields, ViewInv
<1>4. /\ Len(down) \in Nat /\ Len(down) > 0 /\ DOMAIN down = 1..Len(down) /\ w = down[1]
      /\ down' \in Seq(S) /\ Len(down') = Len(down) - 1 /\ DOMAIN down' = 1..(Len(down) - 1)
      /\ \A i \in 1..(Len(down) - 1) : down'[i] = down[i + 1]
      /\ down' = <<>> => Len(down) = 1
      /\ down' # <<>> => Len(down) > 1
  <2>1. Len(down) \in Nat /\ Len(down) > 0 /\ DOMAIN down = 1..Len(down)
    BY <1>2, <1>3
  <2>2. w = down[1]
    BY <1>2, <1>3
  <2>3. /\ down' \in Seq(S) /\ Len(down') = Len(down) - 1
        /\ DOMAIN down' = 1..(Len(down) - 1)
        /\ \A i \in 1..(Len(down) - 1) : down'[i] = down[i + 1]
    BY <1>2, <1>3
  <2>4. down' = <<>> => Len(down) = 1
    BY <2>1, <2>3
  <2>5. down' # <<>> => Len(down) > 1
    BY <2>1, <2>3
  <2> QED BY <2>1, <2>2, <2>3, <2>4, <2>5
<1>5. w.prefs = server.prefs
  BY <1>4 DEF ViewInv, DownInv
<1> HIDE DEF w
<1>6. Reads(page, page', w)
  <2>1. Marks \subseteq DOMAIN page
    BY DEF ViewInv
  <2>2. FullPrefs(page.prefs)
    BY DEF ViewInv, PrefsInv, FullPrefs
  <2>3. DOMAIN w.prefs \subseteq PrefKeys
    BY <1>5 DEF ViewInv, GivenInv
  <2>4. Reads(page, EndWelcome(ApplyPrefs(refit(ReadWelcome(page, w)), w.prefs, w.osc52)), w)
    BY <2>1, <2>2, <2>3, WelcomeReads
  <2> QED BY <1>1, <2>4
<1>7. GivenInv'
  BY <1>3, <1>6 DEF ViewInv, GivenInv, Reads
<1>8. PrefsInv'
  <2>1. page'.prefs = [k \in PrefKeys |-> page'.prefs[k]]
    BY <1>6 DEF Reads, FullPrefs
  <2>2. ASSUME NEW k \in PrefKeys
        PROVE  /\ k \in DOMAIN page'.query => page'.prefs[k] = Themed(page'.query)[k]
               /\ k \notin DOMAIN page'.query \cup DOMAIN server'.prefs
                    => page'.prefs[k] = Defaults[k]
    BY <1>3, <1>5, <1>6 DEF ViewInv, PrefsInv, Reads
  <2> QED BY <2>1, <2>2 DEF PrefsInv
<1>9. OnceInv'
  <2>1. page.osc52 \in {0, 1} /\ page.roNotified \in BOOLEAN
        /\ page.notices = IF page.roNotified THEN 1 ELSE 0
    BY DEF ViewInv, OnceInv
  <2>2. page'.osc52 \in {0, 1}
    BY <1>6, <2>1 DEF Reads
  <2>3. page'.roNotified = (page.roNotified \/ w.mode = "ro")
        /\ page'.notices = page.notices + (IF w.mode = "ro" /\ ~page.roNotified THEN 1 ELSE 0)
    BY <1>6 DEF Reads
  <2>4. page'.roNotified \in BOOLEAN
    BY <2>3
  <2>5. page'.notices = IF page'.roNotified THEN 1 ELSE 0
    <3>1. CASE page.roNotified
      <4>1. page.notices = 1 /\ page'.notices = page.notices + 0
        BY <2>1, <2>3, <3>1
      <4>2. page'.notices = 1
        BY <4>1
      <4>3. page'.roNotified
        BY <2>3, <3>1, Zenon
      <4> QED BY <4>2, <4>3
    <3>2. CASE ~page.roNotified /\ w.mode = "ro"
      <4>1. page.notices = 0 /\ page'.notices = page.notices + 1
        BY <2>1, <2>3, <3>2
      <4>2. page'.notices = 1
        BY <4>1
      <4>3. page'.roNotified
        BY <2>3, <3>2, Zenon
      <4> QED BY <4>2, <4>3
    <3>3. CASE ~page.roNotified /\ w.mode # "ro"
      BY <2>1, <2>3, <3>3
    <3> QED BY <3>1, <3>2, <3>3
  <2> QED BY <2>2, <2>4, <2>5 DEF OnceInv
<1>10. DownInv'
  <2>1. \A i \in DOMAIN down' : down'[i].prefs = server'.prefs
    BY <1>3, <1>4 DEF ViewInv, DownInv
  <2>2. ASSUME down' # <<>> PROVE down'[Len(down')] = down[Len(down)]
    BY <1>4, <2>2
  <2> QED BY <1>3, <1>4, <2>1, <2>2 DEF ViewInv, DownInv
<1>11. HonourInv'
  <2> SUFFICES ASSUME down' = <<>>
               PROVE  Shows(page', server'.role, server'.prefs,
                            server'.osc52 /\ server'.role = "rw")
    BY DEF HonourInv
  <2>1. w = down[Len(down)]
    BY <1>4 DEF w
  <2>2. w.mode = server.role /\ w.osc52 = (server.osc52 /\ server.role = "rw")
    BY <1>3, <2>1 DEF ViewInv, DownInv
  <2>3. /\ page'.isRO = (server'.role = "ro") /\ page'.stdin = (server'.role = "rw")
        /\ page'.shownRO = (server'.role = "ro")
    BY <1>3, <1>6, <2>2 DEF Reads
  <2>4. \A k \in DOMAIN server'.prefs \ DOMAIN page'.query : page'.prefs[k] = Themed(server'.prefs)[k]
    BY <1>3, <1>5, <1>6 DEF ViewInv, GivenInv, Reads
  <2>5. ASSUME server'.osc52 /\ server'.role = "rw", page'.clipboardOK
        PROVE  page'.osc52 = 1
    <3>1. w.osc52 = TRUE
      BY <1>3, <2>2, <2>5
    <3>2. page.clipboardOK
      BY <1>6, <2>5 DEF Reads
    <3>3. page'.osc52 = page.osc52 + (IF page.osc52 = 0 THEN 1 ELSE 0)
      BY <1>6, <3>1, <3>2 DEF Reads
    <3> QED BY <3>3 DEF ViewInv, OnceInv
  <2> QED BY <2>3, <2>4, <2>5 DEF Shows
<1>12. Marks \subseteq DOMAIN page'
  BY <1>6 DEF ViewInv, Reads
<1> QED BY <1>3, <1>7, <1>8, <1>9, <1>10, <1>11, <1>12 DEF ViewInv, ServerFields

LEMMA NextView == ASSUME ViewInv, [Next]_vars PROVE ViewInv'
<1> USE DEF SameServer, ServerFields
<1>1. CASE Connect  BY <1>1, ConnectStep
<1>2. CASE Open  BY <1>2, OpenStep
<1>3. CASE RecvWelcome  BY <1>3, RecvWelcomeStep
<1>4. CASE DebounceFires
  <2>1. page' = refit(page) /\ down' = down /\ server' = server
    BY <1>4 DEF DebounceFires
  <2>2. SameMarks(page, page')
    BY <2>1, RefitKeeps
  <2> QED BY <2>1, <2>2, QuietStep DEF ViewInv
<1>5. CASE OverlayFades
  <2>1. SameMarks(page, page') /\ down' = down /\ server' = server
    BY <1>5 DEF OverlayFades, SameMarks, Marks
  <2> QED BY <2>1, QuietStep DEF ViewInv
<1>6. CASE RecvHello
  <2>1. PICK role \in {"ro", "rw"}, others \in Sizes \cup {0} :
          LET d == ClampDim(Head(page.up).dim)
          IN server' = recalc([server EXCEPT
                                 !.attached = TRUE, !.role = role, !.hello = d, !.reg = d,
                                 !.dropped = FALSE, !.others = ClampDim(others)])
    BY <1>6 DEF RecvHello
  <2>2. server'.role = role /\ SameServer /\ ServerFields
    BY <2>1 DEF ViewInv, recalc
  <2>3. down' = Append(down, Welcome(server'))
    BY <1>6 DEF RecvHello
  <2>4. SameMarks(page, page')
    BY <1>6 DEF RecvHello, SameMarks, Marks
  <2> QED BY <2>2, <2>3, <2>4, PushStep
<1>7. CASE RecvResize
  <2>1. SameMarks(page, page') /\ down' = down
    BY <1>7 DEF RecvResize, SameMarks, Marks
  <2>2. SameServer /\ ServerFields /\ server'.role = server.role
    BY <1>7 DEF RecvResize, ViewInv
  <2> QED BY <2>1, <2>2, QuietStep
<1>8. CASE Arbitrate
  <2>1. SameServer /\ ServerFields /\ server'.role = server.role /\ page' = page
    BY <1>8 DEF Arbitrate, ViewInv, recalc
  <2>2. SameMarks(page, page') /\ server'.role \in {"ro", "rw"}
    BY <2>1 DEF SameMarks, ViewInv, DownInv
  <2>3. CASE server.session = "per-client"
    BY <1>8, <2>1, <2>2, <2>3, QuietStep DEF Arbitrate
  <2>4. CASE server.session # "per-client"
    <3>1. down' = Append(down, Welcome(server'))
      BY <1>8, <2>4 DEF Arbitrate
    <3> QED BY <2>1, <2>2, <3>1, PushStep
  <2> QED BY <2>3, <2>4
<1>9. CASE Outside
  <2>1. ASSUME NEW d, WindowTo(d) PROVE ViewInv'
    <3>1. SameMarks(page, page') /\ down' = down /\ server' = server
      BY <2>1 DEF WindowTo, SameMarks
    <3> QED BY <3>1, QuietStep DEF ViewInv
  <2>2. ASSUME NEW d, OthersChange(d) PROVE ViewInv'
    <3>1. SameMarks(page, page') /\ SameServer /\ ServerFields /\ server'.role = server.role
      BY <2>2 DEF OthersChange, SameMarks, ViewInv, recalc
    <3>2. CASE down' = down
      BY <3>1, <3>2, QuietStep
    <3>3. CASE down' = Append(down, Welcome(server'))
      <4>1. server'.role \in {"ro", "rw"}
        BY <3>1 DEF ViewInv, DownInv
      <4> QED BY <3>1, <3>3, <4>1, PushStep
    <3> QED BY <2>2, <3>2, <3>3 DEF OthersChange
  <2>3. CASE Promote
    <3>1. SameMarks(page, page') /\ SameServer /\ ServerFields /\ server'.role = "rw"
      BY <2>3 DEF Promote, SameMarks, ViewInv, recalc
    <3>2. down' = Append(down, Welcome(server'))
      BY <2>3 DEF Promote
    <3> QED BY <3>1, <3>2, PushStep
  <2>4. CASE Lost  BY <2>4, LostStep
  <2> QED BY <1>9, <2>1, <2>2, <2>3, <2>4 DEF Outside
<1>10. CASE UNCHANGED vars
  <2>1. SameMarks(page, page') /\ down' = down /\ server' = server
    BY <1>10 DEF vars, SameMarks
  <2> QED BY <2>1, QuietStep DEF ViewInv
<1> QED BY <1>1, <1>2, <1>3, <1>4, <1>5, <1>6, <1>7, <1>8, <1>9, <1>10 DEF Next

-----------------------------------------------------------------------------
(* The theorem.                                                            *)

\* With the URL first, then the server, then the defaults, key by key, the
\* preferences are the object that the three make spread over one another.
LEMMA PrefsSpread ==
  ASSUME ViewInv, HonourInv, page.phase = "in", down = <<>>
  PROVE  page.prefs = Over(Themed(page.query), Over(Themed(server.prefs), Defaults))
<1> DEFINE own   == Themed(page.query)
           their == Themed(server.prefs)
           base  == Over(their, Defaults)
           all   == Over(own, base)
<1>1. DOMAIN own = DOMAIN page.query /\ DOMAIN their = DOMAIN server.prefs
  BY ThemedKeys
<1> HIDE DEF own, their
<1>2. DOMAIN Defaults = PrefKeys
  BY DEF Defaults, PrefKeys, XTERM_PREF_KEYS, BEHAVIOR_PREF_KEYS
<1>3. /\ DOMAIN base = DOMAIN their \cup DOMAIN Defaults
      /\ \A k \in DOMAIN their \cup DOMAIN Defaults :
           base[k] = IF k \in DOMAIN their THEN their[k] ELSE Defaults[k]
      /\ base = [k \in DOMAIN their \cup DOMAIN Defaults |-> base[k]]
  BY OverValues, Zenon
<1> HIDE DEF base
<1>4. /\ DOMAIN all = DOMAIN own \cup DOMAIN base
      /\ \A k \in DOMAIN own \cup DOMAIN base :
           all[k] = IF k \in DOMAIN own THEN own[k] ELSE base[k]
      /\ all = [k \in DOMAIN own \cup DOMAIN base |-> all[k]]
  BY OverValues, Zenon
<1> HIDE DEF all
<1>5. DOMAIN own \cup DOMAIN base = PrefKeys
  BY <1>1, <1>2, <1>3 DEF ViewInv, GivenInv
<1>6. all = [k \in PrefKeys |-> all[k]]
  BY <1>4, <1>5
<1>7. ASSUME NEW k \in PrefKeys PROVE all[k] = page.prefs[k]
  <2>1. CASE k \in DOMAIN page.query
    BY <1>1, <1>4, <1>5, <2>1 DEF ViewInv, PrefsInv, own
  <2>2. CASE k \notin DOMAIN page.query /\ k \in DOMAIN server.prefs
    BY <1>1, <1>3, <1>4, <1>5, <2>2 DEF HonourInv, Shows, their
  <2>3. CASE k \notin DOMAIN page.query \cup DOMAIN server.prefs
    BY <1>1, <1>2, <1>3, <1>4, <1>5, <2>3 DEF ViewInv, PrefsInv
  <2> QED BY <2>1, <2>2, <2>3
<1>8. page.prefs = [k \in PrefKeys |-> page.prefs[k]]
  BY DEF ViewInv, PrefsInv
<1>9. page.prefs = all
  BY <1>6, <1>7, <1>8
<1> QED BY <1>9 DEF all, base, own, their

\* Whatever pushes, promotions and reconnects came before: a page that has read
\* all that the server sent it is what the last WELCOME said (onmessage, main.ts).
THEOREM WelcomesHonoured == Spec => []WelcomeHonoured
<1>1. ViewInv => WelcomeHonoured
  <2> SUFFICES ASSUME ViewInv, page.phase = "in", down = <<>> PROVE WelcomeHonoured
    BY DEF WelcomeHonoured
  <2>1. HonourInv
    BY DEF ViewInv
  <2>2. page.prefs = Over(Themed(page.query), Over(Themed(server.prefs), Defaults))
    BY <2>1, PrefsSpread
  <2>3. page.notices \leq 1 /\ page.osc52 \leq 1
    BY DEF ViewInv, OnceInv
  <2>4. /\ page.isRO = (server.role = "ro") /\ page.stdin = (server.role = "rw")
        /\ page.shownRO = (server.role = "ro")
        /\ server.role = "rw" /\ server.osc52 /\ page.clipboardOK => page.osc52 = 1
    BY <2>1 DEF HonourInv, Shows
  <2> QED BY <2>2, <2>3, <2>4 DEF WelcomeHonoured
<1> QED BY <1>1, InitView, NextView, PTL DEF Spec
=============================================================================
