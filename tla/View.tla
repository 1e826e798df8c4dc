-------------------------------- MODULE View --------------------------------
(***************************************************************************)
(* What the page shows of a session, web/src/main.ts: the size of the      *)
(* terminal against the size of the window and of the session, the         *)
(* read-only mode and its marks, the preferences, and the handling of      *)
(* every WELCOME; with the part of the server that answers it.             *)
(*                                                                         *)
(* RESIZE and WELCOME cross on the wire: the window changes, the server    *)
(* pushes the sizes of others, the page is promoted, all at once.          *)
(*                                                                         *)
(* A size stands for cols x rows: the code compares the two together and   *)
(* takes minima axis by axis.  Zero is the null of the code (no size known)*)
(* and, for the window, a terminal that is not displayed.  The connection  *)
(* is reduced to its phases; Link has its attempts and failures.           *)
(***************************************************************************)
EXTENDS Naturals, Sequences

CONSTANTS
  Sizes,          \* sizes a window can have
  DimMax,         \* largest size the server accepts
  MaxFrames,      \* bound: frames under way in one direction
  Searches,       \* what the URL of a page may say
  Options,        \* what --client-option may give: functions from keys
  AllowOsc52,     \* the program may write to the clipboard: OSC 52
  ClipboardOK     \* the browser lets the page use the clipboard

ASSUME ViewAssumption ==
  /\ Sizes \subseteq Nat \ {0}
  /\ DimMax \in Nat \ {0}
  /\ MaxFrames \in Nat \ {0}
  /\ AllowOsc52 \in BOOLEAN /\ ClipboardOK \in BOOLEAN

Smaller(a, b) == IF a < b THEN a ELSE b
ClampDim(d) == Smaller(d, DimMax)

VARIABLES
  window,         \* size of the window, 0 while the terminal is not displayed
  timer,          \* the 100 ms debounce of window resize runs
  page,           \* the page's variables, and "up", the frames it has sent
  down,           \* WELCOME frames on their way to the page
  server          \* what the server knows of this client

vars == <<window, timer, page, down, server>>

-----------------------------------------------------------------------------
(* Preferences, lib/prefs.ts: functions from the keys that are given.  *)

XTERM_PREF_KEYS == {"font", "theme"}            \* two that differ: of eight
BEHAVIOR_PREF_KEYS == {"resizeOverlay", "confirmBeforeUnload"}
PrefKeys == XTERM_PREF_KEYS \cup BEHAVIOR_PREF_KEYS

defaultTheme == [background |-> "black", red |-> "tango"]
Defaults == [font |-> "default", theme |-> defaultTheme,
             resizeOverlay |-> TRUE, confirmBeforeUnload |-> TRUE]

\* The command line is checked against the keys that there are.
ASSUME OptionsAssumption == \A options \in Options : DOMAIN options \subseteq PrefKeys

Only(prefs, keys) == [k \in DOMAIN prefs \cap keys |-> prefs[k]]

\* A URL gives values to keys; those of the keys in "bad" are no JSON.
Search(given, bad) == [given |-> given, bad |-> bad]
parseQueryPrefs(search) == Only(search.given, PrefKeys \ search.bad)
splitPrefs(prefs) == [xterm |-> Only(prefs, XTERM_PREF_KEYS),
                      behavior |-> Only(prefs, BEHAVIOR_PREF_KEYS)]

\* An object spread over another: what is given wins, key by key.
Over(given, base) ==
  [k \in DOMAIN given \cup DOMAIN base |-> IF k \in DOMAIN given THEN given[k] ELSE base[k]]

\* Colours that are not given keep those of the page.
mergeTheme(base, incoming) == Over(incoming, base)
Themed(prefs) == IF "theme" \notin DOMAIN prefs THEN prefs
                 ELSE [prefs EXCEPT !.theme = mergeTheme(defaultTheme, @)]

\* Fault: what the server gives wins over the URL.
ApplyGiven(old, query, given) == Over(given, old)

\* A key of the URL is skipped when the server gives it (queryKeys).
ApplySkipping(old, query, given) == Over(Only(given, PrefKeys \ DOMAIN query), old)

\* fit.proposeDimensions(): a larger font leaves fewer cells.
proposeDimensions(p) ==
  IF p.prefs.font = "default" \/ window \leq 1 THEN window ELSE window - 1

-----------------------------------------------------------------------------
(* sendResize and refit, on the page's variables. *)

Resize(d) == [kind |-> "resize", dim |-> d]
Hello(d)  == [kind |-> "hello", dim |-> d]

\* Nothing leaves before Hello or from a spectator of a shared session; the
\* session of a per-client page has the size of its window.
sendResize(p, d) ==
  IF p.phase \notin {"hello", "in"} \/ (p.isRO /\ p.sessionMode = "shared") THEN p
  ELSE LET q == IF p.sessionMode = "per-client"
                THEN [p EXCEPT !.sessionDims = ClampDim(d)] ELSE p
       IN IF p.lastReported = d THEN q
          ELSE [q EXCEPT !.up = Append(@, Resize(d)), !.lastReported = d]

\* Fault: the size is drawn before it is reported.
refitDrawnFirst(p) ==
  LET d == proposeDimensions(p)
      draw == IF p.sessionDims = 0 THEN d ELSE Smaller(d, p.sessionDims)
  IN IF d = 0 THEN p ELSE [sendResize(p, d) EXCEPT !.term = draw, !.prevFit = d]

\* Report first, then draw; the overlay only when the window itself changed.
refit(p) ==
  LET d == proposeDimensions(p)
      q == sendResize(p, d)
  IN IF d = 0 THEN p
     ELSE [q EXCEPT
             !.term = IF q.sessionDims = 0 THEN d ELSE Smaller(d, q.sessionDims),
             !.prevFit = d,
             !.overlay = IF q.welcomeDone /\ q.prefs.resizeOverlay /\ q.prevFit # d
                         THEN "shown" ELSE @]

-----------------------------------------------------------------------------
(* The page. *)

\* connect(): what belongs to a connection is reset; marks, preferences, the
\* terminal and the osc52 latch stay.
connectReset(p) ==
  [p EXCEPT !.phase = "dialing", !.welcomeDone = FALSE, !.isRO = FALSE, !.sessionMode = "shared",
            !.sessionDims = 0, !.lastReported = 0, !.prevFit = 0,
            !.roNotified = FALSE, !.notices = 0, !.up = <<>>]

\* Whether the reconnect loop runs: a login in between has ended it.
Connect ==
  /\ page.phase = "off"
  /\ \E again \in {page.reconnecting, FALSE} :
       page' = [connectReset(page) EXCEPT !.reconnecting = again]
  /\ UNCHANGED <<window, timer, down, server>>

\* onopen: Hello carries the size drawn, which then counts as reported.
onopen(p) ==
  LET q == refit(p)
  IN [q EXCEPT !.phase = "hello", !.up = <<Hello(q.term)>>, !.lastReported = q.term]

Open ==
  /\ page.phase = "dialing"
  /\ page' = onopen(page)
  /\ UNCHANGED <<window, timer, down, server>>

\* The mode: isRO, disableStdin, the prefix of the title, one notice.
ApplyMode(p, mode) ==
  [p EXCEPT !.isRO = (mode = "ro"), !.stdin = (mode = "rw"), !.shownRO = (mode = "ro"),
            !.roNotified = @ \/ mode = "ro",
            !.notices = @ + (IF mode = "ro" /\ ~p.roNotified THEN 1 ELSE 0)]

\* term.clear(): the buffer shown.
Cleared(p) ==
  IF p.screen.onAlt THEN [p EXCEPT !.screen.alt = {}] ELSE [p EXCEPT !.screen.normal = {}]

\* Fault: a new process has only the buffer shown cleared.
ScreenCleared(p) == IF p.sessionMode = "per-client" THEN Cleared(p) ELSE p

\* A per-client session is a new process: term.reset() empties both buffers and
\* leaves the alternate one.
ScreenReset(p) ==
  IF p.sessionMode = "per-client"
  THEN [p EXCEPT !.screen = [normal |-> {}, alt |-> {}, onAlt |-> FALSE]] ELSE p

\* The latch of the osc52 addon.
LoadOsc52(p, offered) == [p EXCEPT !.osc52 = @ + (IF offered /\ @ = 0 THEN 1 ELSE 0)]

\* xterm keys, a refit (a font changes the cells), switches, osc52.
ApplyPrefs(p, given, osc52) ==
  LET parts  == splitPrefs(Themed(given))
      drawn  == refit([p EXCEPT !.prefs = ApplySkipping(@, p.query, parts.xterm)])
  IN LoadOsc52([drawn EXCEPT !.prefs = ApplySkipping(@, p.query, parts.behavior)],
               osc52 /\ p.clipboardOK)

\* The WELCOME branch of onmessage, step by step in its order: up to the first
\* refit, and, after the preferences, its end.
ReadWelcome(p, w) ==
  ApplyMode(ScreenReset([p EXCEPT !.sessionMode = IF w.session = "none" THEN @ ELSE w.session,
                                  !.sessionDims = w.dim]), w.mode)
EndWelcome(p) ==
  [(IF p.reconnecting THEN Cleared(p) ELSE p) EXCEPT
     !.phase = "in", !.reconnecting = FALSE, !.welcomeDone = TRUE,
     !.guarded = @ \/ p.prefs.confirmBeforeUnload]

\* A frame is taken; no other step takes one and leaves the server alone.
TakeWelcome ==
  /\ page.phase \in {"hello", "in"}
  /\ down # <<>>
  /\ Len(page.up) < MaxFrames
  /\ down' = Tail(down)
  /\ UNCHANGED <<window, timer, server>>

RecvWelcome ==
  /\ TakeWelcome
  /\ \E read \in {ReadWelcome(page, Head(down))} : \E drawn \in {refit(read)} :
     \E fitted \in {ApplyPrefs(drawn, Head(down).prefs, Head(down).osc52)} :
       page' = EndWelcome(fitted)

\* The socket closes and the loop starts.
Lost ==
  /\ page.phase \in {"hello", "in"}
  /\ page' = [page EXCEPT !.phase = "off", !.reconnecting = TRUE, !.guarded = FALSE,
                          !.screen = [normal |-> IF @.normal = {} THEN {} ELSE {"old"},
                                      alt |-> IF @.alt = {} THEN {} ELSE {"old"},
                                      onAlt |-> @.onAlt],
                          !.up = <<>>]
  /\ down' = <<>>
  /\ server' = [server EXCEPT !.attached = FALSE]
  /\ UNCHANGED <<window, timer>>

\* The window takes another size, or the terminal is no longer displayed.
WindowTo(d) ==
  /\ d # window
  /\ window' = d
  /\ timer' = TRUE
  /\ UNCHANGED <<page, down, server>>

DebounceFires ==
  /\ timer
  /\ Len(page.up) < MaxFrames
  /\ timer' = FALSE
  /\ page' = refit(page)
  /\ UNCHANGED <<window, down, server>>

\* 600 ms after the last change the overlay fades.
OverlayFades ==
  /\ page.overlay = "shown"
  /\ page' = [page EXCEPT !.overlay = "faded"]
  /\ UNCHANGED <<window, timer, down, server>>

-----------------------------------------------------------------------------
(* The server: Attach, the RESIZE case of its read loop, the arbiter, the  *)
(* succession.  Hub has all of its clients; here the others are one size,  *)
(* the least of those that the arbiter weighs besides this client.         *)

\* Writers count, and everybody in a session that nobody may write to.
participates(s) == s.session = "per-client" \/ s.role = "rw" \/ s.policy = "none"

\* The common rectangle; without participants the size stays.
arbitrate(s) ==
  LET members == (IF participates(s) THEN {s.reg} ELSE {}) \cup ({s.others} \ {0})
  IN IF members = {} THEN s.dim ELSE CHOOSE m \in members : \A n \in members : m \leq n
recalc(s) == [s EXCEPT !.dim = arbitrate(s)]

\* Nobody else counts in a session of one's own, or beside the owner.
Alone(s) == s.session = "per-client" \/ (s.policy = "owner" /\ s.role = "rw")

Welcome(s) == [mode |-> s.role, session |-> s.session, dim |-> ClampDim(s.dim),
               prefs |-> s.prefs, osc52 |-> s.osc52 /\ s.role = "rw"]

\* Hello: the role is decided, the size registered, WELCOME sent.
RecvHello ==
  /\ page.phase = "hello"
  /\ page.up # <<>>
  /\ Head(page.up).kind = "hello"
  /\ \E role \in {"ro", "rw"}, others \in Sizes \cup {0} :
       LET d == ClampDim(Head(page.up).dim)
           s == [server EXCEPT
                   !.attached = TRUE, !.role = role, !.hello = d, !.reg = d,
                   !.dropped = FALSE, !.others = ClampDim(others)]
       IN /\ role = "rw" => server.policy # "none"
          /\ Alone(s) => others = 0
          /\ server' = recalc(s)
          /\ down' = Append(down, Welcome(server'))
  /\ page' = [page EXCEPT !.up = Tail(@)]
  /\ UNCHANGED <<window, timer>>

\* RESIZE: a spectator of a shared session is not heard.
RecvResize ==
  /\ page.phase \in {"hello", "in"}
  /\ page.up # <<>>
  /\ Head(page.up).kind = "resize"
  /\ server.attached
  /\ LET d == ClampDim(Head(page.up).dim)
     IN server' = IF server.role = "ro" /\ server.session # "per-client"
                  THEN [server EXCEPT !.dropped = TRUE]
                  ELSE [server EXCEPT !.reg = d, !.dropped = FALSE]
  /\ page' = [page EXCEPT !.up = Tail(@)]
  /\ UNCHANGED <<window, timer, down>>

\* recalcNow after the debounce: the new size is pushed in a shared session.
Arbitrate ==
  /\ server.attached
  /\ server.dim # arbitrate(server)
  /\ Len(down) < MaxFrames
  /\ server' = recalc(server)
  /\ down' = IF server.session = "per-client" THEN down
             ELSE Append(down, Welcome(server'))
  /\ UNCHANGED <<window, timer, page>>

\* Others come, leave or resize: recalcNow, which takes a waiting RESIZE with it.
OthersChange(d) ==
  /\ server.attached
  /\ ~Alone(server)
  /\ ClampDim(d) # server.others
  /\ Len(down) < MaxFrames
  /\ server' = recalc([server EXCEPT !.others = ClampDim(d)])
  /\ down' = IF server'.dim = server.dim THEN down ELSE Append(down, Welcome(server'))
  /\ UNCHANGED <<window, timer, page>>

\* promoteNextLocked: the size promised is that of the Hello.
Promote ==
  /\ server.attached
  /\ server.role = "ro"
  /\ server.session # "per-client" /\ server.policy = "owner"
  /\ Len(down) < MaxFrames
  /\ server' = recalc([server EXCEPT !.role = "rw", !.reg = server.hello, !.others = 0])
  /\ down' = Append(down, Welcome(server'))
  /\ UNCHANGED <<window, timer, page>>

-----------------------------------------------------------------------------
(* Handlers that only the scripts of ViewScripts drive: nothing above      *)
(* depends on what they change.                                            *)

\* Control and format characters are dropped, 128 are kept, never none.
TitleMax == 3
sanitizeTitle(raw) ==
  LET kept == SelectSeq(raw, LAMBDA ch : ch # "control")
  IN IF kept = <<>> THEN <<"wesh">> ELSE SubSeq(kept, 1, Smaller(Len(kept), TitleMax))

onTitleChange(raw) == page' = [page EXCEPT !.title = sanitizeTitle(raw)]
documentTitle == IF page.shownRO THEN <<"[ro]">> \o page.title ELSE page.title

\* OUTPUT: what the program writes shows on the buffer in use.
Prints(text) ==
  page' = IF page.screen.onAlt
          THEN [page EXCEPT !.screen.alt = @ \cup {text}]
          ELSE [page EXCEPT !.screen.normal = @ \cup {text}]
EnterAlt == page' = [page EXCEPT !.screen.alt = {}, !.screen.onAlt = TRUE]
LeaveAlt == page' = [page EXCEPT !.screen.onAlt = FALSE]
Shown == IF page.screen.onAlt THEN page.screen.alt ELSE page.screen.normal

\* onData: keys reach the server while the socket is open and stdin is on.
onData ==
  page' = IF page.stdin /\ page.phase \in {"hello", "in"}
          THEN [page EXCEPT !.inputs = @ + 1] ELSE page

\* Selecting copies after 150 ms, the last selection only, never the same twice.
onSelectionChange(text) ==
  page' = IF page.clipboardOK THEN [page EXCEPT !.selected = text] ELSE page
CopySelection ==
  /\ page.selected # ""
  /\ page' = [page EXCEPT !.selected = "",
                          !.clipboard = IF page.selected = page.lastCopied THEN @
                                        ELSE Append(@, page.selected),
                          !.lastCopied = page.selected]

\* Ctrl+Shift+V reads the clipboard unless the page is read-only.
PasteKey ==
  page' = IF ~page.clipboardOK \/ page.isRO THEN page
          ELSE [page EXCEPT !.reads = @ + 1, !.inputs = @ + 1]

\* OSC 52 writes to the clipboard once its addon is loaded; it never reads.
WriteOsc52(text) ==
  page' = IF page.osc52 = 0 THEN page ELSE [page EXCEPT !.clipboard = Append(@, text)]

\* A link, found in the text or given by OSC 8, shows its target when hovered
\* and opens in a window of its own.
showLinkTooltip(uri) == page' = [page EXCEPT !.tooltip = uri]
hideLinkTooltip == page' = [page EXCEPT !.tooltip = ""]
ActivateLink == page' = [page EXCEPT !.opened = Append(@, page.tooltip)]

-----------------------------------------------------------------------------
(* Specification. *)

NewPage(search, clipboardOK) ==
  LET query == parseQueryPrefs(search)
  IN [phase |-> "off", welcomeDone |-> FALSE, reconnecting |-> FALSE, up |-> <<>>,
      term |-> 1, sessionDims |-> 0, lastReported |-> 0, prevFit |-> 0,
      isRO |-> FALSE, sessionMode |-> "shared", stdin |-> TRUE, shownRO |-> FALSE,
      roNotified |-> FALSE, notices |-> 0, overlay |-> "hidden", guarded |-> FALSE,
      query |-> query, prefs |-> Over(Themed(query), Defaults), osc52 |-> 0,
      clipboardOK |-> clipboardOK, selected |-> "", lastCopied |-> "",
      clipboard |-> <<>>, reads |-> 0, inputs |-> 0, tooltip |-> "", opened |-> <<>>,
      title |-> <<"wesh">>,
      screen |-> [normal |-> {}, alt |-> {}, onAlt |-> FALSE]]

\* session "none" is what a server sends that does not know the key; policy is
\* that of --write-policy, "none" without --writable.
NewServer(session, policy, prefs, osc52) ==
  [attached |-> FALSE, session |-> session, policy |-> policy, role |-> "ro",
   hello |-> 1, reg |-> 1, others |-> 0, dim |-> 1, dropped |-> FALSE,
   prefs |-> prefs, osc52 |-> osc52]

Init ==
  /\ window \in Sizes
  /\ timer = FALSE
  /\ \E search \in Searches : page = NewPage(search, ClipboardOK)
  /\ down = <<>>
  /\ \E session \in {"shared", "per-client"}, policy \in {"owner", "all", "none"},
        options \in Options :
       server = NewServer(session, policy, options, AllowOsc52)

Outside ==
  \/ \E d \in Sizes \cup {0} : WindowTo(d)
  \/ \E d \in Sizes \cup {0} : OthersChange(d)
  \/ Promote
  \/ Lost

Next ==
  \/ Connect \/ Open \/ RecvWelcome \/ DebounceFires \/ OverlayFades
  \/ RecvHello \/ RecvResize \/ Arbitrate
  \/ Outside

Spec == Init /\ [][Next]_vars

\* Timers fire, frames arrive, the arbiter's debounce ends.
Fairness ==
  /\ WF_vars(DebounceFires)
  /\ WF_vars(RecvHello \/ RecvResize)
  /\ WF_down(TakeWelcome)         \* of RecvWelcome
  /\ WF_vars(Arbitrate)

FairSpec == Spec /\ Fairness

-----------------------------------------------------------------------------
(* Properties. *)

\* What the last WELCOME said is what the page is: the mode in its three marks
\* (input gate, stdin, title), the preferences with the URL first, one notice of
\* being read-only, and the osc52 addon loaded once at most, whatever pushes,
\* promotions and reconnects came before.
WelcomeHonoured ==
  page.phase = "in" /\ down = <<>> =>
    /\ page.isRO = (server.role = "ro")
    /\ page.stdin = (server.role = "rw")
    /\ page.shownRO = (server.role = "ro")
    /\ page.notices \leq 1
    /\ page.prefs = Over(Themed(page.query), Over(Themed(server.prefs), Defaults))
    /\ page.osc52 \leq 1
    /\ server.role = "rw" /\ server.osc52 /\ page.clipboardOK => page.osc52 = 1

\* The terminal shows the size of the session as far as the window has room,
\* and who may write weighs on it with the size of its window: alone he has the
\* session at that size, with others their common rectangle.  A page whose RESIZE
\* the server dropped is excepted: it took the size for reported, and does not
\* report it again when it is promoted.
Drawn ==
  LET d == proposeDimensions(page)
  IN d # 0 => page.term = Smaller(d, server.dim)
Fits ==
  LET d == proposeDimensions(page)
  IN (server.role = "rw" \/ server.session = "per-client") /\ d # 0 =>
       server.dim = arbitrate([server EXCEPT !.reg = ClampDim(d)])

\* Once nothing outside moves any more, the sizes agree and stay so: RESIZE and
\* WELCOME do not answer one another for ever, none of them is lost to the
\* dedup, and no older size overtakes a newer one.
Settled == page.phase = "in" => Drawn /\ (~server.dropped => Fits)
SizesSettle == <>[][~Outside]_vars => <>[]Settled
=============================================================================
