---------------------------- MODULE ViewScripts ----------------------------
(***************************************************************************)
(* The acceptance scripts of web/uat about what the page shows, played on  *)
(* View.  Two window sizes do for all of them: Narrow and Wide.            *)
(* A behaviour plays one script or, with the script Free, is one of View.  *)
(***************************************************************************)
EXTENDS View, Scripts

VARIABLES
  dials,          \* connections the page has made
  net,            \* the forwarder between page and server is up
  reported        \* the last RESIZE seen on the wire, 0 for none

allVars == <<vars, script, pos, dials, net, reported>>

Narrow == 1
Wide == 3

\* roles: what the server makes of the page's attaches, one after the other.
Setup(roles) ==
  [session |-> "shared", roles |-> roles, others |-> Narrow, window |-> Narrow,
   search |-> Search(<<>>, {}), given |-> <<>>, osc52 |-> FALSE, clipboardOK |-> TRUE]
Free == Script(Setup(<<>>), <<>>)

RW == Setup(<<"rw", "rw">>)
RO == Setup(<<"ro">>)
PerClient(s) == [s EXCEPT !.session = "per-client"]
Url(s, given) == [s EXCEPT !.search = Search(given, {})]

In == [phase |-> "in"]

-----------------------------------------------------------------------------
(* web/uat/phase04-dom.mjs *)

t3A == Script(RW, <<
  Await(In), Do("title", <<"a">>), Await([title |-> <<"a">>]),
  Do("title", <<"control", "b">>), Await([title |-> <<"b">>]) >>)

t3B == Script(RO, <<
  Await([ro |-> TRUE]), Do("title", <<"a">>), Await([title |-> <<"[ro]", "a">>]),
  Do("title", <<"b">>), Hold([title |-> <<"[ro]", "b">>]) >>)

t4 == Script(RW, <<
  Await(In), Do("hover", "url"), Await([tooltip |-> "url"]),
  Do("click", ""), Check([opened |-> <<"url">>]),
  Do("leave", ""), Do("hover", "osc8"), Await([tooltip |-> "osc8"]),
  Do("click", ""), Hold([opened |-> <<"url", "osc8">>]) >>)

t5 == Script(RW, <<
  Await(In), Do("select", "S"), Do("select", "SE"), Do("select", "SELECT"),
  Await([clipboard |-> <<"SELECT">>]), Hold([clipboard |-> <<"SELECT">>]) >>)

t6RW == Script(RW, <<
  Await(In), Do("paste", ""), Check([reads |-> 1, inputs |-> 1]) >>)
t6RO == Script(RO, <<
  Await([ro |-> TRUE]), Do("paste", ""), Hold([reads |-> 0, inputs |-> 0]) >>)

t7 == Script([RW EXCEPT !.clipboardOK = FALSE], <<
  Await(In), Do("select", "SELECT"), Hold([clipboard |-> <<>>]),
  Do("paste", ""), Hold([reads |-> 0]), Do("type", ""), Check([inputs |-> 1]) >>)

t8 == Script(RW, <<
  Await(In), Check([overlay |-> "hidden"]), Do("resize", Wide),
  Await([overlay |-> "shown"]), Await([overlay |-> "faded"]) >>)
t8Off == Script(Url(RW, [resizeOverlay |-> FALSE]), <<
  Await(In), Do("resize", Wide), Hold([overlay |-> "hidden"]),
  Await([term |-> Wide]) >>)

t9Off == Script(Url(RW, [confirmBeforeUnload |-> FALSE]), <<
  Await(In), Hold([guarded |-> FALSE]) >>)

t10 == Script([RW EXCEPT !.given = [font |-> "server", theme |-> [background |-> "blue"]]], <<
  Await(In), Check([font |-> "server", theme |-> [background |-> "blue", red |-> "tango"]]) >>)
t10Query == Script(Url([RW EXCEPT !.given = [font |-> "server"]], [font |-> "query"]), <<
  Await(In), Check([font |-> "query"]) >>)
t10Invalid == Script([RW EXCEPT !.search = Search([font |-> "Menlo"], {"font"})], <<
  Await(In), Check([font |-> "default"]), Do("type", ""), Check([inputs |-> 1]) >>)

t11 == Script([RW EXCEPT !.osc52 = TRUE], <<
  Await(In), Do("osc52", "hello"), Hold([clipboard |-> <<"hello">>]) >>)

-----------------------------------------------------------------------------
(* web/uat/phase05-dom.mjs *)

d1RoModeGates == Script(RO, <<
  Await(In), Check([ro |-> TRUE, notices |-> 1]), Do("type", ""), Hold([inputs |-> 0]),
  Do("resize", Wide), Hold([reported |-> 0]) >>)

d2PromotionUx == Script(RO, <<
  Await(In), Check([ro |-> TRUE, notices |-> 1]), Do("promote", ""),
  Await([ro |-> FALSE]), Do("type", ""), Check([inputs |-> 1, notices |-> 1]) >>)

d6ViewportConstraint == Script([RO EXCEPT !.window = Wide], <<
  Await(In), Check([ro |-> TRUE, term |-> Narrow]), Do("promote", ""),
  Await([ro |-> FALSE]), Await([term |-> Wide]) >>)

-----------------------------------------------------------------------------
(* web/uat/phase12-dom.mjs *)

d1PerClientResetChain == Script(PerClient(RW), <<
  Await(In), Check([dials |-> 1]), Do("print", "NORMGHOST7"),
  Check([shown |-> {"NORMGHOST7"}]), Do("enterAlt", ""), Check([shown |-> {}]),
  Do("print", "ALTLIVE7"), Do("lose", ""), Await([dials |-> 2]),
  Await([phase |-> "in", guarded |-> TRUE]), Do("print", "D1NEW7"),
  Check([shown |-> {"D1NEW7"}]), Do("leaveAlt", ""), Do("print", "EXITED7"),
  Hold([shown |-> {"D1NEW7", "EXITED7"}]) >>)

d3MissingKeyNoReset == Script([RW EXCEPT !.session = "none"], <<
  Await(In), Do("print", "NORMKEEP7"), Do("enterAlt", ""), Check([shown |-> {}]),
  Do("lose", ""), Await([dials |-> 2]), Await(In), Do("leaveAlt", ""),
  Do("print", "EXITED7"), Check([shown |-> {"old", "EXITED7"}]) >>)

d2PerClientRO == Script(PerClient(RO), <<
  Await(In), Check([notices |-> 1, reported |-> 0]), Do("resize", Wide),
  Await([reported |-> Wide]), Await([term |-> Wide]) >>)
d2SharedRO == Script(RO, <<
  Await(In), Check([notices |-> 1]), Do("resize", Wide), Hold([reported |-> 0]) >>)
d2PerClientRW == Script(PerClient(RW), <<
  Await(In), Check([term |-> Narrow]), Do("resize", Wide), Await([reported |-> Wide]),
  Check([term |-> Wide]), Await([pty |-> Wide]) >>)

-----------------------------------------------------------------------------
(* web/uat/pw/phase06-pw.mjs *)

pwT2 == Script(RW, <<
  Await(In), Do("print", "PRE"), Do("enterAlt", ""), Do("print", "VIMREDRAW"),
  Check([shown |-> {"VIMREDRAW"}]), Do("netDown", ""), Hold([phase |-> "off"]),
  Do("netUp", ""), Await(In), Check([shown |-> {}]), Do("print", "VIMREDRAW"),
  Check([shown |-> {"VIMREDRAW"}]) >>)

pwT6 == Script(Setup(<<"rw", "ro">>), <<
  Await(In), Check([ro |-> FALSE]), Do("netDown", ""), Do("netUp", ""),
  Await(In), Check([ro |-> TRUE]), Do("print", "T6B"), Check([shown |-> {"T6B"}]) >>)

Scripts4  == {t3A, t3B, t4, t5, t6RW, t6RO, t7, t8, t8Off, t9Off, t10, t10Query,
              t10Invalid, t11}
Scripts5  == {d1RoModeGates, d2PromotionUx, d6ViewportConstraint}
Scripts12 == {d1PerClientResetChain, d3MissingKeyNoReset, d2PerClientRO, d2SharedRO,
              d2PerClientRW}
AllScripts == Scripts4 \cup Scripts5 \cup Scripts12 \cup {pwT2, pwT6}

-----------------------------------------------------------------------------
(* What the behaviours without a script begin with. *)

SomeSearches == {Search(<<>>, {}), Search([font |-> "query", theme |-> [red |-> "query"]], {})}
SomeOptions == {[font |-> "server"]}

-----------------------------------------------------------------------------
(* The harness. *)

Seen == [phase |-> page.phase, term |-> page.term, ro |-> page.shownRO,
         title |-> documentTitle, notices |-> page.notices, inputs |-> page.inputs,
         reads |-> page.reads, clipboard |-> page.clipboard, overlay |-> page.overlay,
         guarded |-> page.guarded, font |-> page.prefs.font, theme |-> page.prefs.theme,
         tooltip |-> page.tooltip, opened |-> page.opened, shown |-> Shown,
         pty |-> server.dim, reported |-> reported, dials |-> dials]

AllInit ==
  /\ script \in AllScripts \cup {Free}
  /\ pos = 1 /\ dials = 0 /\ net = TRUE /\ reported = 0
  /\ IF script = Free THEN Init
     ELSE LET u == script.setup
          IN /\ window = u.window
             /\ timer = FALSE
             /\ page = NewPage(u.search, u.clipboardOK)
             /\ down = <<>>
             /\ server = NewServer(u.session, "owner", u.given, u.osc52)

\* The server of a script gives the roles of its setup; others keep their size.
Served ==
  RecvHello /\ server'.role = script.setup.roles[dials]
            /\ (server'.role = "ro" /\ server.session # "per-client" =>
                  server'.others = script.setup.others)
OnItsOwn ==
  \/ net /\ Connect /\ page'.reconnecting = page.reconnecting /\ dials' = dials + 1
  \/ /\ \/ net /\ (Open \/ Served \/ RecvResize \/ Arbitrate \/ RecvWelcome)
        \/ DebounceFires \/ OverlayFades
        \/ CopySelection /\ UNCHANGED <<window, timer, down, server>>
     /\ UNCHANGED dials

PageOnly(A) == A /\ UNCHANGED <<window, timer, down, server>>

Act ==
  /\ Is({"do"})
  /\ CASE step.event = "title"    -> PageOnly(onTitleChange(step.arg))
       [] step.event = "hover"    -> PageOnly(showLinkTooltip(step.arg))
       [] step.event = "leave"    -> PageOnly(hideLinkTooltip)
       [] step.event = "click"    -> PageOnly(ActivateLink)
       [] step.event = "select"   -> PageOnly(onSelectionChange(step.arg))
       [] step.event = "paste"    -> PageOnly(PasteKey)
       [] step.event = "type"     -> PageOnly(onData)
       [] step.event = "osc52"    -> PageOnly(WriteOsc52(step.arg))
       [] step.event = "print"    -> PageOnly(Prints(step.arg))
       [] step.event = "enterAlt" -> PageOnly(EnterAlt)
       [] step.event = "leaveAlt" -> PageOnly(LeaveAlt)
       [] step.event = "resize"   -> WindowTo(step.arg)
       [] step.event = "promote"  -> Promote
       [] step.event \in {"lose", "netDown"} -> Lost
       [] OTHER -> UNCHANGED vars
  /\ net' = IF step.event \in {"netDown", "netUp"} THEN step.event = "netUp" ELSE net
  /\ pos' = pos + 1
  /\ UNCHANGED <<script, dials, reported>>

Observe ==
  /\ Is({"await", "check", "hold"})
  /\ Matches(Seen, step.obs)
  /\ pos' = pos + 1
  /\ UNCHANGED <<vars, script, dials, net, reported>>

\* A quiet window goes wrong as soon as it shows something else.
Pass ==
  /\ Is({"await", "hold"})
  /\ Matches(Seen, step.obs) <=> step.kind = "hold"
  /\ OnItsOwn
  /\ reported' = IF Len(page'.up) > Len(page.up) /\ page'.phase = page.phase
                 THEN page'.lastReported ELSE reported
  /\ UNCHANGED <<script, pos, net>>

Freely(A) == script = Free /\ A /\ UNCHANGED <<script, pos, dials, net, reported>>

AllNext == Freely(Next) \/ Act \/ Observe \/ Pass

\* The fairness of View, and a browser that goes on with its script.
AllSpec ==
  /\ AllInit /\ [][AllNext]_allVars
  /\ WF_allVars(Freely(DebounceFires))
  /\ WF_allVars(Freely(RecvHello \/ RecvResize))
  /\ WF_down(Freely(TakeWelcome))
  /\ WF_allVars(Freely(Arbitrate))
  /\ WF_allVars(Act) /\ WF_allVars(Observe) /\ WF_allVars(Pass)

\* Every script comes to its end, whatever the order in which frames, timers
\* and attaches interleave with its steps; it stays there.
ViewScriptsEnd == <>[](script # Free => ~Playing)

\* SizesSettle of View, for the behaviours that no script drives; the others
\* have finitely many steps of Outside.
PageSizesSettle == <>[][~Outside]_vars => <>[](script = Free => Settled)
=============================================================================
