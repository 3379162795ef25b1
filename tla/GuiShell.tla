------------------------------- MODULE GuiShell -------------------------------
(***************************************************************************)
(* The GUI's one instance, its window and its tray icon (Linux): launches  *)
(* race for the socket, system call by system call, and the one that wins  *)
(* lives in a window, in the tray, or in a window that stands in for a     *)
(* tray that has not come up.                                              *)
(*                                                                         *)
(* Not modelled: what the window shows; a tray host that goes away again.  *)
(***************************************************************************)
EXTENDS Naturals

CONSTANTS
    None,       \* no socket file
    Dead,       \* the file a crashed instance left
    Launches,
    MaxClicks   \* bound: closing, showing and killing

\* No launch stands for the missing file
ShellConstants == None \notin Launches

VARIABLES
    gpath,      \* gui.sock: no file, a dead one, or the launch that bound it
    gui,        \* each launch
    clicks,
    refused     \* history: a launch was refused by a socket without a listener

svars == <<gpath, gui, clicks, refused>>

NotRunning ==
    [at |-> "off", retry |-> FALSE, hears |-> FALSE, calls |-> 0,
     hidden |-> FALSE, win |-> FALSE, tray |-> "unknown", exitIf |-> FALSE,
     fallback |-> FALSE, timer |-> FALSE, verdict |-> "due", asked |-> FALSE]

ShellInit ==
    /\ gpath \in {None, Dead}
    /\ gui = [p \in Launches |-> NotRunning]
    /\ clicks = 0 /\ refused = FALSE

Click == clicks < MaxClicks /\ clicks' = clicks + 1
Step(p, g) == gui' = [gui EXCEPT ![p] = g] /\ UNCHANGED <<gpath, refused>>

-----------------------------------------------------------------------------
(* Claiming the instance *)

\* App::new, with the timer that gives the tray two seconds
Running(g, hears) ==
    [g EXCEPT !.at = "up", !.hears = hears, !.timer = TRUE,
              !.win = ~g.hidden, !.asked = ~g.hidden]

Launch(p, hidden) ==
    /\ gui[p].at = "off"
    /\ Step(p, [gui[p] EXCEPT !.at = "bind", !.hidden = hidden])
    /\ UNCHANGED clicks

\* bind() makes the file, listen() is a second call
Bind(p) ==
    /\ gui[p].at = "bind"
    /\ gpath' = IF gpath = None THEN p ELSE gpath
    /\ gui' = [gui EXCEPT ![p].at = IF gpath = None THEN "listen" ELSE "connect"]
    /\ UNCHANGED <<clicks, refused>>

Listen(p) ==
    /\ gui[p].at = "listen"
    /\ Step(p, Running(gui[p], TRUE)) /\ UNCHANGED clicks

Answers(path) == path \in Launches /\ gui[path].hears

Connect(p) ==
    /\ gui[p].at = "connect"
    /\ \/ /\ Answers(gpath)
          /\ gui' = [gui EXCEPT ![p].at = "gone", ![gpath].calls = @ + 1]
          /\ UNCHANGED refused
       \/ /\ ~Answers(gpath) /\ gpath # None /\ ~gui[p].retry
          /\ gui' = [gui EXCEPT ![p].at = "unlink"]
          /\ refused' = TRUE
       \/ /\ ~Answers(gpath) /\ (gpath = None \/ gui[p].retry)
          /\ gui' = [gui EXCEPT ![p] = Running(@, FALSE)]
          /\ UNCHANGED refused
    /\ UNCHANGED <<gpath, clicks>>

RemoveFile(p) ==
    /\ gui[p].at = "unlink"
    /\ gpath' = None
    /\ gui' = [gui EXCEPT ![p] = [@ EXCEPT !.at = "bind", !.retry = TRUE]]
    /\ UNCHANGED <<clicks, refused>>

-----------------------------------------------------------------------------
(* The window and the tray *)

Up(p) == gui[p].at = "up"
Gone(g) == [g EXCEPT !.at = "gone", !.hears = FALSE, !.win = FALSE]

OpenWindow(g) == [g EXCEPT !.win = TRUE, !.exitIf = FALSE, !.fallback = FALSE]
OpenFallback(g) ==
    IF g.win THEN g ELSE [OpenWindow(g) EXCEPT !.fallback = g.hidden, !.asked = FALSE]

\* Forgets that the window was closed before the tray was known
CloseForgets(p) ==
    /\ Up(p) /\ gui[p].win /\ Click
    /\ Step(p, IF gui[p].tray = "none" THEN Gone(gui[p])
               ELSE [gui[p] EXCEPT !.win = FALSE, !.asked = FALSE])

CloseRequested(p) ==
    /\ Up(p) /\ gui[p].win /\ Click
    /\ Step(p, IF gui[p].tray = "none" THEN Gone(gui[p])
               ELSE [gui[p] EXCEPT !.win = FALSE, !.asked = FALSE,
                                   !.exitIf = @ \/ gui[p].tray = "unknown"])

ShowRequested(p) ==
    /\ Up(p) /\ gui[p].calls > 0
    /\ Step(p, [OpenWindow(gui[p]) EXCEPT !.calls = @ - 1, !.asked = TRUE])
    /\ UNCHANGED clicks

\* A menu action needs the icon
ShowWindow(p) ==
    /\ Up(p) /\ gui[p].verdict = "yes" /\ Click
    /\ Step(p, [OpenWindow(gui[p]) EXCEPT !.asked = TRUE])

\* From the tray's menu, or killed
Quit(p) == Up(p) /\ Click /\ Step(p, Gone(gui[p]))

TrayTimeout(p) ==
    /\ Up(p) /\ gui[p].timer
    /\ LET g == [gui[p] EXCEPT !.timer = FALSE]
       IN  Step(p, IF g.tray # "unknown" THEN g
                   ELSE IF g.exitIf THEN [g EXCEPT !.tray = "none"]
                   ELSE OpenFallback([g EXCEPT !.tray = "none"]))
    /\ UNCHANGED clicks

\* The first probe of the stream found no host; it goes on probing
Unavailable(p) ==
    /\ Up(p) /\ gui[p].verdict = "due"
    /\ LET g == [gui[p] EXCEPT !.verdict = "no", !.tray = "none"]
       IN  Step(p, IF g.exitIf THEN Gone(g) ELSE OpenFallback(g))
    /\ UNCHANGED clicks

Started(p) ==
    /\ Up(p) /\ gui[p].verdict # "yes"
    /\ Step(p, [gui[p] EXCEPT !.verdict = "yes", !.tray = "up", !.exitIf = FALSE,
                              !.fallback = FALSE, !.win = @ /\ ~gui[p].fallback])
    /\ UNCHANGED clicks

ShellNext ==
    \E p \in Launches :
        \/ \E hidden \in BOOLEAN : Launch(p, hidden)
        \/ Bind(p) \/ Listen(p) \/ Connect(p) \/ RemoveFile(p)
        \/ CloseRequested(p) \/ ShowRequested(p) \/ ShowWindow(p) \/ Quit(p)
        \/ TrayTimeout(p) \/ Unavailable(p) \/ Started(p)

ShellSpec == ShellInit /\ [][ShellNext]_svars

-----------------------------------------------------------------------------
(* Properties *)

ShellTypeOK ==
    /\ gpath \in {None, Dead} \cup Launches
    /\ \A p \in Launches :
           /\ gui[p].at \in {"off", "bind", "listen", "connect", "unlink", "up", "gone"}
           /\ gui[p].tray \in {"unknown", "none", "up"}
           /\ gui[p].win \/ gui[p].hears => Up(p)

\* Two launches run only when one of them was refused by a socket file that
\* nothing listened on: the bind decides any other race (claim_at).
OneInstance == \A p, q \in Launches : Up(p) /\ Up(q) /\ ~refused => p = q

\* A running GUI can be reached: it has a window, a tray icon, or the tray
\* stream's verdict is still to come and will show it or end it, whatever order
\* the close button, the two second timer and the stream come in.
Reachable ==
    \A p \in Launches : Up(p) =>
        gui[p].win \/ gui[p].verdict = "yes" \/ (gui[p].verdict = "due" /\ (gui[p].timer \/ gui[p].exitIf))

\* A window the user asked for stays until he closes it, and one that nobody
\* asked for stands only while there is no tray to live in.
WindowIsTheUsers ==
    \A p \in Launches : Up(p) =>
        /\ gui[p].asked => gui[p].win
        /\ gui[p].win /\ ~gui[p].asked => gui[p].verdict # "yes"

\* A GUI that runs is one, is reachable and keeps the user's window.
ShellHolds == OneInstance /\ Reachable /\ WindowIsTheUsers
===============================================================================
