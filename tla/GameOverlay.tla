---------------------------- MODULE GameOverlay ----------------------------
(***************************************************************************)
(* The overlay window after each frame of main.cpp: made for the attached  *)
(* process, kept over that process's window, taken away again.             *)
(*                                                                         *)
(* Windows come, go, hide and take the focus at any time.  The overlay     *)
(* looks for its game's window only when it has none that exists, and not  *)
(* more often than every 250 ms.                                           *)
(***************************************************************************)
EXTENDS FiniteSets

CONSTANTS
    Pids, NoPid,
    Windows, NoWindow,     \* top-level windows with a title
    Owner                  \* the process a window belongs to

VARIABLES
    ui,                               \* place in the frame
    session,                          \* pid of App::session
    overlayEnabled, overlayFollowFg,
    hwnd, gamePid, gameHwnd, shown,   \* OverlayWindow
    elapsed,                          \* 250 ms since lastResolveTick
    alive, drawable,                  \* windows that exist; those neither hidden nor minimised
    foreground                        \* a window; "own": of the debugger; "other"

desktopVars == <<alive, drawable, foreground>>
overlayVars == <<hwnd, gamePid, gameHwnd, shown, elapsed>>
ownVars     == <<session, overlayEnabled, overlayFollowFg, overlayVars, desktopVars>>
vars        == <<ui, ownVars>>

TypeOK ==
    /\ ui \in {"update", "overlay"}
    /\ {session, gamePid} \subseteq Pids \cup {NoPid}
    /\ {overlayEnabled, overlayFollowFg, hwnd, shown, elapsed} \subseteq BOOLEAN
    /\ gameHwnd \in Windows \cup {NoWindow} /\ drawable \subseteq alive /\ alive \subseteq Windows
    /\ foreground \in Windows \cup {"own", "other"}
    /\ ~hwnd => gameHwnd = NoWindow /\ ~shown
    /\ shown => Owner[gameHwnd] = gamePid
    /\ ui = "update" /\ hwnd => gamePid = session

Init ==
    /\ ui = "update" /\ session = NoPid
    /\ overlayEnabled = FALSE /\ overlayFollowFg = TRUE
    /\ hwnd = FALSE /\ gamePid = NoPid /\ gameHwnd = NoWindow /\ shown = FALSE /\ elapsed = TRUE
    /\ alive = {} /\ drawable = {} /\ foreground = "own"

(***************************************************************************)
(* The desktop (external), and time.                                       *)
(***************************************************************************)
\* A window is opened or closed, shown or minimised, or gets the focus.
DesktopChanges ==
    /\ \/ \E w \in Windows :
             \/ w \notin alive /\ alive' = alive \cup {w} /\ UNCHANGED <<drawable, foreground>>
             \/ /\ w \in alive /\ alive' = alive \ {w} /\ drawable' = drawable \ {w}
                /\ foreground' = IF foreground = w THEN "other" ELSE foreground
             \/ w \in alive \ drawable /\ drawable' = drawable \cup {w} /\ UNCHANGED <<alive, foreground>>
             \/ w \in drawable /\ drawable' = drawable \ {w} /\ UNCHANGED <<alive, foreground>>
       \/ foreground' \in drawable \cup {"own", "other"} /\ UNCHANGED <<alive, drawable>>
    /\ UNCHANGED <<ui, session, overlayEnabled, overlayFollowFg, overlayVars>>

ThrottleRunsOut ==
    /\ ~elapsed /\ elapsed' = TRUE
    /\ UNCHANGED <<ui, session, overlayEnabled, overlayFollowFg, hwnd, gamePid, gameHwnd, shown,
                   desktopVars>>

\* App::Update: an attach or a detach, or one of the overlay's switches.
Update ==
    /\ ui = "update" /\ ui' = "overlay"
    /\ \/ session' \in Pids \cup {NoPid} /\ UNCHANGED <<overlayEnabled, overlayFollowFg>>
       \/ overlayEnabled' = ~overlayEnabled /\ UNCHANGED <<session, overlayFollowFg>>
       \/ overlayFollowFg' = ~overlayFollowFg /\ UNCHANGED <<session, overlayEnabled>>
    /\ UNCHANGED <<overlayVars, desktopVars>>

(***************************************************************************)
(* main.cpp after the frame was drawn.                                     *)
(***************************************************************************)
\* EnumWindows comes to any visible one of the process first, a minimised one included.
Found ==
    LET of(S) == {w \in S : Owner[w] = gamePid'}
    IN  of(alive) \cup IF of(drawable) = {} THEN {NoWindow} ELSE {}

\* Fault: a window once found is never looked for again.
ResolveOnce(known, canLook) ==
    IF known = NoWindow /\ canLook
    THEN /\ gameHwnd' \in Found /\ elapsed' = FALSE
    ELSE gameHwnd' = known /\ elapsed' = canLook

Resolve(known, canLook) ==
    IF known \notin alive /\ canLook
    THEN /\ gameHwnd' \in Found /\ elapsed' = FALSE
    ELSE gameHwnd' = known /\ elapsed' = canLook

GameIsForeground == foreground \in {gameHwnd', "own"}

\* A client area without width or height hides it too.
UpdateTracking(known, canLook) ==
    /\ Resolve(known, canLook)
    /\ shown' \in (IF gameHwnd' \in drawable /\ (overlayFollowFg => GameIsForeground)
                   THEN BOOLEAN ELSE {FALSE})

Blank == hwnd' = FALSE /\ gameHwnd' = NoWindow /\ shown' = FALSE /\ elapsed' = TRUE

Destroy == IF hwnd THEN Blank /\ gamePid' = NoPid ELSE UNCHANGED overlayVars

\* Anew for another process, without what the old one was over.
Create ==
    \/ /\ hwnd' = TRUE /\ gamePid' = session /\ UNCHANGED overlayEnabled
       /\ UpdateTracking(NoWindow, TRUE)
    \/ Blank /\ gamePid' \in {NoPid, session}    \* no GL context, or no window: not tried again
       /\ overlayEnabled' = FALSE

Keep == UNCHANGED <<hwnd, gamePid, overlayEnabled>> /\ UpdateTracking(gameHwnd, elapsed)

RenderFrame ==
    /\ ui = "overlay" /\ ui' = "update"
    /\ IF overlayEnabled /\ session # NoPid
       THEN IF hwnd /\ gamePid = session THEN Keep ELSE Create
       ELSE Destroy /\ UNCHANGED overlayEnabled
    /\ UNCHANGED <<session, overlayFollowFg, desktopVars>>

Frame == Update \/ RenderFrame

Next == DesktopChanges \/ ThrottleRunsOut \/ Frame

Spec == Init /\ [][Next]_vars

\* Frames go on and time passes.
Fairness == WF_vars(Frame) /\ WF_vars(ThrottleRunsOut)

FairSpec == Spec /\ Fairness

\* The game has one window, which can be drawn over and is in front or need not be, and
\* the overlay can be made.
Calm ==
    /\ UNCHANGED <<session, overlayEnabled, overlayFollowFg, desktopVars>>
    /\ overlayEnabled /\ session # NoPid
    /\ \E w \in drawable :
          /\ {v \in alive : Owner[v] = session} = {w}
          /\ overlayFollowFg => foreground \in {w, "own"}
    /\ ui = "overlay" /\ gameHwnd' \in drawable => shown'

\* Whatever windows the game has had before, and whichever process the overlay was over,
\* it comes to lie over the game's window (UpdateTracking, ResolveGameWindow).
OverlayAppears ==
    <>[][Calm]_vars =>
        <>[](overlayEnabled /\ session # NoPid =>
                 shown /\ gameHwnd \in drawable /\ Owner[gameHwnd] = session)
=============================================================================
