-------------------------------- MODULE Router --------------------------------
(***************************************************************************)
(* Which screen the app shows (router/app_router.dart): the redirect that  *)
(* is evaluated for every location and again whenever the server address   *)
(* (server_url_provider.dart) or the session (auth_state.dart) changes,    *)
(* the invite kept while its reader is logged out                          *)
(* (pending_join_provider.dart), and the screen that redeems it            *)
(* (join_invite_screen.dart).                                              *)
(***************************************************************************)
EXTENDS Naturals

CONSTANTS Tokens,       \* of invite links; also the locations /join/:token
          NoToken, NoPage,
          MaxRestarts   \* bound on the restarts of the app

Inside    == {"households", "household"}    \* any screen under /households/:id
AuthPages == {"login", "register"}
Pages     == Inside \cup AuthPages \cup {"splash", "setup"}

ASSUME RouterAssumption ==
    /\ MaxRestarts \in Nat
    /\ NoToken \notin Tokens /\ NoPage \notin Tokens \cup Pages
    /\ Tokens \cap Pages = {}

VARIABLES
    server,     \* ServerUrlStatus: "unknown", "unconfigured", "configured"
    auth,       \* AuthStatus: "unknown", "in", "out"
    reading,    \* which of the two are being read from storage
    saved,      \* what storage holds: a subset of {"url", "token"}
    base,       \* the location of the router
    over,       \* a page pushed on it
    pending,    \* pendingJoinTokenProvider
    asked,      \* the join screen at base has run _join
    saving,     \* the server screen has set the address, not yet ended the session
    restarts,
    opened,     \* history: the last link opened, until its join begins
    untimely,   \* history: it was opened while nothing was there to take it
    begun       \* history: joins begun, and not given a reason to begin again

storage    == <<reading, saved>>
history    == <<opened, untimely, begun>>
routerVars == <<server, auth, storage, base, over, pending, asked, saving, restarts, history>>

Location == Pages \cup Tokens

RouterTypeOK ==
    /\ server \in {"unknown", "unconfigured", "configured"}
    /\ auth \in {"unknown", "in", "out"}
    /\ reading \subseteq {"url", "token"} /\ saved \subseteq {"url", "token"}
    /\ base \in Location /\ over \in Location \cup {NoPage}
    /\ pending \in Tokens \cup {NoToken}
    /\ asked \in BOOLEAN /\ saving \in BOOLEAN
    /\ restarts \in 0 .. MaxRestarts
    /\ opened \in Tokens \cup {NoToken} /\ untimely \in BOOLEAN
    /\ begun \subseteq Tokens
-----------------------------------------------------------------------------
(* The redirect *)

\* Mutant: an invite is looked at before the server is.
RedirectOfInvitesFirst(s, a, kept, l) ==
    CASE l \in Tokens /\ a # "in"                    -> "login"
      [] s = "unknown"                               -> "splash"
      [] s = "unconfigured"                          -> "setup"
      [] a = "unknown"                               -> "splash"
      [] a = "out"                                   -> IF l \in AuthPages THEN l ELSE "login"
      [] a = "in" /\ l \in AuthPages \cup {"splash"} -> IF kept = NoToken THEN "households" ELSE kept
      [] OTHER                                       -> l

\* Mutant: everybody who logs in starts with the households.
RedirectHome(s, a, kept, l) ==
    CASE s = "unknown"                               -> "splash"
      [] s = "unconfigured"                          -> "setup"
      [] a = "unknown"                               -> "splash"
      [] a = "out"                                   -> IF l \in AuthPages THEN l ELSE "login"
      [] a = "in" /\ l \in AuthPages \cup {"splash"} -> "households"
      [] OTHER                                       -> l

\* Where a location leads, given the server's status, the session's, and the
\* invite that is kept.
Redirect(s, a, kept, l) ==
    CASE s = "unknown"      -> "splash"
      [] s = "unconfigured" -> "setup"
      [] s = "configured" /\ a = "unknown" -> "splash"
      [] s = "configured" /\ a = "out"     -> IF l \in AuthPages THEN l ELSE "login"
      [] s = "configured" /\ a = "in"      ->
           IF l \notin AuthPages \cup {"splash"} THEN l
           ELSE IF kept = NoToken THEN "households" ELSE kept

\* The token a redirect keeps on its way to the login.
Stash(s, a, l) ==
    IF s = "configured" /\ a = "out" /\ l \in Tokens THEN l ELSE pending

\* go() and a link from outside: the location replaces what is there.  From
\* one invite to another the route is the same, and so are the page's key and
\* the state of its screen: initState, which starts _join, is not run again.
GoTo(l) ==
    /\ base' = Redirect(server, auth, pending, l) /\ over' = NoPage
    /\ pending' = Stash(server, auth, l)
    /\ asked' = (asked /\ base' \in Tokens) /\ saving' = FALSE

\* refreshListenable: the location is looked at again with what is known now.
\* A page pushed on it stays when it does.
Now(s, a) ==
    /\ server' = s /\ auth' = a
    /\ base' = Redirect(s, a, pending, base)
    /\ over' = IF base' = base THEN over ELSE NoPage
    /\ pending' = Stash(s, a, base)
    /\ asked' = (asked /\ base' \in Tokens)
-----------------------------------------------------------------------------
(* Starting *)

\* The process starts, with its icon or with a link.
Launched(l) ==
    /\ server' = "unknown" /\ auth' = "unknown"
    /\ reading' = {"url", "token"}
    /\ base' = Redirect("unknown", "unknown", NoToken, l) /\ over' = NoPage
    /\ pending' = NoToken /\ asked' = FALSE /\ saving' = FALSE
    /\ opened' = (IF l \in Tokens THEN l ELSE NoToken) /\ untimely' = (l \in Tokens)
    /\ begun' = {}

RouterInit ==
    /\ server = "unknown" /\ auth = "unknown"
    /\ reading = {"url", "token"} /\ saved \in SUBSET {"url", "token"}
    /\ base = "splash" /\ over = NoPage
    /\ pending = NoToken /\ asked = FALSE /\ saving = FALSE
    /\ restarts = 0
    /\ opened = NoToken /\ untimely = FALSE /\ begun = {}

Restart ==
    /\ restarts < MaxRestarts /\ restarts' = restarts + 1
    /\ \E l \in Tokens \cup {"splash"} : Launched(l)
    /\ UNCHANGED saved

\* ServerUrlNotifier._initialize.
UrlRead ==
    /\ "url" \in reading /\ reading' = reading \ {"url"}
    /\ Now(IF "url" \in saved THEN "configured" ELSE "unconfigured", auth)
    /\ UNCHANGED <<saved, saving, restarts, history>>

\* Nothing catches what storage throws: the status stays unknown.
UrlReadThrows ==
    /\ "url" \in reading /\ reading' = reading \ {"url"}
    /\ UNCHANGED <<server, auth, saved, base, over, pending, asked, saving, restarts, history>>

\* Mutant: nothing catches what storage throws here either.
TokenReadUncaught ==
    /\ "token" \in reading /\ reading' = reading \ {"token"}
    /\ \/ Now(server, IF "token" \in saved THEN "in" ELSE "out")
       \/ UNCHANGED <<server, auth, base, over, pending, asked>>
    /\ begun' = begun \ {base}
    /\ UNCHANGED <<saved, saving, restarts, opened, untimely>>

\* AuthNotifier._initialize; broken storage is no session.  So late that
\* somebody has logged in, it ends that session.
TokenRead ==
    /\ "token" \in reading /\ reading' = reading \ {"token"}
    /\ \/ Now(server, IF "token" \in saved THEN "in" ELSE "out")
       \/ Now(server, "out")
    /\ begun' = begun \ {base}
    /\ UNCHANGED <<saved, saving, restarts, opened, untimely>>
-----------------------------------------------------------------------------
(* The session and the server *)

\* saveToken: a login or a registration, or a refresh answered after a logout.
LogIn ==
    /\ server = "configured" /\ auth = "out"
    /\ Now(server, "in")
    /\ saved' = saved \cup {"token"}
    /\ UNCHANGED <<reading, saving, restarts, history>>

\* A join whose screen is closed by the end of the session may begin again.
SessionEnded ==
    /\ Now(server, "out")
    /\ saved' = saved \ {"token"}
    /\ begun' = begun \ {base}
    /\ UNCHANGED <<reading, restarts, opened, untimely>>

\* A logout, or clearOnUnauthorized after a refused refresh.
EndSession ==
    /\ auth = "in" /\ SessionEnded
    /\ UNCHANGED saving

Top == IF over = NoPage THEN base ELSE over

\* The server screen has found a server: setUrl ...
SetUrl ==
    /\ Top = "setup" /\ ~ saving
    /\ Now("configured", auth)
    /\ saving' = TRUE
    /\ saved' = saved \cup {"url"}
    /\ UNCHANGED <<reading, restarts, history>>

\* ... then clearOnUnauthorized, and the screen is closed.
SessionOfOldServerEnds ==
    /\ saving /\ saving' = FALSE
    /\ SessionEnded
-----------------------------------------------------------------------------
(* What the user does *)

\* A link is opened while the app runs, whatever it shows.
OpenLink(t) ==
    /\ GoTo(t)
    /\ opened' = t
    /\ untimely' = (server # "configured" \/ auth = "unknown" \/ asked)
    /\ begun' = begun \ {t}
    /\ UNCHANGED <<server, auth, storage, restarts>>

Go(l) ==
    /\ \/ Top \in Inside /\ l \in Inside
       \/ Top \in AuthPages /\ l \in AuthPages
    /\ GoTo(l)
    /\ UNCHANGED <<server, auth, storage, restarts, history>>

\* pushNamed: the redirect applies to what is pushed.
Push(l) ==
    /\ over = NoPage
    /\ \/ base \in Inside /\ l \in {"household", "setup"}
       \/ base = "login" /\ l = "setup"
    /\ over' = Redirect(server, auth, pending, l)
    /\ UNCHANGED <<server, auth, storage, base, pending, asked, saving, restarts, history>>

\* The screen is gone, and with it what it was about to do.
Pop ==
    /\ over # NoPage /\ over' = NoPage
    /\ saving' = FALSE
    /\ UNCHANGED <<server, auth, storage, base, pending, asked, restarts, history>>

\* Mutant: the token is kept until the join has succeeded.
BeginJoinKeepingToken ==
    /\ base \in Tokens /\ ~ asked
    /\ asked' = TRUE /\ pending' = pending
    /\ begun' = begun \cup {base}
    /\ opened' = (IF opened = base THEN NoToken ELSE opened)
    /\ UNCHANGED <<server, auth, storage, base, over, saving, restarts, untimely>>

\* _join, after the first frame: the token is forgotten before it is sent.
BeginJoin ==
    /\ base \in Tokens /\ ~ asked
    /\ asked' = TRUE /\ pending' = NoToken
    /\ begun' = begun \cup {base}
    /\ opened' = (IF opened = base THEN NoToken ELSE opened)
    /\ UNCHANGED <<server, auth, storage, base, over, saving, restarts, untimely>>

\* The household's chores, or the households after a failure.
JoinAnswered ==
    /\ base \in Tokens /\ asked
    /\ \E l \in Inside : GoTo(l)
    /\ UNCHANGED <<server, auth, storage, restarts, history>>

RouterNext ==
    \/ Restart
    \/ UrlRead \/ UrlReadThrows \/ TokenRead
    \/ LogIn \/ EndSession \/ SetUrl \/ SessionOfOldServerEnds
    \/ \E t \in Tokens : OpenLink(t)
    \/ \E l \in Pages : Go(l) \/ Push(l)
    \/ Pop \/ BeginJoin \/ JoinAnswered

\* Storage answers.
Fairness == WF_routerVars(UrlRead \/ UrlReadThrows) /\ WF_routerVars(TokenRead)

RouterSpec == RouterInit /\ [][RouterNext]_routerVars /\ Fairness
-----------------------------------------------------------------------------
(* What must hold *)

(***************************************************************************)
(* Nobody is left on a screen that is not for them: the redirect has       *)
(* nothing to say about the page below, nor about one pushed on it, which  *)
(* it was not asked about again.  It also never needs a second round.      *)
(***************************************************************************)
WhereTheyBelong ==
    \A l \in {base, over} \ {NoPage} : Redirect(server, auth, pending, l) = l

Kept == IF auth = "in" THEN base = opened ELSE pending = opened

(***************************************************************************)
(* An invite that was opened is redeemed by whoever is logged in, or kept  *)
(* for the login, unless it was opened when nothing was there to take it.  *)
(* While another join is under way the screen of that join, which is the   *)
(* same, never begins it (join_invite_screen.dart:32-36).  Before the app  *)
(* knows its server and its session the redirect forgets it (109-117),     *)
(* also on a fresh install, where it should lead on to the join after the  *)
(* server's setup and the login "as required" (app_router.dart:146-148).   *)
(***************************************************************************)
InviteIsKept == opened # NoToken /\ ~ untimely => Kept

(***************************************************************************)
(* No join is begun again by a later login.  What begins one again is the  *)
(* link, or the end of the session with its screen still up.               *)
(***************************************************************************)
NoStaleJoin == [][~ asked /\ asked' => base \notin begun]_routerVars

(***************************************************************************)
(* The splash screen is left, unless the address of the server could not   *)
(* be read: then the app stays there.                                      *)
(***************************************************************************)
SplashIsLeft ==
    base = "splash" ~> \/ base # "splash"
                       \/ server = "unknown" /\ "url" \notin reading
=============================================================================
