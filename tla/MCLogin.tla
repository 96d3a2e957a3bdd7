------------------------------ MODULE MCLogin ------------------------------
(* Signing in, for TLC: the limiter of the server and the session of a        *)
(* browser tab.  To the tab a refused login is one that fails, and to the     *)
(* limiter a tab is an address that logs in, so each is checked on its own: a *)
(* behaviour is one of the part its "scene" names; the other stays as it is.  *)
EXTENDS LoginLimiter

CONSTANTS c1, c2, c3, l1, l2, l3,
          Slots, MaxLogins, MaxReloads  \* WebSession

ASSUME SessionAssumption == Slots \subseteq Nat /\ MaxLogins \in Nat /\ MaxReloads \in Nat

VARIABLES scene, cookie, csrf, ready, user, expired, page, live, issued, net, asked, reloads

tab == <<cookie, csrf, ready, user, expired, page, live, issued, net, asked, reloads>>

S == INSTANCE WebSession

ThreeClients == {c1, c2, c3}
ThreeLogins  == {l1, l2, l3}

MCInit == scene \in {"limiter", "session"} /\ Init /\ S!Init

MCNext ==
  /\ UNCHANGED scene
  /\ IF scene = "limiter" THEN Next ELSE UNCHANGED vars
  /\ IF scene = "session" THEN S!Next ELSE UNCHANGED tab

\* The fairness WebSession states, where the session runs; the limiter owes nothing.
MCFairness ==
  /\ \A s \in Slots : /\ SF_tab(scene = "session" /\ (S!ServeLogin(s) \/ S!Serve(s)))
                      /\ SF_tab(scene = "session" /\ S!Receive(s))
  /\ SF_tab(scene = "session" /\ S!Poll)

MCSpec == MCInit /\ [][MCNext]_<<scene, vars, tab>> /\ MCFairness

-----------------------------------------------------------------------------
\* The token a signed-in tab writes with belongs to the cookie the browser sends, and a
\* user who signed out is not told that the session expired, whatever answers of earlier
\* sessions, to the sign-out or to the polls around it arrive late (App.vue, api.ts).
SessionIsTrue == scene = "session" => S!TypeOK /\ S!TokenMatches /\ S!SignOutIsNoExpiry

\* A session that ended on the server does not leave a polling page frozen on old
\* data: the tab drops back to the login screen (App.vue, api.ts).
EndIsNoticed == scene = "session" => S!EndIsNoticed
=============================================================================
