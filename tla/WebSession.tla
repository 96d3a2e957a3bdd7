---------------------------- MODULE WebSession ----------------------------
(* One browser tab's session with the panel: App.vue, api.ts and            *)
(* LoginView.vue against the cookie checks of the server.                   *)
(* A session is a number; its cookie and its CSRF token are both named by   *)
(* it.  Requests in flight sit in slots: each carries the cookie and the    *)
(* token of the moment it was sent, is answered by the server at some later *)
(* moment, and its answer arrives later still, in any order.                *)
EXTENDS Naturals, FiniteSets

CONSTANTS Slots,      \* bound: requests in flight at once
          MaxLogins,  \* bound: sessions the server issues
          MaxReloads  \* bound: times the page is loaded anew

VARIABLES
  cookie,   \* the browser's session cookie, 0 without one
  csrf,     \* api.ts: csrfToken, 0 when empty
  ready, user, expired, page,  \* App.vue: ready, username # '', sessionExpired, page
  live,     \* sessions the server still accepts
  issued,   \* sessions issued so far
  net,      \* slot -> the request in it
  asked,    \* history: the user signed out and has not signed in since
  reloads   \* history: reloads so far

vars == <<cookie, csrf, ready, user, expired, page, live, issued, net, asked, reloads>>

Pages  == {"dashboard", "protocols", "egress", "server", "settings"}
\* ProtocolsView loads when it is mounted and sets no timer.
Polled == Pages \ {"protocols"}
Kinds  == {"me", "login", "logout", "get", "post", "password"}
Sessions == 1..MaxLogins
Keep  == MaxLogins + 1   \* an answer without a Set-Cookie header
Free  == [kind |-> "free"]

NoReply == [status |-> "none", sets |-> Keep]
Reply(status, sets) == [status |-> status, sets |-> sets]

\* api(): a request leaves with the browser's cookie and, unless it reads, the token.
Request(k) == [kind |-> k, cookie |-> cookie, csrf |-> IF k \in {"me", "get"} THEN 0 ELSE csrf,
               mounted |-> TRUE, reply |-> NoReply]

Sent(k) == \E s \in Slots : /\ net[s] = Free
                            /\ \A r \in Slots : net[r] = Free => s <= r
                            /\ net' = [net EXCEPT ![s] = Request(k)]

\* The views are unmounted: what they still wait for no longer reaches them.
Orphaned(n) == [s \in Slots |-> IF n[s] = Free THEN Free ELSE [n[s] EXCEPT !.mounted = FALSE]]

InFlight(k) == \E s \in Slots : net[s].kind = k

Init ==
  /\ cookie = 0 /\ csrf = 0 /\ live = {} /\ issued = 0
  /\ ready = FALSE /\ user = FALSE /\ expired = FALSE /\ page = "dashboard"
  /\ net = [s \in Slots |-> IF \A r \in Slots : s <= r THEN Request("me") ELSE Free]
  /\ asked = FALSE /\ reloads = 0

-----------------------------------------------------------------------------
(* The server: login, requireAuth, api and changePassword. *)

\* requireAuth: the cookie first, then, for what is not a GET, the CSRF token.
Authorised(r) ==
  IF r.cookie = 0 THEN Reply("401", Keep)
  ELSE IF r.cookie \notin live THEN Reply("401", 0)
  ELSE IF r.kind \notin {"me", "get"} /\ r.csrf # r.cookie THEN Reply("403", Keep)
  ELSE Reply("ok", IF r.kind \in {"logout", "password"} THEN 0 ELSE Keep)

\* The password is right and a session is issued, or it is not and nothing is.
ServeLogin(s) ==
  /\ net[s].kind = "login" /\ net[s].reply = NoReply
  /\ \/ /\ issued < MaxLogins
        /\ issued' = issued + 1 /\ live' = live \cup {issued + 1}
        /\ net' = [net EXCEPT ![s].reply = Reply("ok", issued + 1)]
     \/ /\ net' = [net EXCEPT ![s].reply = Reply("401", Keep)]
        /\ UNCHANGED <<live, issued>>
  /\ UNCHANGED <<cookie, csrf, ready, user, expired, page, asked, reloads>>

\* A new password changes the credential tag: every session issued before is refused.
Serve(s) ==
  /\ net[s].kind \in Kinds \ {"login"} /\ net[s].reply = NoReply
  /\ LET reply == Authorised(net[s])
     IN  /\ net' = [net EXCEPT ![s].reply = reply]
         /\ live' = IF net[s].kind = "password" /\ reply.status = "ok" THEN {} ELSE live
  /\ UNCHANGED <<cookie, csrf, ready, user, expired, page, issued, asked, reloads>>

\* A session reaches the end of its lifetime.
SessionEnds == \E i \in live :
  /\ live' = live \ {i}
  /\ UNCHANGED <<cookie, csrf, ready, user, expired, page, issued, net, asked, reloads>>

-----------------------------------------------------------------------------
(* The tab. *)

Login ==
  /\ ready /\ ~user /\ ~InFlight("login")
  /\ Sent("login")
  /\ UNCHANGED <<cookie, csrf, ready, user, expired, page, live, issued, asked, reloads>>

\* A timer of the mounted view, unless what it asked for last is still pending.
Poll ==
  /\ user /\ page \in Polled
  /\ \A s \in Slots : ~(net[s].kind = "get" /\ net[s].mounted)
  /\ Sent("get")
  /\ UNCHANGED <<cookie, csrf, ready, user, expired, page, live, issued, asked, reloads>>

Write(k) ==
  /\ user /\ (k = "password" => page = "settings")
  /\ ~InFlight(k) \/ k = "logout"
  /\ Sent(k)
  /\ UNCHANGED <<cookie, csrf, ready, user, expired, page, live, issued, asked, reloads>>

\* navigate(): the old view goes, the new one loads as it is mounted.
Navigate(p) ==
  /\ user /\ p # page /\ page' = p
  /\ \E s \in Slots : /\ net[s] = Free
                      /\ \A r \in Slots : net[r] = Free => s <= r
                      /\ net' = [Orphaned(net) EXCEPT ![s] = Request("get")]
  /\ UNCHANGED <<cookie, csrf, ready, user, expired, live, issued, asked, reloads>>

\* The page is loaded anew: the tab's state and its requests are gone, the cookie stays.
Reload ==
  /\ reloads < MaxReloads /\ reloads' = reloads + 1
  /\ csrf' = 0 /\ ready' = FALSE /\ user' = FALSE /\ expired' = FALSE /\ page' = "dashboard"
  /\ net' = [s \in Slots |-> IF \A r \in Slots : s <= r
               THEN [Request("me") EXCEPT !.csrf = 0] ELSE Free]
  /\ asked' = FALSE
  /\ UNCHANGED <<cookie, live, issued>>

\* A defect: the login screen is shown as for an expired session whoever ended it.
Unauthorized_Expires ==
  /\ expired' = TRUE /\ csrf' = 0 /\ user' = FALSE /\ page' = "dashboard"
  /\ UNCHANGED asked

\* The handler App registers for a 401 of anything but a login.
Unauthorized ==
  /\ expired' = (user \/ expired) /\ csrf' = 0 /\ user' = FALSE /\ page' = "dashboard"
  /\ UNCHANGED asked

\* setCSRF with the token of an answer.
Adopted(token) == csrf' = token

\* A defect: a 401 is left to the view that made the request.
Refused_Silently(k) == k \notin {"login", "logout", "get"}

\* The requests whose 401 ends the session: api() reports all but a login's, logout() its own.
Refused(k) == k \notin {"login", "logout"}

\* What the code that awaits a request of kind k does with the status it gets.
Continue(r, status) ==
  CASE r.kind = "me" /\ status = "ok" ->
         /\ user' = TRUE /\ Adopted(r.cookie)
         /\ asked' = FALSE /\ UNCHANGED <<expired, page>>
    [] r.kind = "login" /\ status = "ok" ->
         /\ user' = TRUE /\ Adopted(r.reply.sets) /\ expired' = FALSE
         /\ asked' = FALSE /\ UNCHANGED page
    [] r.kind = "logout" ->      \* logout() ends the same way whatever the answer is
         /\ user' = FALSE /\ expired' = FALSE /\ page' = "dashboard" /\ asked' = TRUE
         /\ csrf' = IF status = "401" THEN 0 ELSE csrf
    [] status = "401" /\ Refused(r.kind) -> Unauthorized
    [] OTHER -> UNCHANGED <<user, csrf, expired, page, asked>>

\* A password that was changed while its form is still there signs the user out in turn.
SignsOut(r, status) == r.kind = "password" /\ status = "ok" /\ r.mounted

Settled(s, status) ==
  /\ Continue(net[s], status)
  /\ ready' = (ready \/ net[s].kind = "me")
  /\ LET after == [net EXCEPT ![s] = IF SignsOut(net[s], status)
                                     THEN [Request("logout") EXCEPT !.cookie = cookie'] ELSE Free]
     IN  net' = IF user' THEN after ELSE Orphaned(after)
  /\ UNCHANGED <<live, issued, reloads>>

\* An answer arrives: the browser obeys its Set-Cookie header, then the code goes on.
Receive(s) ==
  /\ net[s] # Free /\ net[s].reply # NoReply
  /\ cookie' = IF net[s].reply.sets = Keep THEN cookie ELSE net[s].reply.sets
  /\ Settled(s, net[s].reply.status)

\* The connection fails, before or after the server did its part.
Fail(s) ==
  /\ net[s] # Free
  /\ cookie' = cookie
  /\ Settled(s, "lost")

Next ==
  \/ \E s \in Slots : ServeLogin(s) \/ Serve(s) \/ Receive(s) \/ Fail(s)
  \/ SessionEnds \/ Login \/ Poll \/ Reload
  \/ \E k \in {"post", "logout", "password"} : Write(k)
  \/ \E p \in Pages : Navigate(p)

\* Connections may fail, but not for ever: requests that keep being made are in the
\* end answered and their answers received.  The timers keep firing; the user owes nothing.
Fairness ==
  /\ \A s \in Slots : SF_vars(ServeLogin(s) \/ Serve(s)) /\ SF_vars(Receive(s))
  /\ SF_vars(Poll)

Spec == Init /\ [][Next]_vars
FairSpec == Spec /\ Fairness

-----------------------------------------------------------------------------
TypeOK ==
  /\ cookie \in 0..MaxLogins /\ csrf \in 0..MaxLogins
  /\ {ready, user, expired, asked} \subseteq BOOLEAN /\ page \in Pages
  /\ live \subseteq Sessions /\ issued \in 0..MaxLogins
  /\ reloads \in 0..MaxReloads
  /\ \A s \in Slots : net[s] = Free \/ net[s].kind \in Kinds

\* The token the tab writes with belongs to the cookie the browser sends: a
\* signed-in user's writes are not refused for a token of another session,
\* whatever answers of earlier sessions arrive late.
TokenMatches == user /\ cookie # 0 => csrf = cookie

\* A user who signed out is not told that the session expired, in whatever
\* order the answers to the sign-out and to the polls around it arrive.
SignOutIsNoExpiry == asked /\ ~user => ~expired

Ended   == user /\ cookie \notin live
Noticed == ~user \/ page \notin Polled

\* A session that ended on the server does not leave a polling view frozen on
\* old data: the tab drops back to the login screen.
EndIsNoticed == Ended ~> Noticed

=============================================================================
