------------------------------- MODULE SignOn --------------------------------
(***************************************************************************)
(* The session of a browser: a refresh token that the broker (RiceService) *)
(* exchanges for a new one at each use, in a cookie that every tab sends.  *)
(* The backend keeps nothing: what a request carries was read when it      *)
(* left, and the cookie is set when the answer is there.  A token of the   *)
(* broker that is used a second time ends its session.                     *)
(***************************************************************************)
EXTENDS Naturals

CONSTANTS
  Tabs,
  MaxTokens,    \* bound on the tokens the broker hands out
  MaxIncidents  \* bound on what fails or is revoked

SignOnAssumption == MaxTokens \in Nat /\ MaxIncidents \in Nat

VARIABLES
  cookie,    \* the token in the jar of the browser
  handed,    \* the tokens are 1..handed
  session,   \* session[t]: the token its session began with
  live,      \* the tokens the broker accepts
  tabs,
  incidents,
  upset      \* why the browser may be signed out (history)

vars == <<cookie, handed, session, live, tabs, incidents, upset>>

Tokens == 1..MaxTokens
NoToken == 0
Idle == [pc |-> "idle"]
Upsets == {"logout", "overlap", "lost", "revoked"}
Answers == [is : {"token"}, token : Tokens] \cup [is : {"refused", "error"}]

Init ==
  /\ cookie = NoToken /\ handed = 0
  /\ session = [t \in Tokens |-> NoToken]
  /\ live = {}
  /\ tabs = [b \in Tabs |-> Idle]
  /\ incidents = 0 /\ upset = {}

Incident == incidents < MaxIncidents /\ incidents' = incidents + 1

\* A request leaves with the cookie as it is.
Leave(b, kind) ==
  /\ tabs[b] = Idle
  /\ tabs' = [tabs EXCEPT ![b] = [pc |-> "sent", kind |-> kind, token |-> cookie]]
  /\ upset' = upset \cup (IF \A c \in Tabs : tabs[c] = Idle THEN {} ELSE {"overlap"})
                    \cup (IF kind = "logout" THEN {"logout"} ELSE {})
  /\ UNCHANGED <<cookie, handed, session, live, incidents>>

\* The callback of the sign-on, with the code of the broker; refresh and logout without a
\* cookie do nothing.
Ask(b) ==
  \/ Leave(b, "callback")
  \/ cookie # NoToken /\ \E kind \in {"refresh", "logout"} : Leave(b, kind)

Answered(b, answer) == tabs' = [tabs EXCEPT ![b].pc = "answer", ![b].token = answer]

\* exchange and refresh: a new token, in a new session or in that of the old token.
Issue(b) ==
  LET new == handed + 1
      old == tabs[b].token
      renews == tabs[b].kind = "refresh"
  IN
  /\ tabs[b].pc = "sent" /\ tabs[b].kind \in {"callback", "refresh"}
  /\ renews => old \in live
  /\ new \in Tokens
  /\ handed' = new
  /\ session' = [session EXCEPT ![new] = IF renews THEN session[old] ELSE new]
  /\ live' = (live \cup {new}) \ (IF renews THEN {old} ELSE {})
  /\ Answered(b, [is |-> "token", token |-> new])
  /\ UNCHANGED <<cookie, incidents, upset>>

SessionOf(t) == {u \in Tokens : session[u] = session[t]}

\* A token that is not accepted any more: its session is revoked.
Refused(b) ==
  /\ tabs[b].pc = "sent" /\ tabs[b].kind = "refresh" /\ tabs[b].token \notin live
  /\ live' = live \ SessionOf(tabs[b].token)
  /\ Answered(b, [is |-> "refused"])
  /\ UNCHANGED <<cookie, handed, session, incidents, upset>>

\* logout revokes the session; that it could not is only logged.
Revoke(b) ==
  /\ tabs[b].pc = "sent" /\ tabs[b].kind = "logout"
  /\ \/ live' = live \ SessionOf(tabs[b].token) /\ UNCHANGED incidents
     \/ Incident /\ UNCHANGED live
  /\ Answered(b, [is |-> "error"])
  /\ UNCHANGED <<cookie, handed, session, upset>>

\* The broker is not there: 500.
Unreachable(b) ==
  /\ tabs[b].pc = "sent" /\ tabs[b].kind \in {"callback", "refresh"}
  /\ Incident
  /\ Answered(b, [is |-> "error"])
  /\ UNCHANGED <<cookie, handed, session, live, upset>>

\* (A mistake: whatever goes wrong, the cookie is cleared.)
Jar_ClearedOnError(kind, answer) ==
  IF answer.is = "token" THEN answer.token ELSE NoToken

\* setRefreshCookie and clearRefreshCookie: only a session that is over, or a logout, clears.
Jar(kind, answer) ==
  IF answer.is = "token" THEN answer.token
  ELSE IF kind = "logout" \/ answer.is = "refused" THEN NoToken ELSE cookie

Arrive(b) ==
  /\ tabs[b].pc = "answer"
  /\ cookie' = Jar(tabs[b].kind, tabs[b].token)
  /\ tabs' = [tabs EXCEPT ![b] = Idle]
  /\ UNCHANGED <<handed, session, live, incidents, upset>>

\* The tab is closed, or the network fails, before the answer is there.
Lost(b) ==
  /\ tabs[b] # Idle
  /\ Incident
  /\ tabs' = [tabs EXCEPT ![b] = Idle]
  /\ upset' = upset \cup {"lost"}
  /\ UNCHANGED <<cookie, handed, session, live>>

\* An administrator revokes the session, or it has not been used for too long.
End ==
  /\ cookie \in live
  /\ Incident
  /\ live' = live \ SessionOf(cookie)
  /\ upset' = upset \cup {"revoked"}
  /\ UNCHANGED <<cookie, handed, session, tabs>>

Next ==
  \/ \E b \in Tabs :
       \/ Ask(b) \/ Issue(b) \/ Refused(b) \/ Revoke(b) \/ Unreachable(b) \/ Arrive(b) \/ Lost(b)
  \/ End

Spec == Init /\ [][Next]_vars

-----------------------------------------------------------------------------
\* The cookie, the tokens and the requests are well formed.
TypeOK ==
  /\ cookie \in Tokens \cup {NoToken} /\ handed \in 0..MaxTokens
  /\ session \in [Tokens -> Tokens \cup {NoToken}] /\ live \subseteq 1..handed
  /\ \A b \in Tabs : tabs[b].pc \in {"idle", "sent", "answer"}
  /\ \A b \in Tabs : tabs[b].pc = "answer" => tabs[b].token \in Answers
  /\ incidents \in 0..MaxIncidents /\ upset \subseteq Upsets

\* Who has signed on stays so, with the broker failing at times: but for a logout, a session
\* that was revoked, an answer that was lost and requests that overlapped, the cookie is good
\* (sso-session.controller names the first two only).
StaysSignedOn ==
  upset = {} /\ handed > 0 /\ (\A b \in Tabs : tabs[b] = Idle) => cookie \in live
=============================================================================
