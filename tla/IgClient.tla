------------------------------ MODULE IgClient ------------------------------
(***************************************************************************)
(* truefix-ig-client: one IgClient shared by several tasks.  The session   *)
(* is behind a RwLock that no call holds over an await, so a call reads    *)
(* it, waits for IG, and writes it when others may have changed it.        *)
(* IG's REST service is external.                                          *)
(***************************************************************************)
EXTENDS Integers, Sequences

CONSTANTS
  IgCallers,    \* tasks that call the client; First logs in before the others begin
  First,
  IgPrograms,   \* what may happen: see IgInit
  MaxNow        \* bound: the last instant considered

VARIABLES
  ig_program,   \* [calls, credentials, lives, faults]; constant
  ig_now,       \* in units of TOKEN_REFRESH_THRESHOLD
  ig_task,      \* the callers
  ig_session,   \* the session behind the lock: <<>> or <<credentials>>
  ig_server,    \* IG: [issued, valid, spent, last, done]
  ig_streams,   \* credentials that streaming connections were opened with
  ig_faults     \* bound: answers that may still be lost

IgVars == <<ig_program, ig_now, ig_task, ig_session, ig_server, ig_streams, ig_faults>>

TOKEN_REFRESH_THRESHOLD == 1

(***************************************************************************)
(* Credentials, as IG issues them and as the client keeps them.  V2: key   *)
(* is the CST and other the X-SECURITY-TOKEN.  V3: key is the access token *)
(* and other the refresh token.                                            *)
(***************************************************************************)
Creds(version, key, other, account) ==
  [version |-> version, key |-> key, other |-> other, account |-> account]
Issued(c) == Creds(c.version, c.key, c.other, c.account)
NoCreds == Creds("none", 0, 0, "none")

IgIdle == [pc |-> "idle", calls |-> <<>>, call |-> "none", account |-> "none", id |-> 0,
           creds |-> NoCreds, answer |-> <<>>]

IgInit ==
  /\ ig_program \in IgPrograms
  /\ ig_now = 0
  /\ ig_task = [p \in IgCallers |-> [IgIdle EXCEPT !.calls = ig_program.calls[p]]]
  /\ ig_session = <<>>
  /\ ig_server = [issued |-> {}, valid |-> {}, spent |-> {}, last |-> 0, done |-> <<>>]
  /\ ig_streams = {}
  /\ ig_faults = ig_program.faults

Become(p, t) == ig_task' = [ig_task EXCEPT ![p] = t]
IgGiveUp(p) == [IgIdle EXCEPT !.calls = ig_task[p].calls]
\* The others begin after the first login, or when there will be none.
LoggedIn == ig_session # <<>> \/ (ig_task[First].pc = "idle" /\ ig_task[First].calls = <<>>)

\* What the methods send.  Arguments a method refuses are `bad'.
Logins == {"login_v2", "login_v3"}
Writes == {"create_position", "create_working_order", "update_working_order",
           "delete_working_order"}
Reads == {"get", "search_markets", "category_instruments", "account_activity",
          "account_activity_next", "historical_prices"}
\* Those that call refresh_oauth_if_needed first.
Refreshes(call) == call \in Reads \cup Writes \cup {"logout"}

-----------------------------------------------------------------------------
\* A method begins.  A missing argument is refused before anything is sent.
IgBegin(p) ==
  /\ ig_task[p].pc = "idle" /\ ig_task[p].calls # <<>>
  /\ p = First \/ LoggedIn
  /\ LET c == Head(ig_task[p].calls)
         t == [ig_task[p] EXCEPT !.calls = Tail(@), !.call = c.call, !.account = c.account,
                                 !.id = c.id]
         refused == c.bad /\ c.call \in {"login_v3", "switch_account", "category_instruments"}
     IN  Become(p, IF refused \/ (c.call \in Logins /\ ~ig_program.credentials)
                   THEN [IgIdle EXCEPT !.calls = t.calls]
                   ELSE [t EXCEPT !.pc = CASE c.call \in Logins -> "sent"
                                           [] Refreshes(c.call) -> "check"
                                           [] c.call = "connect_streaming" -> "stream"
                                           [] OTHER -> "build",
                                  !.account = IF c.bad THEN "bad" ELSE c.account])
  /\ UNCHANGED <<ig_program, ig_now, ig_session, ig_server, ig_streams, ig_faults>>

\* expires_at.saturating_duration_since(now) <= TOKEN_REFRESH_THRESHOLD
NearExpiry == ig_session # <<>> /\ ig_session[1].version = "v3"
              /\ ig_session[1].expires_at - ig_now <= TOKEN_REFRESH_THRESHOLD

\* refresh_oauth_if_needed up to its await: the refresh token is copied.
RefreshCheck(p) ==
  /\ ig_task[p].pc = "check"
  /\ Become(p, IF ~NearExpiry THEN [ig_task[p] EXCEPT !.pc = "build"]
               ELSE IF ~ig_program.credentials THEN IgGiveUp(p)
               ELSE [ig_task[p] EXCEPT !.pc = "refreshing", !.creds = Issued(ig_session[1])])
  /\ UNCHANGED <<ig_program, ig_now, ig_session, ig_server, ig_streams, ig_faults>>

\* request_url: the credentials of the session as it is now are copied.
Build(p) ==
  /\ ig_task[p].pc = "build"
  /\ Become(p, IF \/ ig_task[p].call = "account_activity_next" /\ ig_task[p].account = "bad"
                  \/ ~ig_program.credentials \/ ig_session = <<>>
               THEN IgGiveUp(p)
               ELSE [ig_task[p] EXCEPT !.pc = "sent", !.creds = Issued(ig_session[1])])
  /\ UNCHANGED <<ig_program, ig_now, ig_session, ig_server, ig_streams, ig_faults>>

\* connect_streaming: V2 credentials serve as they are, for V3 they are fetched
\* for the account read here.
StreamBegin(p) ==
  /\ ig_task[p].pc = "stream"
  /\ IF ig_session = <<>> THEN Become(p, IgGiveUp(p)) /\ UNCHANGED ig_streams
     ELSE IF ig_session[1].version = "v2"
     THEN /\ ig_streams' = ig_streams \cup {Issued(ig_session[1])}
          /\ Become(p, IgGiveUp(p))
     ELSE /\ Become(p, [ig_task[p] EXCEPT !.pc = "check", !.account = ig_session[1].account])
          /\ UNCHANGED ig_streams
  /\ UNCHANGED <<ig_program, ig_now, ig_session, ig_server, ig_faults>>

-----------------------------------------------------------------------------
(***************************************************************************)
(* IG (external): it knows the credentials it gave out.  A login, a switch *)
(* of the account and a refresh give out new ones.  A refresh token is     *)
(* good for one refresh (spent), the access token beside it lives on; a    *)
(* switch replaces the X-SECURITY-TOKEN.                                   *)
(***************************************************************************)
Serial(n) == ig_server.last + n
Give(c, withdrawn, used) ==
  [ig_server EXCEPT !.issued = @ \cup {c}, !.valid = (@ \ withdrawn) \cup {c},
                    !.spent = @ \cup used, !.last = Serial(2)]
Reply(ok, creds, life) == <<[ok |-> ok, creds |-> creds, life |-> life]>>
Refused == Reply(FALSE, NoCreds, 0)

Grants(p) ==
  LET t == ig_task[p]
      fresh(version, account) == Creds(version, Serial(1), Serial(2), account)
  IN  CASE t.pc = "refreshing" -> fresh("v3", t.creds.account)
        [] t.call = "login_v2" -> fresh("v2", t.account)
        [] t.call = "login_v3" -> fresh("v3", t.account)
        [] t.call = "switch_account" -> Creds("v2", t.creds.key, Serial(2), t.account)
        [] OTHER -> fresh("v2", t.creds.account)     \* fetchSessionTokens

IgAccepts(p) ==
  LET t == ig_task[p]
      gives == t.pc = "refreshing" \/ t.call \in Logins \cup {"switch_account",
                                                              "connect_streaming"}
      known == \/ t.call \in Logins
               \/ t.creds \in ig_server.valid
                  /\ (t.pc = "refreshing" => t.creds \notin ig_server.spent)
      right == t.call = "switch_account" => t.creds.version = "v2"
      gone == IF t.pc = "sent" /\ t.call = "switch_account" THEN {t.creds} ELSE {}
      used == IF t.pc = "refreshing" THEN {t.creds} ELSE {}
  IN  /\ t.pc \in {"refreshing", "sent"} /\ t.answer = <<>>
      /\ \E life \in IF gives /\ Grants(p).version = "v3" THEN ig_program.lives ELSE {0} :
           IF ~known \/ ~right
           THEN Become(p, [t EXCEPT !.answer = Refused]) /\ UNCHANGED ig_server
           ELSE /\ Become(p, [t EXCEPT !.answer =
                                         Reply(TRUE, IF gives THEN Grants(p) ELSE NoCreds, life)])
                /\ ig_server' = IF gives THEN Give(Grants(p), gone, used)
                                ELSE IF t.call = "logout"
                                THEN [ig_server EXCEPT !.valid = @ \ {t.creds}]
                                ELSE IF t.call \in Writes
                                THEN [ig_server EXCEPT !.done = Append(@, t.id)] ELSE ig_server
      /\ UNCHANGED <<ig_program, ig_now, ig_session, ig_streams, ig_faults>>

\* The request or the answer is lost, or IG refuses: the caller gets an error.
IgFails(p) ==
  /\ ig_task[p].pc \in {"refreshing", "sent"} /\ ig_faults > 0
  /\ ig_task[p].answer # <<>> => ig_task[p].answer # Refused
  /\ Become(p, [ig_task[p] EXCEPT !.answer = Refused])
  /\ ig_faults' = ig_faults - 1
  /\ UNCHANGED <<ig_program, ig_now, ig_session, ig_server, ig_streams>>

-----------------------------------------------------------------------------
expiry_from(expires_in) == ig_now + IF expires_in > 1 THEN expires_in ELSE 1
Keep(c, life) ==
  <<[version |-> c.version, key |-> c.key, other |-> c.other, account |-> c.account,
     expires_at |-> IF c.version = "v3" THEN expiry_from(life) ELSE 0]>>

\* Faulty variant: the answer makes a session where there is none.
RefreshAnyway(a) == Keep(a.creds, a.life)

\* refresh_oauth_if_needed after its await: only a V3 session is updated, and
\* its account stays.
Refreshed(a) ==
  IF ig_session # <<>> /\ ig_session[1].version = "v3"
  THEN <<[ig_session[1] EXCEPT !.key = a.creds.key, !.other = a.creds.other,
                               !.expires_at = expiry_from(a.life)]>>
  ELSE ig_session

RefreshAnswered(p) ==
  LET t == ig_task[p]
  IN  /\ t.pc = "refreshing" /\ t.answer # <<>>
      /\ IF t.answer[1].ok
         THEN /\ ig_session' = Refreshed(t.answer[1])
              /\ Become(p, [t EXCEPT !.pc = "build", !.answer = <<>>])
         ELSE Become(p, IgGiveUp(p)) /\ UNCHANGED ig_session
      /\ UNCHANGED <<ig_program, ig_now, ig_server, ig_streams, ig_faults>>

Switched(account, a) ==
  IF ig_session # <<>> /\ ig_session[1].version = "v2"
  THEN <<[ig_session[1] EXCEPT !.account = account, !.other = a.creds.other]>> ELSE ig_session

AfterError(p) == IgGiveUp(p)

\* The rest of the method, after the answer.
Answered(p) ==
  LET t == ig_task[p]
  IN  /\ t.pc = "sent" /\ t.answer # <<>>
      /\ ig_session' = IF ~t.answer[1].ok THEN ig_session
                       ELSE CASE t.call \in Logins -> Keep(t.answer[1].creds, t.answer[1].life)
                              [] t.call = "logout" -> <<>>
                              [] t.call = "switch_account" -> Switched(t.account, t.answer[1])
                              [] OTHER -> ig_session
      /\ ig_streams' = IF t.answer[1].ok /\ t.call = "connect_streaming"
                       THEN ig_streams \cup {Creds("v2", t.answer[1].creds.key,
                                                   t.answer[1].creds.other, t.account)}
                       ELSE ig_streams
      /\ Become(p, IF t.answer[1].ok THEN IgGiveUp(p) ELSE AfterError(p))
      /\ UNCHANGED <<ig_program, ig_now, ig_server, ig_faults>>

IgTick ==
  /\ ig_now < MaxNow /\ ig_session # <<>> /\ ig_session[1].version = "v3"
  /\ ig_now' = ig_now + 1
  /\ UNCHANGED <<ig_program, ig_task, ig_session, ig_server, ig_streams, ig_faults>>

IgNext ==
  \/ \E p \in IgCallers : IgBegin(p)
  \/ \E p \in IgCallers : RefreshCheck(p)
  \/ \E p \in IgCallers : Build(p)
  \/ \E p \in IgCallers : StreamBegin(p)
  \/ \E p \in IgCallers : IgAccepts(p)
  \/ \E p \in IgCallers : IgFails(p)
  \/ \E p \in IgCallers : RefreshAnswered(p)
  \/ \E p \in IgCallers : Answered(p)
  \/ IgTick

-----------------------------------------------------------------------------
(***************************************************************************)
(* Properties.  They are about the use the documentation allows: a login   *)
(* comes before everything else, and beside one task that changes things   *)
(* the others read.                                                        *)
(***************************************************************************)

\* What the client keeps, and opens streams with, was issued together and for
\* that account: a token is "committed atomically with the local account ID so
\* subsequent REST and Lightstreamer calls cannot retain the old account token".
CredentialsBelong ==
  /\ ig_session # <<>> => Issued(ig_session[1]) \in ig_server.issued
  /\ \A c \in ig_streams : c \in ig_server.issued

\* An answer is under way that may change the session.
UnderWay(p) == ig_task[p].answer # <<>> /\ ~(ig_task[p].pc = "sent" /\ ig_task[p].call \in Reads)

\* While no answer was lost and none is under way, IG takes the credentials the
\* client holds, however many calls found the token near its end at once.
RefreshKeepsSession ==
  (ig_session # <<>> /\ ig_faults = ig_program.faults /\ ~\E p \in IgCallers : UnderWay(p)) =>
    Issued(ig_session[1]) \in ig_server.valid \ ig_server.spent

\* A login is answered, and its call returns.
LoginDone(p) ==
  ig_task[p].pc = "sent" /\ ig_task[p].call \in Logins /\ ig_task'[p].pc = "idle"

\* After a logout there is no session before the next login, also when a refresh
\* that began before the logout is answered after it.
LogoutIsFinal ==
  [][(ig_session = <<>> /\ ig_session' # <<>>) => \E p \in IgCallers : LoginDone(p)]_IgVars

\* "Calls which change server state are deliberately made once and are never
\* automatically replayed."
DealtOnce ==
  \A i, j \in DOMAIN ig_server.done : ig_server.done[i] = ig_server.done[j] => i = j
=============================================================================
