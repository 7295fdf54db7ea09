------------------------------ MODULE Sessions ------------------------------
(***************************************************************************)
(* One user's sessions: the rows of sessions behind the refresh tokens,     *)
(* the second factor with its challenges and recovery codes, and the token  *)
(* store that the command line's processes share.                           *)
(*                                                                         *)
(* A command of the client is a request and what the client does with its   *)
(* answer.  On the server a request reads, then commits once; redeeming a   *)
(* challenge is a commit of its own before the read.  A client may lose an  *)
(* answer, and anyone may send a request again.  Passwords and codes are    *)
(* right or wrong, and a wrong one changes nothing that is kept here.       *)
(***************************************************************************)
EXTENDS FiniteSets, Naturals

CONSTANTS
    Clients,      \* commands under way at the same time
    SessionIds, Challenges, Codes, Secrets,
    None

ASSUME SessionsAssumption == None \notin SessionIds \cup Secrets

VARIABLES
    session,      \* session[n]: the row whose refresh token is n
    ended,        \* history: logins that a logout or a new password ended
    store,        \* the token the store holds, or None
    secret,       \* users.totp_secret_encrypted, or None
    enrolled,     \* users.totp_enrolled_at is set
    proven,       \* history: secrets a code of which has been verified
    challenge,    \* challenge[j]: a signed challenge; "used" is a row of
                  \* used_mfa_challenges
    redeemed,     \* history: how often challenge j let a login go on
    code,         \* code[k]: the recovery codes of one set, as one
    spent,        \* history: how often a login was paid with code k
    cmd,          \* cmd[c]: the command of client c, or Idle
    overlap,      \* history: two commands have been under way at once
    lost          \* history: an answer with a token in it was lost

tokens  == <<session, ended>>
factors == <<secret, enrolled, proven, code>>
trials  == <<challenge, redeemed, spent>>
vars    == <<tokens, store, factors, trials, cmd, overlap, lost>>

Idle == [op |-> "idle"]
Free == [status |-> "free", login |-> None]

Row == [status : {"free", "live", "revoked", "expired", "gone"},
        login : SessionIds \cup {None}]

Command ==
    {Idle}
    \cup [op : {"refresh", "logout"}, step : {"sent", "read", "clear"}, token : SessionIds]
    \cup [op : {"login", "change", "enroll", "regenerate"}]
    \cup [op : {"recover"}, code : Codes]
    \cup [op : {"verify"}, secret : Secrets]
    \cup [op : {"answered"}, token : SessionIds]

TypeOK ==
    /\ session \in [SessionIds -> Row]
    /\ ended \in SUBSET SessionIds
    /\ store \in SessionIds \cup {None}
    /\ secret \in Secrets \cup {None}
    /\ enrolled \in BOOLEAN
    /\ proven \in SUBSET Secrets
    /\ challenge \in [Challenges -> {"free", "issued", "used"}]
    /\ redeemed \in [Challenges -> Nat]
    /\ code \in [Codes -> {"free", "unused", "used", "gone"}]
    /\ spent \in [Codes -> Nat]
    /\ cmd \in [Clients -> Command]
    /\ overlap \in BOOLEAN /\ lost \in BOOLEAN

(* A user who has registered and not logged in yet.                         *)
Init ==
    /\ session = [n \in SessionIds |-> Free]
    /\ store = None
    /\ ended = {}
    /\ secret = None /\ enrolled = FALSE /\ proven = {}
    /\ challenge = [j \in Challenges |-> "free"]
    /\ redeemed = [j \in Challenges |-> 0]
    /\ code = [k \in Codes |-> "free"]
    /\ spent = [k \in Codes |-> 0]
    /\ cmd = [c \in Clients |-> Idle]
    /\ overlap = FALSE /\ lost = FALSE

-----------------------------------------------------------------------------
(* Commands.                                                                *)

Meets(c) == \E d \in Clients \ {c} : cmd[d] # Idle

Starts(c, r) ==
    /\ cmd[c] = Idle
    /\ cmd' = [cmd EXCEPT ![c] = r]
    /\ overlap' = (overlap \/ Meets(c))
    /\ UNCHANGED lost

GoesOn(c, r) == cmd' = [cmd EXCEPT ![c] = r] /\ UNCHANGED <<overlap, lost>>
Ends(c)      == GoesOn(c, Idle)

(* _issue_tokens: a row of its own; l is the login it continues.            *)
Issued(rows, n, l) == [rows EXCEPT ![n] = [status |-> "live", login |-> l]]

Fresh(n) == n \in SessionIds /\ session[n] = Free

(* The commits of a login.                                                  *)
OpensSession(c) ==
    \E n \in SessionIds :
       /\ Fresh(n)
       /\ session' = Issued(session, n, n)
       /\ GoesOn(c, [op |-> "answered", token |-> n])

(* TokenStore.save, once the answer is there.                               *)
SaveAccessOnly(c) ==                  \* mutant: a stored refresh token is kept
    /\ cmd[c].op = "answered"
    /\ store' = IF store = None THEN cmd[c].token ELSE store
    /\ Ends(c)
    /\ UNCHANGED <<tokens, factors, trials>>
Save(c) ==
    /\ cmd[c].op = "answered"
    /\ store' = cmd[c].token
    /\ Ends(c)
    /\ UNCHANGED <<tokens, factors, trials>>

(* The client dies, or the network fails: what is stored stays.             *)
LoseAnswer(c) ==
    /\ cmd[c] # Idle
    /\ cmd' = [cmd EXCEPT ![c] = Idle]
    /\ lost' = (lost \/ cmd[c].op = "answered")
    /\ UNCHANGED <<tokens, store, factors, trials, overlap>>

-----------------------------------------------------------------------------
(* The token is about to run out, and the command refreshes it.             *)

SendRefresh(c) ==
    /\ store # None
    /\ Starts(c, [op |-> "refresh", step |-> "sent", token |-> store])
    /\ UNCHANGED <<tokens, store, factors, trials>>

Refreshable(n) == session[n].status = "live"

ReadRefresh(c) ==
    /\ cmd[c].op = "refresh" /\ cmd[c].step = "sent"
    /\ GoesOn(c, [cmd[c] EXCEPT !.step =
                     IF Refreshable(cmd[c].token) THEN "read" ELSE "clear"])
    /\ UNCHANGED <<tokens, store, factors, trials>>

(* Rotation writes the row by its id, whatever has become of it.            *)
RotatedBeside(n) == session                                \* mutant: the old row stays
Rotated(n) == [session EXCEPT ![n].status = "revoked"]

CommitRefresh(c) ==
    /\ cmd[c].op = "refresh" /\ cmd[c].step = "read"
    /\ \E n \in SessionIds :
          /\ Fresh(n)
          /\ session' = Issued(Rotated(cmd[c].token), n, session[cmd[c].token].login)
          /\ GoesOn(c, [op |-> "answered", token |-> n])
    /\ UNCHANGED <<ended, store, factors, trials>>

(* An error status clears the store as a refusal does; so does a network    *)
(* error of a logout, and that of a refresh loses the answer.               *)
FailRequest(c) ==
    /\ cmd[c].op \in {"refresh", "logout"} /\ cmd[c].step \in {"sent", "read"}
    /\ GoesOn(c, [cmd[c] EXCEPT !.step = "clear"])
    /\ UNCHANGED <<tokens, store, factors, trials>>

(* The client answers a refusal by clearing the store, and logout clears it *)
(* whatever the server says.                                                *)
ClearStore(c) ==
    /\ cmd[c].op \in {"refresh", "logout"} /\ cmd[c].step = "clear"
    /\ store' = None
    /\ Ends(c)
    /\ UNCHANGED <<tokens, factors, trials>>

-----------------------------------------------------------------------------
(* Login, logout, a new password.                                           *)

(* With a second factor the answer is a challenge, and the command goes on  *)
(* as a BeginMfa of its own.                                                *)
BeginLogin(c) ==
    /\ ~enrolled
    /\ Starts(c, [op |-> "login"])
    /\ UNCHANGED <<tokens, store, factors, trials>>

CommitLogin(c) ==
    /\ cmd[c].op = "login"
    /\ OpensSession(c)
    /\ UNCHANGED <<ended, store, factors, trials>>

SendLogout(c) ==
    /\ store # None
    /\ Starts(c, [op |-> "logout", step |-> "sent", token |-> store])
    /\ UNCHANGED <<tokens, store, factors, trials>>

(* A row that is revoked, or no longer there, makes the request a no-op.    *)
ReadLogout(c) ==
    /\ cmd[c].op = "logout" /\ cmd[c].step = "sent"
    /\ GoesOn(c, [cmd[c] EXCEPT !.step =
                     IF session[cmd[c].token].status \in {"live", "expired"}
                     THEN "read" ELSE "clear"])
    /\ UNCHANGED <<tokens, store, factors, trials>>

CommitLogout(c) ==
    /\ cmd[c].op = "logout" /\ cmd[c].step = "read"
    /\ session' = Rotated(cmd[c].token)
    /\ ended' = ended \cup {session[cmd[c].token].login}
    /\ GoesOn(c, [cmd[c] EXCEPT !.step = "clear"])
    /\ UNCHANGED <<store, factors, trials>>

BeginChange(c) ==
    /\ Starts(c, [op |-> "change"])
    /\ UNCHANGED <<tokens, store, factors, trials>>

(* One UPDATE over the rows that are not revoked when it runs.              *)
Open(n) == session[n].status \in {"live", "expired"}

CommitChange(c) ==
    /\ cmd[c].op = "change"
    /\ session' = [n \in SessionIds |->
                      IF Open(n) THEN [session[n] EXCEPT !.status = "revoked"]
                                 ELSE session[n]]
    /\ ended' = ended \cup {session[n].login : n \in {m \in SessionIds : Open(m)}}
    /\ Ends(c)
    /\ UNCHANGED <<store, factors, trials>>

-----------------------------------------------------------------------------
(* The second factor.                                                       *)

BeginEnrollAgain(c) ==                \* mutant: totp_enrolled_at unread
    /\ Starts(c, [op |-> "enroll"])
    /\ UNCHANGED <<tokens, store, factors, trials>>
BeginEnroll(c) ==
    /\ ~enrolled
    /\ Starts(c, [op |-> "enroll"])
    /\ UNCHANGED <<tokens, store, factors, trials>>

(* A second enrollment before the first is verified replaces its secret.    *)
CommitEnroll(c) ==
    /\ cmd[c].op = "enroll"
    /\ secret' \in Secrets \ (proven \cup {secret})
    /\ Ends(c)
    /\ UNCHANGED <<tokens, store, enrolled, proven, code, trials>>

(* The caller's code is one of the pending secret.                          *)
BeginVerify(c) ==
    /\ ~enrolled /\ secret # None
    /\ Starts(c, [op |-> "verify", secret |-> secret])
    /\ UNCHANGED <<tokens, store, factors, trials>>

(* _mint_recovery_codes, on top of the rows that rows holds.                *)
Minted(rows) ==
    {[rows EXCEPT ![k] = "unused"] : k \in {m \in Codes : rows[m] = "free"}}

CommitVerify(c) ==
    /\ cmd[c].op = "verify"
    /\ enrolled' = TRUE
    /\ proven' = proven \cup {cmd[c].secret}
    /\ code' \in Minted(code)
    /\ Ends(c)
    /\ UNCHANGED <<tokens, store, secret, trials>>

BeginRegenerate(c) ==
    /\ enrolled
    /\ Starts(c, [op |-> "regenerate"])
    /\ UNCHANGED <<tokens, store, factors, trials>>

(* One DELETE of the user's codes, used or not, and a new set.              *)
WithdrawnUnused(rows) == rows                      \* mutant: the old set stays
Withdrawn(rows) == [k \in Codes |-> IF rows[k] = "free" THEN "free" ELSE "gone"]

CommitRegenerate(c) ==
    /\ cmd[c].op = "regenerate"
    /\ code' \in Minted(Withdrawn(code))
    /\ Ends(c)
    /\ UNCHANGED <<tokens, store, secret, enrolled, proven, trials>>

(* The first step of a login with a second factor.                          *)
Challenge(j) ==
    /\ enrolled /\ challenge[j] = "free"
    /\ challenge' = [challenge EXCEPT ![j] = "issued"]
    /\ UNCHANGED <<tokens, store, factors, redeemed, spent, cmd, overlap, lost>>

(* _consume_mfa_challenge: the primary key refuses a second row.  Nothing   *)
(* but the answer depends on whether the request comes first or again.      *)
Redeemable(j) == challenge[j] = "issued"

Redeems(j) ==
    /\ Redeemable(j)
    /\ challenge' = [challenge EXCEPT ![j] = "used"]
    /\ redeemed' = [redeemed EXCEPT ![j] = @ + 1]

(* The challenge is spent and the code read: an authenticator's, or one of  *)
(* the recovery codes.                                                      *)
BeginMfa(c) ==
    /\ enrolled
    /\ \E j \in Challenges : Redeems(j)
    /\ \/ Starts(c, [op |-> "login"])
       \/ \E k \in Codes :
             /\ code[k] = "unused"
             /\ Starts(c, [op |-> "recover", code |-> k])
    /\ UNCHANGED <<tokens, store, factors, spent>>

(* A wrong code leaves the challenge spent.                                 *)
RejectMfa ==
    /\ enrolled
    /\ \E j \in Challenges : Redeems(j)
    /\ UNCHANGED <<tokens, store, factors, spent, cmd, overlap, lost>>

(* The row is written by its id and must be there still.                    *)
CommitRecover(c) ==
    /\ cmd[c].op = "recover"
    /\ code[cmd[c].code] \in {"unused", "used"}
    /\ code' = [code EXCEPT ![cmd[c].code] = "used"]
    /\ spent' = [spent EXCEPT ![cmd[c].code] = @ + 1]
    /\ OpensSession(c)
    /\ UNCHANGED <<ended, store, secret, enrolled, proven, challenge, redeemed>>

-----------------------------------------------------------------------------
(* Time.  Thirty days end a session; the sweep removes what was revoked or  *)
(* used ninety days ago, which no request under way has read.               *)

Held == {cmd[c].token : c \in {d \in Clients : "token" \in DOMAIN cmd[d]}}

Expire(n) ==
    /\ session[n].status = "live" /\ n \notin Held
    /\ session' = [session EXCEPT ![n].status = "expired"]
    /\ UNCHANGED <<ended, store, factors, trials, cmd, overlap, lost>>

Prunable(n) == session[n].status = "revoked"

(* run_session_retention, of any part of what may be old enough.            *)
Prune ==
    /\ \A c \in Clients : cmd[c] = Idle
    /\ \E rows \in SUBSET {n \in SessionIds : Prunable(n)},
          used \in SUBSET {k \in Codes : code[k] = "used"} :
          /\ session' = [n \in SessionIds |->
                            IF n \in rows THEN [session[n] EXCEPT !.status = "gone"]
                                          ELSE session[n]]
          /\ code' = [k \in Codes |-> IF k \in used THEN "gone" ELSE code[k]]
    /\ UNCHANGED <<ended, store, secret, enrolled, proven, trials, cmd, overlap, lost>>

Next ==
    \/ \E c \in Clients :
          \/ SendRefresh(c) \/ ReadRefresh(c) \/ CommitRefresh(c)
          \/ BeginLogin(c) \/ CommitLogin(c) \/ Save(c) \/ LoseAnswer(c)
          \/ SendLogout(c) \/ FailRequest(c) \/ ReadLogout(c) \/ CommitLogout(c)
          \/ ClearStore(c) \/ BeginChange(c) \/ CommitChange(c)
          \/ BeginEnroll(c) \/ CommitEnroll(c) \/ BeginVerify(c) \/ CommitVerify(c)
          \/ BeginRegenerate(c) \/ CommitRegenerate(c)
          \/ BeginMfa(c) \/ CommitRecover(c)
    \/ \E j \in Challenges : Challenge(j)
    \/ RejectMfa
    \/ \E n \in SessionIds : Expire(n)
    \/ Prune

Spec == Init /\ [][Next]_vars

-----------------------------------------------------------------------------
(* Properties.                                                              *)

(* A challenge lets at most one login go on, however often and however      *)
(* concurrently its answer is sent.                                         *)
ChallengesAreRedeemedOnce == \A j \in Challenges : redeemed[j] <= 1

Live(n) == session[n].status = "live"

(* Of commands that run one at a time, rotation keeps one live session per  *)
(* login, and a logout or a new password leaves a login none.               *)
SeriallyOneLivePerLogin ==
    overlap \/ \A m, n \in SessionIds :
        Live(m) => /\ session[m].login \notin ended
                   /\ Live(n) /\ session[m].login = session[n].login => m = n

(* An active second factor is one whose secret the user has shown to hold.  *)
SeriallyEnrolledSecretIsProven == overlap \/ (enrolled => secret \in proven)

(* One set of recovery codes at a time, each of which pays for one login.   *)
SeriallyCodesAreSpentOnce ==
    overlap \/ /\ \A k \in Codes : spent[k] <= 1
               /\ \A k, m \in Codes : {code[k], code[m]} \subseteq {"unused", "used"} => k = m

(* Between commands that run one at a time the store never holds a token    *)
(* that was rotated away, unless an answer was lost.                        *)
SeriallyStoreFollowsRotation ==
    \/ overlap \/ lost \/ store = None
    \/ \E c \in Clients : cmd[c] # Idle
    \/ session[store].status \in {"live", "expired"}
    \/ session[store].login \in ended
=============================================================================
